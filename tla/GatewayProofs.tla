--------------------------- MODULE GatewayProofs ---------------------------
(***************************************************************************)
(* Proofs about five parts of the gateways that share no state: the token  *)
(* bucket, the word list with its file, the moderation of a room, the way  *)
(* of a message through one comet, and discovery.                          *)
(***************************************************************************)
EXTENDS TokenBucket, WordBank, Moderation, CometUplink, Discovery, DataLemmas, FiniteSetTheorems, TLAPS

(* The token bucket: arithmetic of a time that wraps *)

\* The difference of two wrapped times is the time between them, if that is less than a wrap.
LEMMA WrappedDifference ==
  ASSUME NEW W \in Nat \ {0}, NEW a \in Nat, NEW b \in Nat, b <= a, a - b < W
  PROVE  ((a % W) - (b % W)) % W = a - b
<1> DEFINE p == a \div W
           q == b \div W
           r == a % W
           s == b % W
<1>1. /\ p \in Int /\ q \in Int /\ r \in 0..(W - 1) /\ s \in 0..(W - 1)
      /\ a = W * p + r /\ b = W * q + s
  BY ModSmall
<1> HIDE DEF p, q, r, s
<1>2. p = q \/ p = q + 1
  <2>1. a - b = W * (p - q) + (r - s)
    BY <1>1
  <2>2. CASE p - q >= 2
    <3>1. W * (p - q) >= 2 * W
      BY <1>1, <2>2
    <3> QED BY <1>1, <2>1, <3>1
  <2>3. CASE p - q <= -1
    <3>1. W * (p - q) <= -W
      BY <1>1, <2>3
    <3> QED BY <1>1, <2>1, <3>1
  <2> QED BY <1>1, <2>2, <2>3
<1>3. CASE p = q
  <2>1. r - s = a - b
    BY <1>1, <1>3
  <2>2. (a - b) % W = a - b
    OBVIOUS
  <2>3. (r - s) % W = a - b
    BY <2>1, <2>2
  <2> QED BY <2>3 DEF r, s
<1>4. CASE p = q + 1
  <2>1. r - s = a - b - W
    BY <1>1, <1>4
  <2>2. (a - b - W) % W = a - b
    <3> DEFINE y == a - b - W
    <3>1. -W <= y /\ y < 0 /\ y \in Int /\ y + W = a - b
      OBVIOUS
    <3> HIDE DEF y
    <3>2. y % W = y + W
      BY <3>1, ModSmall
    <3> QED BY <3>1, <3>2 DEF y
  <2>3. (r - s) % W = a - b
    BY <2>1, <2>2
  <2> QED BY <2>3 DEF r, s
<1> QED BY <1>2, <1>3, <1>4

\* Less than a wrap apart, equal wrapped times are equal times.
LEMMA WrappedEqual ==
  ASSUME NEW W \in Nat \ {0}, NEW a \in Nat, NEW b \in Nat, b <= a, a - b < W, a % W = b % W
  PROVE  a = b
<1>1. ((a % W) - (b % W)) % W = 0
  <2>1. (a % W) - (b % W) = 0 /\ 0 % W = 0
    OBVIOUS
  <2> QED BY <2>1
<1>2. ((a % W) - (b % W)) % W = a - b
  BY WrappedDifference
<1> QED BY <1>1, <1>2

\* Tokens refilled into a word whose time was b, at time a.
LEMMA RefilledBound ==
  ASSUME NEW old \in StoredWords, NEW a \in Nat, NEW b \in Nat, b <= a, a - b < ClockWrap,
         old.ms = b % ClockWrap
  PROVE  /\ Refilled(old, a % ClockWrap) \in Nat
         /\ Refilled(old, a % ClockWrap) <= old.tokens + Rate * (a - b)
<1>1. ((a % ClockWrap) - old.ms) % ClockWrap = a - b
  <2>1. ClockWrap \in Nat \ {0}
    BY TokenBucketAssumption
  <2>2. ((a % ClockWrap) - (b % ClockWrap)) % ClockWrap = a - b
    BY <2>1, WrappedDifference
  <2> QED BY <2>2
<1>2. (a - b) * Rate \in Nat /\ (a - b) * Rate = Rate * (a - b) /\ Capacity * TokenUnit \in Nat
  BY TokenBucketAssumption
<1> QED BY <1>1, <1>2 DEF Refilled, StoredWords

\* The bucket begins full at its own time.
LEMMA TokenInvInit == TokenInit => TokenInv
<1> SUFFICES ASSUME TokenInit PROVE TokenInv
  OBVIOUS
<1>1. Capacity * TokenUnit \in Nat /\ Rate * 0 = 0 /\ 0 % ClockWrap = 0
  BY TokenBucketAssumption
<1>2. TokenTypeOK
  BY <1>1 DEF TokenInit, TokenTypeOK, AllowStart, StoredWords, Calls
<1>3. WordCurrent
  BY <1>1, TokenBucketAssumption DEF TokenInit, WordCurrent
<1>4. \A c \in Callers : allow[c].pc = "start"
  BY DEF TokenInit, AllowStart
<1> QED BY <1>2, <1>3, <1>4 DEF TokenInv

\* The clock stays within half a wrap of the last grant and of the start of every call under way.
LEMMA TokenTick ==
  ASSUME TokenInv, Tick
  PROVE  TokenInv'
<1> USE TokenBucketAssumption
<1>1. TokenTypeOK'
  BY DEF TokenInv, TokenTypeOK, Tick
<1>2. WordCurrent'
  BY DEF TokenInv, TokenTypeOK, WordCurrent, Tick
<1>3. ASSUME NEW c \in Callers, allow[c].pc # "start" PROVE CallFresh(c)'
  BY <1>3 DEF TokenInv, TokenTypeOK, Calls, CallFresh, Refilled, Tick
<1> QED BY <1>1, <1>2, <1>3 DEF TokenInv, Tick

\* Steps of Allow before the swap leave the word alone.
LEMMA TokenCompute ==
  ASSUME TokenInv, NEW c \in Callers,
         AllowLoad(c) \/ AllowRefused(c) \/ AllowCompute(c) \/ AllowRetry(c)
  PROVE  TokenInv'
<1> USE TokenBucketAssumption
<1>1. UNCHANGED <<bucket, clock, grants, granted>>
  BY DEF AllowLoad, AllowRefused, AllowCompute, AllowRetry
<1>2. WordCurrent'
  BY <1>1 DEF TokenInv, WordCurrent
<1>3. \A d \in Callers \ {c} : allow'[d] = allow[d]
  BY DEF TokenInv, TokenTypeOK, AllowLoad, AllowRefused, AllowCompute, AllowRetry
<1>4. \A d \in Callers \ {c} : allow'[d].pc # "start" => CallFresh(d)'
  BY <1>1, <1>3 DEF TokenInv, CallFresh, Refilled
<1>5. CASE AllowLoad(c)
  <2>1. allow' = [allow EXCEPT ![c] = [allow[c] EXCEPT !.pc = "loaded", !.old = bucket, !.since = clock]]
    BY <1>5 DEF TokenInv, TokenTypeOK, Calls, AllowLoad
  <2>2. TokenTypeOK'
    BY <1>1, <2>1 DEF TokenInv, TokenTypeOK, Calls
  <2>3. CallFresh(c)'
    BY <1>1, <2>1 DEF TokenInv, TokenTypeOK, Calls, CallFresh, WordCurrent
  <2> QED BY <1>2, <1>4, <2>2, <2>3 DEF TokenInv
<1>6. CASE AllowRefused(c) \/ AllowRetry(c)
  <2>1. allow' = [allow EXCEPT ![c] = AllowStart]
    BY <1>6 DEF AllowRefused, AllowRetry
  <2>2. TokenTypeOK'
    BY <1>1, <2>1 DEF TokenInv, TokenTypeOK, Calls, StoredWords, AllowStart
  <2>3. allow'[c].pc = "start"
    BY <2>1 DEF TokenInv, TokenTypeOK, AllowStart
  <2> QED BY <1>2, <1>4, <2>2, <2>3 DEF TokenInv
<1>7. CASE AllowCompute(c)
  <2> DEFINE ms == clock % ClockWrap
             new == Refilled(allow[c].old, ms)
  <2>1. /\ allow[c].pc = "loaded" /\ new >= TokenUnit
        /\ allow' = [allow EXCEPT ![c] = [allow[c] EXCEPT !.pc = "cas", !.tokens = new - TokenUnit,
                                                        !.ms = ms, !.at = clock]]
    BY <1>7 DEF TokenInv, TokenTypeOK, Calls, AllowCompute
  <2>2. CallFresh(c) /\ allow[c] \in Calls /\ clock \in Nat
    BY <2>1 DEF TokenInv, TokenTypeOK
  <2>3. ms \in Nat
    BY <2>2
  <2>4. PICK g \in 0..allow[c].since : allow[c].old.ms = g % ClockWrap /\ 2 * (allow[c].since - g) <= ClockWrap
    BY <2>2 DEF CallFresh
  <2>5. new \in Nat
    <3>1. g <= clock /\ clock - g < ClockWrap
      BY <2>2, <2>4 DEF CallFresh, Calls
    <3>2. allow[c].old \in StoredWords /\ g \in Nat
      BY <2>2, <2>4 DEF Calls
    <3>3. Refilled(allow[c].old, clock % ClockWrap) \in Nat
      BY <2>2, <2>4, <3>1, <3>2, RefilledBound, Zenon
    <3> QED BY <3>3
  <2> HIDE DEF new, ms
  <2>6. TokenTypeOK'
    <3>1. new - TokenUnit \in Nat
      BY <2>1, <2>5
    <3>2. [allow[c] EXCEPT !.pc = "cas", !.tokens = new - TokenUnit, !.ms = ms, !.at = clock] \in Calls
      BY <2>2, <2>3, <3>1 DEF Calls
    <3> QED BY <1>1, <2>1, <3>2 DEF TokenInv, TokenTypeOK
  <2>7. CallFresh(c)'
    <3>1. /\ allow'[c].since = allow[c].since /\ allow'[c].old = allow[c].old /\ allow'[c].at = clock
          /\ allow'[c].ms = ms /\ allow'[c].tokens = new - TokenUnit
      BY <2>1, <2>2 DEF TokenInv, TokenTypeOK, Calls
    <3> QED BY <1>1, <2>2, <3>1 DEF CallFresh, new, ms, Refilled
  <2> QED BY <1>2, <1>4, <2>6, <2>7 DEF TokenInv
<1> QED BY <1>5, <1>6, <1>7

\* The swap meets the word it loaded, and no other word that looks the same: what it stores was
\* computed from the time of the last grant.
LEMMA TokenSwap ==
  ASSUME TokenInv, NEW c \in Callers, AllowSwap(c)
  PROVE  TokenInv'
<1> USE TokenBucketAssumption
<1> DEFINE call == allow[c]
<1>1. /\ call \in Calls /\ CallFresh(c) /\ call.pc = "cas" /\ bucket = call.old
      /\ bucket' = [tokens |-> call.tokens, ms |-> call.ms]
      /\ grants' = grants + 1 /\ granted' = call.at /\ clock' = clock
      /\ allow' = [allow EXCEPT ![c] = AllowStart]
  BY DEF TokenInv, TokenTypeOK, AllowSwap
<1>2. TokenTypeOK /\ WordCurrent
  BY DEF TokenInv
<1>3. /\ call.since <= call.at /\ call.at <= clock /\ 2 * (clock - call.since) < ClockWrap
      /\ call.ms = call.at % ClockWrap /\ call.tokens = Refilled(call.old, call.ms) - TokenUnit
  BY <1>1 DEF CallFresh
<1>4. PICK g \in 0..call.since : call.old.ms = g % ClockWrap /\ 2 * (call.since - g) <= ClockWrap
  BY <1>1 DEF CallFresh
<1>5. granted <= call.at
  <2>1. SUFFICES ASSUME granted > call.at PROVE FALSE
    BY <1>1, <1>2 DEF TokenTypeOK, Calls
  <2>2. g <= granted /\ granted - g < ClockWrap /\ g \in Nat /\ g < granted
    BY <1>1, <1>2, <1>3, <1>4, <2>1 DEF TokenTypeOK, WordCurrent, Calls
  <2>3. granted % ClockWrap = g % ClockWrap
    BY <1>1, <1>2, <1>4 DEF WordCurrent
  <2>4. granted = g
    BY <1>2, <2>2, <2>3, WrappedEqual DEF TokenTypeOK
  <2> QED BY <2>2, <2>4
<1>6. call.at - granted < ClockWrap
  BY <1>1, <1>2, <1>3, <1>5 DEF TokenTypeOK, WordCurrent, Calls
<1>7. call.tokens <= bucket.tokens + Rate * (call.at - granted) - TokenUnit
  BY <1>1, <1>2, <1>3, <1>5, <1>6, RefilledBound DEF TokenTypeOK, WordCurrent, Calls, StoredWords
<1>8. WordCurrent'
  <2>1. Rate * granted + Rate * (call.at - granted) = Rate * call.at
    BY <1>1, <1>2 DEF TokenTypeOK, Calls
  <2>2. (grants + 1) * TokenUnit = grants * TokenUnit + TokenUnit /\ grants * TokenUnit \in Nat
    BY <1>2 DEF TokenTypeOK
  <2>3. Rate * granted \in Nat /\ Rate * call.at \in Nat /\ Rate * (call.at - granted) \in Int
        /\ Capacity * TokenUnit \in Nat /\ (grants + 1) * TokenUnit \in Nat
    BY <1>1, <1>2 DEF TokenTypeOK, Calls
  <2>4. call.tokens + (grants + 1) * TokenUnit <= Capacity * TokenUnit + Rate * call.at
    BY <1>1, <1>2, <1>7, <2>1, <2>2, <2>3 DEF TokenTypeOK, WordCurrent, Calls, StoredWords
  <2>5. 2 * (clock - call.at) <= ClockWrap
    BY <1>1, <1>2, <1>3 DEF TokenTypeOK, Calls
  <2> QED BY <1>1, <1>3, <2>4, <2>5 DEF WordCurrent
<1>9. TokenTypeOK'
  BY <1>1, <1>2 DEF TokenTypeOK, Calls, StoredWords, AllowStart
<1>10. \A d \in Callers : allow'[d].pc # "start" => CallFresh(d)'
  <2> SUFFICES ASSUME NEW d \in Callers, allow'[d].pc # "start" PROVE CallFresh(d)'
    OBVIOUS
  <2>1. allow'[d] = allow[d]
    BY <1>1, <1>2 DEF TokenTypeOK, AllowStart
  <2>2. CallFresh(d)
    BY <2>1 DEF TokenInv
  <2> QED BY <1>1, <2>1, <2>2 DEF CallFresh, Refilled
<1> QED BY <1>8, <1>9, <1>10 DEF TokenInv

\* The lock-free limiter never lets through more than the capacity and what the rate has refilled,
\* for any number of callers, rate, capacity and width of the stored time (ratelimit.go 30-63).
THEOREM BucketBoundHolds == TokenSpec => []BucketBound
<1>1. TokenInv /\ [TokenNext]_tokenVars => TokenInv'
  <2> SUFFICES ASSUME TokenInv, [TokenNext]_tokenVars PROVE TokenInv'
    OBVIOUS
  <2>1. CASE UNCHANGED tokenVars
    BY <2>1 DEF TokenInv, TokenTypeOK, WordCurrent, CallFresh, Refilled, tokenVars
  <2> QED BY <2>1, TokenTick, TokenCompute, TokenSwap DEF TokenNext
<1>2. TokenInv => BucketBound
  <2> SUFFICES ASSUME TokenInv PROVE BucketBound
    OBVIOUS
  <2>1. Rate * granted <= Rate * clock /\ Rate * granted \in Nat /\ Rate * clock \in Nat
        /\ grants * TokenUnit \in Nat /\ Capacity * TokenUnit \in Nat
    BY TokenBucketAssumption DEF TokenInv, TokenTypeOK, WordCurrent
  <2> QED BY <2>1 DEF TokenInv, TokenTypeOK, WordCurrent, StoredWords, BucketBound
<1> QED BY TokenInvInit, <1>1, <1>2, PTL DEF TokenSpec

----------------------------------------------------------------------------
(* Moderation: what is left to do for a request *)

\* The goroutines and their servers.
LEMMA ActorFacts ==
  /\ \A k \in Actors : At(k) \in Servers
  /\ \A s \in Servers, g \in Handlers \cup {Sub} : <<s, g>> \in Actors /\ At(<<s, g>>) = s
  /\ \A k \in Actors, s \in Servers : k \in ActorsOf(s) <=> At(k) = s
  /\ \A s \in Servers : ActorsOf(s) \subseteq Actors
  BY DEF Actors, At, ActorsOf

\* A queue without its head.
LEMMA TailFacts ==
  ASSUME NEW S, NEW q \in Seq(S), q # <<>>
  PROVE  /\ Tail(q) \in Seq(S) /\ Len(Tail(q)) = Len(q) - 1 /\ Len(q) \in Nat /\ Len(q) > 0
         /\ Head(q) = q[1] /\ Head(q) \in S
         /\ \A i \in 1..(Len(q) - 1) : Tail(q)[i] = q[i + 1]
  OBVIOUS

\* What is in a queue is its head or in its tail.
LEMMA TailItems ==
  ASSUME NEW S, NEW q \in Seq(S), q # <<>>
  PROVE  /\ \A i \in DOMAIN Tail(q) : i + 1 \in DOMAIN q /\ Tail(q)[i] = q[i + 1]
         /\ \A i \in DOMAIN q : q[i] = Head(q) \/ (i - 1 \in DOMAIN Tail(q) /\ Tail(q)[i - 1] = q[i])
<1>1. DOMAIN q = 1..Len(q) /\ DOMAIN Tail(q) = 1..(Len(q) - 1)
  BY TailFacts
<1> QED BY <1>1, TailFacts

\* The rest of an ordered request is ordered.
LEMMA InOrderTail ==
  ASSUME NEW q \in Seq(ModSteps), q # <<>>, InOrder(q)
  PROVE  InOrder(Tail(q)) /\ Tail(q) \in Seq(ModSteps)
  BY TailFacts DEF InOrder

\* The steps of a control message are ordered and publish nothing.
LEMMA StepsOfFacts ==
  ASSUME NEW m \in CtrlMsgs
  PROVE  LET q == StepsOf(m)
         IN  /\ q \in Seq(ModSteps) /\ InOrder(q)
             /\ \A i \in DOMAIN q :
                  /\ q[i].op # "publish"
                  /\ q[i].op = "slow" => m.type = "slow" /\ q[i].v = m.v
                  /\ q[i].op \in {"close", "clear"} => m.type = "close"
             /\ m.type = "slow" => \E i \in DOMAIN q : q[i].op = "slow"
             /\ m.type = "kick" /\ m.ban => \E i \in DOMAIN q : q[i].op = "ban"
<1>1. CASE m.type = "kick" /\ m.ban
  <2>1. StepsOf(m) = <<[op |-> "ban"], [op |-> "kick"]>>
    BY <1>1 DEF StepsOf, ApplyKick
  <2> QED BY <1>1, <2>1 DEF ModSteps, InOrder
<1>2. CASE m.type = "kick" /\ ~m.ban
  <2>1. StepsOf(m) = <<[op |-> "kick"]>>
    BY <1>2 DEF StepsOf, ApplyKick
  <2> QED BY <1>2, <2>1 DEF ModSteps, InOrder
<1>3. CASE m.type = "close"
  <2>1. StepsOf(m) = <<[op |-> "close"], [op |-> "clear"]>>
    BY <1>3 DEF StepsOf, CloseRoom
  <2> QED BY <1>3, <2>1 DEF ModSteps, InOrder
<1>4. CASE m.type = "slow"
  <2>1. StepsOf(m) = <<[op |-> "slow", v |-> m.v]>>
    BY <1>4 DEF StepsOf
  <2>2. m.v \in Intervals
    BY <1>4 DEF CtrlMsgs
  <2> QED BY <1>4, <2>1, <2>2 DEF ModSteps, InOrder
<1>5. m.type \in {"kick", "close", "slow"}
  BY DEF CtrlMsgs
<1> QED BY <1>1, <1>2, <1>3, <1>4, <1>5

\* The same with the publication behind.
LEMMA RequestFacts ==
  ASSUME NEW m \in CtrlMsgs
  PROVE  LET q == StepsOf(m) \o <<[op |-> "publish", msg |-> m]>>
         IN  /\ q \in Seq(ModSteps) /\ InOrder(q)
             /\ \A i \in DOMAIN q :
                  /\ q[i].op = "publish" => q[i].msg = m
                  /\ q[i].op = "slow" => m.type = "slow" /\ q[i].v = m.v
                  /\ q[i].op \in {"close", "clear"} => m.type = "close"
             /\ \E i \in DOMAIN q : q[i].op = "publish" /\ q[i].msg = m
             /\ m.type = "slow" => \E i \in DOMAIN q : q[i].op = "slow"
             /\ m.type = "kick" /\ m.ban => \E i \in DOMAIN q : q[i].op = "ban"
<1> DEFINE u == StepsOf(m)
           p == [op |-> "publish", msg |-> m]
           q == u \o <<p>>
<1>1. u \in Seq(ModSteps) /\ p \in ModSteps
  BY StepsOfFacts DEF ModSteps
<1> HIDE DEF u, p
<1>2. /\ q \in Seq(ModSteps) /\ Len(q) = Len(u) + 1 /\ Len(u) \in Nat
      /\ \A i \in 1..Len(u) : q[i] = u[i]
      /\ q[Len(u) + 1] = p
      /\ DOMAIN q = 1..(Len(u) + 1) /\ DOMAIN u = 1..Len(u)
  BY <1>1
<1>3. p.op = "publish" /\ p.msg = m
  BY DEF p
<1> HIDE DEF q
<1>4. InOrder(q)
  BY <1>2, <1>3, StepsOfFacts DEF InOrder, u
<1>5. \A i \in DOMAIN q :
         /\ q[i].op = "publish" => q[i].msg = m
         /\ q[i].op = "slow" => m.type = "slow" /\ q[i].v = m.v
         /\ q[i].op \in {"close", "clear"} => m.type = "close"
  BY <1>2, <1>3, StepsOfFacts DEF u
<1>6. /\ m.type = "slow" => \E i \in DOMAIN q : q[i].op = "slow"
      /\ m.type = "kick" /\ m.ban => \E i \in DOMAIN q : q[i].op = "ban"
  BY <1>2, StepsOfFacts DEF u
<1> QED BY <1>2, <1>3, <1>4, <1>5, <1>6 DEF q, u, p

\* The invariants hold at the start.
LEMMA ModTypeInit == ModInit => ModTypeOK /\ BanGuards /\ AgreeInv
<1> SUFFICES ASSUME ModInit PROVE ModTypeOK /\ BanGuards /\ AgreeInv
  OBVIOUS
<1>1. /\ \A k \in Actors : todo[k] = <<>>
      /\ \A s \in Servers : readTo[s] = 0 /\ slow[s] = 0 /\ ~banned[s]
      /\ ctrlLog = <<>> /\ lastSlow = 0 /\ ~everBanned
  BY DEF ModInit
<1>2. ModTypeOK
  <2>1. <<>> \in Seq(ModSteps) /\ <<>> \in Seq(CtrlMsgs) /\ Len(<<>>) = 0
    OBVIOUS
  <2>2. \A k \in Actors : InOrder(todo[k]) /\ DOMAIN todo[k] = {}
    BY <1>1, <2>1 DEF InOrder
  <2>3. [at |-> NoServer, st |-> "none"] \in ConnStates
    BY DEF ConnStates
  <2>4. banned \in [Servers -> BOOLEAN] /\ crossed \in BOOLEAN /\ lifted \in BOOLEAN /\ everBanned \in BOOLEAN
    BY DEF ModInit
  <2>5. slow \in [Servers -> Intervals \cup {0}] /\ conn \in [Handshakes -> ConnStates]
    BY <2>3 DEF ModInit
  <2>6. todo \in [Actors -> Seq(ModSteps)] /\ ctrlLog \in Seq(CtrlMsgs) /\ readTo \in [Servers -> Nat]
    BY <2>1 DEF ModInit
  <2>7. losses \in Nat /\ \A s \in Servers : readTo[s] <= Len(ctrlLog)
    BY <1>1, <2>1 DEF ModInit
  <2> QED BY <2>2, <2>4, <2>5, <2>6, <2>7 DEF ModTypeOK
<1>3. \A s \in Servers : Pending(s) = {} /\ Unread(s) = {}
  <2>1. \A s \in Servers : Unread(s) = {}
    BY <1>1 DEF Unread
  <2>2. \A k \in Actors : Left(k) = {}
    BY <1>1 DEF Left
  <2> QED BY <2>1, <2>2, ActorFacts DEF Pending
<1>4. \A s \in Servers : Coming(s) = {}
  BY <1>3 DEF Coming
<1> QED BY <1>1, <1>2, <1>3, <1>4 DEF BanGuards, AgreeInv, CloseLifts, SettledOrComing

\* A step that takes the head of a queue keeps the queues well formed.
LEMMA QueueTail ==
  ASSUME ModTypeOK, NEW k \in Actors, todo[k] # <<>>, todo' = [todo EXCEPT ![k] = Tail(@)]
  PROVE  /\ todo' \in [Actors -> Seq(ModSteps)]
         /\ \A l \in Actors :
              /\ InOrder(todo'[l])
              /\ \A i \in DOMAIN todo'[l] : todo'[l][i].op = "publish" => todo'[l][i].msg.origin = At(l)
<1>1. todo[k] \in Seq(ModSteps) /\ InOrder(todo[k]) /\ todo'[k] = Tail(todo[k])
  BY DEF ModTypeOK
<1>2. Tail(todo[k]) \in Seq(ModSteps) /\ InOrder(Tail(todo[k]))
  BY <1>1, InOrderTail
<1>3. \A i \in DOMAIN Tail(todo[k]) : Tail(todo[k])[i].op = "publish" => Tail(todo[k])[i].msg.origin = At(k)
  BY <1>1, TailItems DEF ModTypeOK
<1> QED BY <1>1, <1>2, <1>3 DEF ModTypeOK

\* A handshake keeps its server.
LEMMA ConnType ==
  /\ \A s \in Servers : /\ [at |-> s, st |-> "checked"] \in ConnStates
                        /\ [at |-> s, st |-> "refused"] \in ConnStates
  /\ \A k \in ConnStates : /\ [k EXCEPT !.st = "in"] \in ConnStates
                           /\ [k EXCEPT !.st = "closed"] \in ConnStates
  BY DEF ConnStates

\* Every step keeps the types of the moderation.
LEMMA ModTypeStep == ModTypeOK /\ [ModNext]_modVars => ModTypeOK'
<1> SUFFICES ASSUME ModTypeOK, [ModNext]_modVars PROVE ModTypeOK'
  OBVIOUS
<1>1. ASSUME NEW h \in Handshakes, NEW s,
             HandshakeRegister(h) \/ (s \in Servers /\ (HandshakeCheck(h, s) \/ HandshakeBanned(h, s)))
      PROVE  ModTypeOK'
  <2>1. conn' \in [Handshakes -> ConnStates]
    <3>1. \A g \in Handshakes : conn[g] \in ConnStates
      BY DEF ModTypeOK
    <3>2. CASE HandshakeRegister(h)
      BY <3>1, <3>2, ConnType DEF HandshakeRegister
    <3>3. CASE s \in Servers /\ (HandshakeCheck(h, s) \/ HandshakeBanned(h, s))
      BY <3>1, <3>3, ConnType DEF ModTypeOK, HandshakeCheck, HandshakeBanned
    <3> QED BY <1>1, <3>2, <3>3
  <2>2. UNCHANGED <<banned, slow, todo, ctrlLog, readTo, losses, crossed, lifted, everBanned>>
    BY <1>1 DEF HandshakeRegister, HandshakeCheck, HandshakeBanned, ModHistory
  <2> QED BY <2>1, <2>2 DEF ModTypeOK
<1>2. ASSUME NEW s \in Servers, NEW g \in Handlers, AdminRequest(s, g) PROVE ModTypeOK'
  <2> DEFINE k == <<s, g>>
  <2>0. k \in Actors /\ At(k) = s
    BY ActorFacts
  <2>1. PICK m \in CtrlMsgs :
          /\ m.origin = s
          /\ todo' = [todo EXCEPT ![k] = StepsOf(m) \o <<[op |-> "publish", msg |-> m]>>]
          /\ lifted' = (lifted \/ m.type = "close") /\ everBanned' = (everBanned \/ (m.type = "kick" /\ m.ban))
    <3>1. \A m \in [type : {"kick"}, ban : BOOLEAN, origin : {s}] \cup [type : {"close"}, origin : {s}]
                    \cup [type : {"slow"}, v : Intervals, origin : {s}] : m \in CtrlMsgs /\ m.origin = s
      BY DEF CtrlMsgs
    <3> QED BY <1>2, <3>1 DEF AdminRequest
  <2> HIDE DEF k
  <2>2. /\ UNCHANGED <<banned, slow, conn, ctrlLog, readTo, losses>>
        /\ crossed' = (crossed \/ ~CtrlQuiet)
    BY <1>2 DEF AdminRequest
  <2>3. /\ todo' \in [Actors -> Seq(ModSteps)]
        /\ \A l \in Actors :
             /\ InOrder(todo'[l])
             /\ \A i \in DOMAIN todo'[l] : todo'[l][i].op = "publish" => todo'[l][i].msg.origin = At(l)
    <3> DEFINE q == StepsOf(m) \o <<[op |-> "publish", msg |-> m]>>
    <3>1. /\ q \in Seq(ModSteps) /\ InOrder(q)
          /\ \A i \in DOMAIN q : q[i].op = "publish" => q[i].msg = m
      BY RequestFacts
    <3> HIDE DEF q
    <3>2. todo' = [todo EXCEPT ![k] = q] /\ m.origin = s
      BY <2>1 DEF q
    <3> QED BY <2>0, <3>1, <3>2 DEF ModTypeOK
  <2> QED BY <2>1, <2>2, <2>3 DEF ModTypeOK
<1>3. ASSUME NEW k \in Actors,
             \/ Ban(k) \/ KickClient(k) \/ CloseRoomHere(k) \/ ClearBans(k) \/ SetInterval(k)
             \/ PublishCtrl(k) \/ PublishFails(k)
      PROVE  ModTypeOK'
  <2>1. todo[k] # <<>> /\ todo' = [todo EXCEPT ![k] = Tail(@)]
        /\ readTo' = readTo /\ crossed' = crossed /\ lifted' = lifted /\ everBanned' = everBanned
    BY <1>3 DEF Ban, KickClient, CloseRoomHere, ClearBans, SetInterval, PublishCtrl, PublishFails, Doing, Did, ModHistory
  <2>2. /\ todo' \in [Actors -> Seq(ModSteps)]
        /\ \A l \in Actors :
             /\ InOrder(todo'[l])
             /\ \A i \in DOMAIN todo'[l] : todo'[l][i].op = "publish" => todo'[l][i].msg.origin = At(l)
    BY <2>1, QueueTail
  <2>3. Head(todo[k]) \in ModSteps
    BY <2>1, TailFacts DEF ModTypeOK
  <2>4. banned' \in [Servers -> BOOLEAN]
    BY <1>3 DEF Ban, KickClient, CloseRoomHere, ClearBans, SetInterval, PublishCtrl, PublishFails, ModTypeOK
  <2>5. slow' \in [Servers -> Intervals \cup {0}]
    BY <1>3, <2>3 DEF Ban, KickClient, CloseRoomHere, ClearBans, SetInterval, PublishCtrl, PublishFails, ModTypeOK,
                      Doing, ModSteps
  <2>6. conn' \in [Handshakes -> ConnStates]
    <3>1. \A g \in Handshakes : conn[g] \in ConnStates
      BY DEF ModTypeOK
    <3>2. ShutOut(At(k)) => conn' \in [Handshakes -> ConnStates]
      BY <3>1, ConnType DEF ShutOut
    <3> QED BY <1>3, <3>2 DEF Ban, KickClient, CloseRoomHere, ClearBans, SetInterval, PublishCtrl, PublishFails, ModTypeOK
  <2>7. losses' \in Nat
    BY <1>3 DEF Ban, KickClient, CloseRoomHere, ClearBans, SetInterval, PublishCtrl, PublishFails, ModTypeOK
  <2>8. ctrlLog' \in Seq(CtrlMsgs) /\ \A t \in Servers : readTo[t] <= Len(ctrlLog')
    <3>1. CASE PublishCtrl(k)
      <4>1. Head(todo[k]).msg \in CtrlMsgs
        BY <2>3, <3>1 DEF PublishCtrl, Doing, ModSteps
      <4> QED BY <3>1, <4>1 DEF PublishCtrl, ModTypeOK
    <3>2. CASE ~PublishCtrl(k)
      BY <1>3, <3>2 DEF Ban, KickClient, CloseRoomHere, ClearBans, SetInterval, PublishFails, ModTypeOK
    <3> QED BY <3>1, <3>2
  <2> QED BY <2>1, <2>2, <2>4, <2>5, <2>6, <2>7, <2>8 DEF ModTypeOK
<1>4. ASSUME NEW k \in Actors, CloseRoomAbsent(k) PROVE ModTypeOK'
  <2> DEFINE q == todo[k]
  <2>1. /\ q \in Seq(ModSteps) /\ q # <<>> /\ InOrder(q) /\ q[1].op = "close"
        /\ todo' = [todo EXCEPT ![k] = Tail(Tail(q))]
        /\ UNCHANGED <<banned, slow, conn, ctrlLog, readTo, losses, crossed, lifted, everBanned>>
    BY <1>4, TailFacts DEF CloseRoomAbsent, Doing, ModTypeOK, ModHistory
  <2> HIDE DEF q
  <2>2. Len(q) > 1 /\ Tail(q) # <<>>
    BY <2>1, TailFacts DEF InOrder
  <2>3. Tail(Tail(q)) \in Seq(ModSteps) /\ InOrder(Tail(Tail(q)))
    BY <2>1, <2>2, InOrderTail
  <2>4. \A i \in DOMAIN Tail(Tail(q)) : \E j \in DOMAIN q : Tail(Tail(q))[i] = q[j]
    BY SMTT(30), <2>1, <2>2, InOrderTail, TailItems
  <2>5. \A i \in DOMAIN Tail(Tail(q)) : Tail(Tail(q))[i].op = "publish" => Tail(Tail(q))[i].msg.origin = At(k)
    BY <2>4 DEF q, ModTypeOK
  <2> QED BY <2>1, <2>3, <2>5 DEF ModTypeOK
<1>5. ASSUME NEW s \in Servers, HandleCtrl(s) PROVE ModTypeOK'
  <2> DEFINE m == ctrlLog[readTo[s] + 1]
             k == <<s, Sub>>
  <2>0. k \in Actors /\ At(k) = s
    BY ActorFacts
  <2>1. /\ readTo[s] < Len(ctrlLog) /\ readTo' = [readTo EXCEPT ![s] = @ + 1]
        /\ todo' = [todo EXCEPT ![k] = IF m.origin = s THEN <<>> ELSE StepsOf(m)]
        /\ UNCHANGED <<banned, slow, conn, ctrlLog, losses, crossed, lifted, everBanned>>
    BY <1>5 DEF HandleCtrl, ModHistory
  <2> HIDE DEF k
  <2>2. m \in CtrlMsgs
    BY <2>1 DEF ModTypeOK
  <2>3. /\ todo'[k] \in Seq(ModSteps) /\ InOrder(todo'[k])
        /\ \A i \in DOMAIN todo'[k] : todo'[k][i].op # "publish"
    <3>1. CASE m.origin = s
      BY <2>0, <2>1, <3>1 DEF ModTypeOK, InOrder
    <3>2. CASE m.origin # s
      BY <2>0, <2>1, <2>2, <3>2, StepsOfFacts DEF ModTypeOK
    <3> QED BY <3>1, <3>2
  <2>4. /\ \A l \in Actors \ {k} : todo'[l] = todo[l]
        /\ \A t \in Servers \ {s} : readTo'[t] = readTo[t]
    BY <2>1 DEF ModTypeOK
  <2>5. todo' \in [Actors -> Seq(ModSteps)] /\ readTo' \in [Servers -> Nat] /\ readTo'[s] <= Len(ctrlLog)
    <3>1. todo' = [todo EXCEPT ![k] = todo'[k]]
      BY <2>0, <2>1 DEF ModTypeOK
    <3>2. todo' \in [Actors -> Seq(ModSteps)]
      BY <2>3, <3>1 DEF ModTypeOK
    <3>3. readTo' \in [Servers -> Nat] /\ readTo'[s] <= Len(ctrlLog)
      BY <2>1 DEF ModTypeOK
    <3> QED BY <3>2, <3>3
  <2> QED BY <2>1, <2>3, <2>4, <2>5 DEF ModTypeOK
<1>6. ASSUME NEW s \in Servers, MissCtrl(s) \/ BanExpires(s) PROVE ModTypeOK'
  <2>1. CASE MissCtrl(s)
    <3>1. UNCHANGED <<banned, slow, conn, todo, ctrlLog, crossed, lifted, everBanned>>
      BY <2>1 DEF MissCtrl, ModHistory
    <3>2. readTo' \in [Servers -> Nat] /\ losses' \in Nat /\ \A t \in Servers : readTo'[t] <= Len(ctrlLog)
      BY <2>1 DEF MissCtrl, ModTypeOK
    <3> QED BY <3>1, <3>2 DEF ModTypeOK
  <2>2. CASE BanExpires(s)
    <3>1. UNCHANGED <<slow, conn, todo, ctrlLog, readTo, losses, crossed, everBanned>>
      BY <2>2 DEF BanExpires
    <3>2. banned' \in [Servers -> BOOLEAN] /\ lifted' \in BOOLEAN
      BY <2>2 DEF BanExpires, ModTypeOK
    <3> QED BY <3>1, <3>2 DEF ModTypeOK
  <2> QED BY <1>6, <2>1, <2>2
<1>7. CASE UNCHANGED modVars
  BY <1>7 DEF ModTypeOK, modVars
<1> QED BY <1>1, <1>2, <1>3, <1>4, <1>5, <1>6, <1>7 DEF ModNext

----------------------------------------------------------------------------
(* Moderation: the ban *)

\* A step of another goroutine, or of one whose next step is no kick, takes no kick away.
LEMMA KickKept ==
  ASSUME NEW t \in Servers, NEW k \in Actors, \A l \in Actors \ {k} : todo'[l] = todo[l],
         At(k) # t \/ ~Doing(k, "kick")
  PROVE  NoKickNext(t)' => NoKickNext(t)
<1> SUFFICES ASSUME NEW l \in ActorsOf(t), Doing(l, "kick") PROVE Doing(l, "kick")'
  BY DEF NoKickNext, ActorsOf, Actors
<1>1. l \in Actors /\ l # k
  BY ActorFacts DEF ActorsOf
<1> QED BY <1>1 DEF Doing

\* Every step keeps BanGuards.
LEMMA BanGuardsStep == ModTypeOK /\ BanGuards /\ [ModNext]_modVars => BanGuards'
<1> SUFFICES ASSUME ModTypeOK, BanGuards, [ModNext]_modVars, NEW t \in Servers, banned'[t]
             PROVE  /\ OnTheWay(t)' \subseteq overlapped'
                    /\ NoKickNext(t)' => InRoom(t)' \subseteq overlapped'
  BY DEF BanGuards
<1>1. ASSUME NEW h \in Handshakes, HandshakeRegister(h)
      PROVE  OnTheWay(t)' \subseteq overlapped' /\ (NoKickNext(t)' => InRoom(t)' \subseteq overlapped')
  <2>1. UNCHANGED <<banned, todo, overlapped>>
    BY <1>1 DEF HandshakeRegister
  <2>2. \A g \in Handshakes : \/ g = h /\ conn'[g] = [conn[h] EXCEPT !.st = "in"]
                             \/ conn'[g].st = "closed" \/ conn'[g] = conn[g]
    BY <1>1 DEF HandshakeRegister, ModTypeOK, ConnStates, InRoom
  <2>3. conn[h] \in ConnStates /\ conn[h].st = "checked"
    BY <1>1 DEF HandshakeRegister, ModTypeOK
  <2>4. OnTheWay(t)' \subseteq OnTheWay(t)
    BY <2>2, <2>3 DEF OnTheWay, ConnStates
  <2>5. InRoom(t)' \subseteq InRoom(t) \cup OnTheWay(t)
    <3> SUFFICES ASSUME NEW g \in Handshakes, conn'[g] = [at |-> t, st |-> "in"]
                 PROVE  g \in InRoom(t) \cup OnTheWay(t)
      BY DEF InRoom
    <3>1. CASE g = h /\ conn'[g] = [conn[h] EXCEPT !.st = "in"]
      <4>1. conn[h].at = t
        BY <2>3, <3>1 DEF ConnStates
      <4>2. conn[h] = [at |-> t, st |-> "checked"]
        BY <2>3, <4>1 DEF ConnStates
      <4> QED BY <3>1, <4>2 DEF OnTheWay
    <3>2. CASE conn'[g] = conn[g]
      BY <3>2 DEF InRoom
    <3> QED BY <2>2, <3>1, <3>2
  <2>6. NoKickNext(t)' <=> NoKickNext(t)
    BY <2>1 DEF NoKickNext, Doing
  <2> QED BY <2>1, <2>4, <2>5, <2>6 DEF BanGuards
<1>2. ASSUME NEW h \in Handshakes, NEW s \in Servers, HandshakeCheck(h, s) \/ HandshakeBanned(h, s)
      PROVE  OnTheWay(t)' \subseteq overlapped' /\ (NoKickNext(t)' => InRoom(t)' \subseteq overlapped')
  <2>1. UNCHANGED <<banned, todo, overlapped>> /\ \A g \in Handshakes \ {h} : conn'[g] = conn[g]
    BY <1>2 DEF HandshakeCheck, HandshakeBanned, ModTypeOK
  <2>2. \/ conn'[h] = [at |-> s, st |-> "refused"]
        \/ conn'[h] = [at |-> s, st |-> "checked"] /\ s # t
    BY <1>2 DEF HandshakeCheck, HandshakeBanned, ModTypeOK
  <2>3. OnTheWay(t)' \subseteq OnTheWay(t) /\ InRoom(t)' \subseteq InRoom(t)
    BY <2>1, <2>2 DEF OnTheWay, InRoom
  <2>4. NoKickNext(t)' <=> NoKickNext(t)
    BY <2>1 DEF NoKickNext, Doing
  <2> QED BY <2>1, <2>3, <2>4 DEF BanGuards
<1>3. ASSUME NEW s \in Servers, (\E g \in Handlers : AdminRequest(s, g)) \/ HandleCtrl(s)
      PROVE  OnTheWay(t)' \subseteq overlapped' /\ (NoKickNext(t)' => InRoom(t)' \subseteq overlapped')
  <2>1. PICK k \in Actors : /\ todo[k] = <<>> /\ \A l \in Actors \ {k} : todo'[l] = todo[l]
                           /\ UNCHANGED <<banned, conn, overlapped>>
    <3>1. CASE \E g \in Handlers : AdminRequest(s, g)
      <4>1. PICK g \in Handlers : AdminRequest(s, g)
        BY <3>1
      <4>2. <<s, g>> \in Actors
        BY ActorFacts
      <4> QED BY <4>1, <4>2 DEF AdminRequest, ModTypeOK
    <3>2. CASE HandleCtrl(s)
      <4>1. <<s, Sub>> \in Actors
        BY ActorFacts
      <4> QED BY <3>2, <4>1 DEF HandleCtrl, ModTypeOK
    <3> QED BY <1>3, <3>1, <3>2
  <2>2. NoKickNext(t)' => NoKickNext(t)
    BY <2>1, KickKept DEF Doing
  <2>3. OnTheWay(t)' = OnTheWay(t) /\ InRoom(t)' = InRoom(t)
    BY <2>1 DEF OnTheWay, InRoom
  <2> QED BY <2>1, <2>2, <2>3 DEF BanGuards
<1>4. ASSUME NEW k \in Actors, Ban(k)
      PROVE  OnTheWay(t)' \subseteq overlapped' /\ (NoKickNext(t)' => InRoom(t)' \subseteq overlapped')
  <2>1. /\ todo[k] # <<>> /\ Head(todo[k]).op = "ban" /\ todo' = [todo EXCEPT ![k] = Tail(@)]
        /\ banned' = [banned EXCEPT ![At(k)] = TRUE] /\ overlapped' = overlapped \cup OnTheWay(At(k)) /\ conn' = conn
    BY <1>4 DEF Ban, Doing, Did
  <2>2. OnTheWay(t)' = OnTheWay(t) /\ InRoom(t)' = InRoom(t)
    BY <2>1 DEF OnTheWay, InRoom
  <2>3. CASE At(k) = t
    <3>1. todo[k] \in Seq(ModSteps) /\ InOrder(todo[k])
      BY DEF ModTypeOK
    <3>2. Len(todo[k]) > 1 /\ todo[k][2].op = "kick"
      <4>1. 1 \in 1..Len(todo[k]) /\ todo[k][1].op = "ban"
        BY <2>1, <3>1, TailFacts
      <4>2. todo[k][1].op = "ban" => 1 < Len(todo[k]) /\ todo[k][1 + 1].op = "kick"
        BY <3>1, <4>1 DEF InOrder
      <4> QED BY <4>1, <4>2
    <3>3. Tail(todo[k]) \in Seq(ModSteps) /\ Tail(todo[k]) # <<>> /\ Head(Tail(todo[k])) = todo[k][2]
      <4> DEFINE r == Tail(todo[k])
      <4>1. r \in Seq(ModSteps) /\ Len(r) = Len(todo[k]) - 1 /\ r[1] = todo[k][1 + 1] /\ Len(todo[k]) \in Nat
        BY <2>1, <3>1, <3>2, TailFacts
      <4> HIDE DEF r
      <4>2. r # <<>>
        BY <3>2, <4>1
      <4>3. Head(r) = r[1]
        BY <4>1, <4>2, TailFacts
      <4> QED BY <4>1, <4>2, <4>3 DEF r
    <3>4. Doing(k, "kick")'
      BY <2>1, <3>2, <3>3 DEF Doing, ModTypeOK
    <3>5. ~NoKickNext(t)'
      BY <2>3, <3>4, ActorFacts DEF NoKickNext
    <3> QED BY <2>1, <2>2, <2>3, <3>5
  <2>4. CASE At(k) # t
    <3>1. banned[t] /\ \A l \in Actors \ {k} : todo'[l] = todo[l]
      BY <2>1, <2>4 DEF ModTypeOK
    <3>2. NoKickNext(t)' => NoKickNext(t)
      BY <2>4, <3>1, KickKept
    <3> QED BY <2>1, <2>2, <3>1, <3>2 DEF BanGuards
  <2> QED BY <2>3, <2>4
<1>5. ASSUME NEW k \in Actors, KickClient(k) \/ CloseRoomHere(k)
      PROVE  OnTheWay(t)' \subseteq overlapped' /\ (NoKickNext(t)' => InRoom(t)' \subseteq overlapped')
  <2>1. /\ todo' = [todo EXCEPT ![k] = Tail(@)] /\ UNCHANGED <<banned, overlapped>> /\ ShutOut(At(k))
    BY <1>5 DEF KickClient, CloseRoomHere, Did
  <2>2. \A g \in Handshakes : conn'[g].st = "closed" \/ (conn'[g] = conn[g] /\ g \notin InRoom(At(k)))
    BY <2>1 DEF ShutOut, InRoom, ModTypeOK, ConnStates
  <2>3. OnTheWay(t)' \subseteq OnTheWay(t) /\ InRoom(t)' \subseteq InRoom(t) /\ InRoom(At(k))' = {}
    BY <2>2 DEF OnTheWay, InRoom
  <2>4. At(k) # t /\ NoKickNext(t)' => NoKickNext(t)
    <3>1. \A l \in Actors \ {k} : todo'[l] = todo[l]
      BY <2>1 DEF ModTypeOK
    <3> QED BY <3>1, KickKept
  <2>5. At(k) = t => InRoom(t)' = {}
    BY <2>3
  <2> QED BY <2>1, <2>3, <2>4, <2>5 DEF BanGuards
<1>6. ASSUME NEW k \in Actors, CloseRoomAbsent(k)
      PROVE  OnTheWay(t)' \subseteq overlapped' /\ (NoKickNext(t)' => InRoom(t)' \subseteq overlapped')
  <2>1. InRoom(At(k)) = {} /\ UNCHANGED <<banned, conn, overlapped>> /\ \A l \in Actors \ {k} : todo'[l] = todo[l]
    BY <1>6 DEF CloseRoomAbsent, ModTypeOK
  <2>2. OnTheWay(t)' = OnTheWay(t) /\ InRoom(t)' = InRoom(t)
    BY <2>1 DEF OnTheWay, InRoom
  <2>3. At(k) # t /\ NoKickNext(t)' => NoKickNext(t)
    BY <2>1, KickKept
  <2>4. At(k) = t => InRoom(t) = {}
    BY <2>1
  <2> QED BY <2>1, <2>2, <2>3, <2>4 DEF BanGuards
<1>7. ASSUME NEW k \in Actors, ClearBans(k) \/ SetInterval(k) \/ PublishCtrl(k) \/ PublishFails(k)
      PROVE  OnTheWay(t)' \subseteq overlapped' /\ (NoKickNext(t)' => InRoom(t)' \subseteq overlapped')
  <2>1. /\ todo' = [todo EXCEPT ![k] = Tail(@)] /\ UNCHANGED <<conn, overlapped>> /\ ~Doing(k, "kick")
        /\ banned[t]
    BY <1>7 DEF ClearBans, SetInterval, PublishCtrl, PublishFails, Did, Doing, ModTypeOK
  <2>2. OnTheWay(t)' = OnTheWay(t) /\ InRoom(t)' = InRoom(t)
    BY <2>1 DEF OnTheWay, InRoom
  <2>3. NoKickNext(t)' => NoKickNext(t)
    <3>1. \A l \in Actors \ {k} : todo'[l] = todo[l]
      BY <2>1 DEF ModTypeOK
    <3> QED BY <2>1, <3>1, KickKept
  <2> QED BY <2>1, <2>2, <2>3 DEF BanGuards
<1>8. ASSUME NEW s \in Servers, MissCtrl(s) \/ BanExpires(s)
      PROVE  OnTheWay(t)' \subseteq overlapped' /\ (NoKickNext(t)' => InRoom(t)' \subseteq overlapped')
  <2>1. UNCHANGED <<conn, overlapped, todo>> /\ banned[t]
    BY <1>8 DEF MissCtrl, BanExpires, ModTypeOK
  <2> QED BY <2>1 DEF BanGuards, NoKickNext, Doing, OnTheWay, InRoom
<1>9. CASE UNCHANGED modVars
  BY <1>9 DEF modVars, BanGuards, NoKickNext, Doing, OnTheWay, InRoom
<1> QED BY <1>1, <1>2, <1>3, <1>4, <1>5, <1>6, <1>7, <1>8, <1>9 DEF ModNext

\* A banned user is not in the room unless by a handshake that had passed the check of the bans when
\* the ban was set, however the handshakes, kicks, room ends and control messages of concurrent
\* handlers and subscription loops interleave; for any number of servers, handlers, handshakes and
\* requests (api.go handleWebSocket and applyKick, bans.go).
THEOREM BannedStaysOutHolds == ModSpec => []BannedStaysOut
<1>1. BanGuards => BannedStaysOut
  BY DEF BanGuards, BannedStaysOut
<1> QED BY <1>1, ModTypeInit, ModTypeStep, BanGuardsStep, PTL DEF ModSpec

----------------------------------------------------------------------------
(* Moderation: agreement *)

\* What a server has to do is what its goroutines have to do.
LEMMA PendingOf ==
  ASSUME NEW k \in Actors, \A l \in Actors \ {k} : todo'[l] = todo[l]
  PROVE  /\ \A t \in Servers \ {At(k)} : Pending(t)' = Pending(t)
         /\ \E O : Pending(At(k)) = Left(k) \cup O /\ Pending(At(k))' = Left(k)' \cup O
<1>1. \A l \in Actors \ {k} : Left(l)' = Left(l)
  BY DEF Left
<1>2. \A t \in Servers \ {At(k)} : Pending(t)' = Pending(t)
  <2> SUFFICES ASSUME NEW t \in Servers \ {At(k)} PROVE Pending(t)' = Pending(t)
    OBVIOUS
  <2>1. \A l \in ActorsOf(t) : Left(l)' = Left(l)
    BY <1>1, ActorFacts
  <2> QED BY <2>1 DEF Pending
<1> DEFINE O == UNION {Left(l) : l \in ActorsOf(At(k)) \ {k}}
<1>3. k \in ActorsOf(At(k)) /\ At(k) \in Servers /\ \A l \in ActorsOf(At(k)) \ {k} : Left(l)' = Left(l)
  BY <1>1, ActorFacts
<1>4. Pending(At(k)) = Left(k) \cup O
  BY <1>3 DEF Pending
<1>5. Pending(At(k))' = Left(k)' \cup O
  <2>1. O' = O
    BY <1>3
  <2>2. Pending(At(k))' = Left(k)' \cup O'
    BY <1>3 DEF Pending
  <2> QED BY <2>1, <2>2
<1> QED BY <1>2, <1>4, <1>5

\* Nobody does anything.
LEMMA PendingSame ==
  ASSUME UNCHANGED todo
  PROVE  \A t \in Servers : Pending(t)' = Pending(t)
  BY DEF Pending, Left

\* Taking the head of a queue loses at most the head.
LEMMA PendingTail ==
  ASSUME ModTypeOK, NEW k \in Actors, todo[k] # <<>>, todo' = [todo EXCEPT ![k] = Tail(@)]
  PROVE  /\ Head(todo[k]) \in Pending(At(k)) /\ Head(todo[k]) \in ModSteps
         /\ \A t \in Servers : Pending(t)' \subseteq Pending(t)
         /\ \A t \in Servers \ {At(k)} : Pending(t)' = Pending(t)
         /\ Pending(At(k)) \subseteq Pending(At(k))' \cup {Head(todo[k])}
<1>1. todo[k] \in Seq(ModSteps) /\ todo'[k] = Tail(todo[k]) /\ \A l \in Actors \ {k} : todo'[l] = todo[l]
  BY DEF ModTypeOK
<1>2. Head(todo[k]) \in Left(k) /\ Head(todo[k]) \in ModSteps
  BY <1>1, TailFacts DEF Left
<1>3. Left(k)' \subseteq Left(k) /\ Left(k) \subseteq Left(k)' \cup {Head(todo[k])}
  <2> DEFINE q == todo[k]
             r == Tail(todo[k])
  <2>1. /\ \A i \in DOMAIN r : i + 1 \in DOMAIN q /\ r[i] = q[i + 1]
        /\ \A i \in DOMAIN q : q[i] = Head(q) \/ (i - 1 \in DOMAIN r /\ r[i - 1] = q[i])
    BY <1>1, TailItems
  <2>2. Left(k) = {q[i] : i \in DOMAIN q} /\ Left(k)' = {r[i] : i \in DOMAIN r}
    BY <1>1 DEF Left
  <2> HIDE DEF q, r
  <2>3. {r[i] : i \in DOMAIN r} \subseteq {q[i] : i \in DOMAIN q}
    BY <2>1
  <2>4. {q[i] : i \in DOMAIN q} \subseteq {r[i] : i \in DOMAIN r} \cup {Head(q)}
    BY <2>1
  <2> QED BY <2>2, <2>3, <2>4 DEF q
<1>4. \A t \in Servers \ {At(k)} : Pending(t)' = Pending(t)
  BY <1>1, PendingOf
<1>5. PICK O : Pending(At(k)) = Left(k) \cup O /\ Pending(At(k))' = Left(k)' \cup O
  BY <1>1, PendingOf
<1>6. Pending(At(k))' \subseteq Pending(At(k)) /\ Pending(At(k)) \subseteq Pending(At(k))' \cup {Head(todo[k])}
  BY <1>3, <1>5
<1>7. Head(todo[k]) \in Pending(At(k))
  BY <1>2, <1>5
<1> QED BY <1>2, <1>4, <1>6, <1>7

\* A server without the room drops the end of the room and of its bans, and nothing else.
LEMMA AbsentPending ==
  ASSUME ModTypeOK, NEW k \in Actors, CloseRoomAbsent(k)
  PROVE  /\ \A t \in Servers : Pending(t)' \subseteq Pending(t)
         /\ \A t \in Servers : \A e \in Pending(t) \ Pending(t)' : e.op \in {"close", "clear"}
<1> DEFINE q == todo[k]
<1>1. /\ q \in Seq(ModSteps) /\ q # <<>> /\ InOrder(q) /\ q[1].op = "close" /\ Head(q) = q[1]
      /\ todo'[k] = Tail(Tail(q)) /\ \A l \in Actors \ {k} : todo'[l] = todo[l]
  BY TailFacts DEF CloseRoomAbsent, Doing, ModTypeOK
<1> DEFINE r == Tail(q)
<1>2. 1 < Len(q) /\ q[1 + 1].op = "clear"
  <2>1. 1 \in 1..Len(q)
    BY <1>1
  <2> QED BY <1>1, <2>1 DEF InOrder
<1>3. r \in Seq(ModSteps) /\ Len(r) = Len(q) - 1 /\ Len(q) \in Nat /\ r[1] = q[1 + 1]
  BY <1>1, <1>2, TailFacts
<1>4. /\ \A i \in DOMAIN r : i + 1 \in DOMAIN q /\ r[i] = q[i + 1]
      /\ \A i \in DOMAIN q : q[i] = Head(q) \/ (i - 1 \in DOMAIN r /\ r[i - 1] = q[i])
  BY <1>1, TailItems
<1> HIDE DEF r
<1>5. r # <<>>
  BY <1>2, <1>3
<1>6. Head(r) = r[1]
  BY <1>3, <1>5, TailFacts
<1>7. /\ \A i \in DOMAIN Tail(r) : i + 1 \in DOMAIN r /\ Tail(r)[i] = r[i + 1]
      /\ \A i \in DOMAIN r : r[i] = Head(r) \/ (i - 1 \in DOMAIN Tail(r) /\ Tail(r)[i - 1] = r[i])
  BY <1>3, <1>5, TailItems
<1>8. todo'[k] = Tail(r)
  BY <1>1 DEF r
<1> HIDE DEF q
<1>9. Left(k) = {q[i] : i \in DOMAIN q} /\ Left(k)' = {Tail(r)[i] : i \in DOMAIN Tail(r)}
  BY <1>8 DEF Left, q
<1>10. Left(k)' \subseteq Left(k)
  BY <1>4, <1>7, <1>9
<1>11. \A e \in Left(k) \ Left(k)' : e.op \in {"close", "clear"}
  <2> SUFFICES ASSUME NEW i \in DOMAIN q, q[i] \notin Left(k)' PROVE q[i].op \in {"close", "clear"}
    BY <1>9
  <2>1. CASE q[i] = Head(q)
    BY <1>1, <2>1
  <2>2. CASE i - 1 \in DOMAIN r /\ r[i - 1] = q[i]
    <3>1. r[i - 1] = Head(r)
      BY <1>7, <1>9, <2>2
    <3> QED BY <1>2, <1>3, <1>6, <2>2, <3>1
  <2> QED BY <1>4, <2>1, <2>2
<1>12. \A t \in Servers \ {At(k)} : Pending(t)' = Pending(t)
  BY <1>1, PendingOf
<1>13. PICK O : Pending(At(k)) = Left(k) \cup O /\ Pending(At(k))' = Left(k)' \cup O
  BY <1>1, PendingOf
<1>14. /\ Pending(At(k))' \subseteq Pending(At(k))
       /\ \A e \in Pending(At(k)) \ Pending(At(k))' : e.op \in {"close", "clear"}
  BY <1>10, <1>11, <1>13
<1> QED BY <1>12, <1>14

\* A step that does not touch what a server lacks keeps it settled.
LEMMA SettledFrame ==
  ASSUME NEW t \in Servers, SettledOrComing(t), lastSlow' = lastSlow, everBanned' = everBanned,
         lifted => lifted', Coming(t)' = Coming(t), Pending(t)' \subseteq Pending(t),
         slow'[t] = slow[t] \/ slow'[t] = lastSlow,
         ~lifted' => (banned[t] => banned'[t]),
         \A e \in Pending(t) \ Pending(t)' :
            (e.op = "slow" => slow'[t] = lastSlow) /\ (e.op = "ban" => banned'[t])
  PROVE  SettledOrComing(t)'
<1>1. \A e \in Pending(t)' : e.op = "slow" => e.v = lastSlow'
  BY DEF SettledOrComing
<1>2. \A m \in Coming(t)' : m.type = "slow" => m.v = lastSlow'
  BY DEF SettledOrComing
<1>3. \/ slow'[t] = lastSlow'
      \/ \E e \in Pending(t)' : e.op = "slow"
      \/ \E m \in Coming(t)' : m.type = "slow"
  BY DEF SettledOrComing
<1>4. everBanned' /\ ~lifted' =>
        banned'[t] \/ (\E e \in Pending(t)' : e.op = "ban") \/ \E m \in Coming(t)' : m.type = "kick" /\ m.ban
  BY DEF SettledOrComing
<1> QED BY <1>1, <1>2, <1>3, <1>4 DEF SettledOrComing

\* Every step keeps CloseLifts.
LEMMA CloseLiftsStep == ModTypeOK /\ CloseLifts /\ [ModNext]_modVars => CloseLifts'
<1> SUFFICES ASSUME ModTypeOK, CloseLifts, [ModNext]_modVars PROVE CloseLifts'
  OBVIOUS
<1>1. ASSUME UNCHANGED <<todo, ctrlLog>>, lifted => lifted' PROVE CloseLifts'
  BY <1>1 DEF CloseLifts, Pending, Left
<1>2. ASSUME NEW h \in Handshakes, NEW s,
             HandshakeRegister(h) \/ HandshakeCheck(h, s) \/ HandshakeBanned(h, s)
      PROVE  CloseLifts'
  BY <1>1, <1>2 DEF HandshakeRegister, HandshakeCheck, HandshakeBanned, ModHistory
<1>3. ASSUME NEW s \in Servers, MissCtrl(s) \/ BanExpires(s) PROVE CloseLifts'
  BY <1>1, <1>3 DEF MissCtrl, BanExpires, ModHistory
<1>4. ASSUME UNCHANGED modVars PROVE CloseLifts'
  BY <1>1, <1>4 DEF modVars
<1>5. ASSUME NEW s \in Servers, NEW g \in Handlers, AdminRequest(s, g) PROVE CloseLifts'
  <2> DEFINE k == <<s, g>>
  <2>0. k \in Actors /\ At(k) = s
    BY ActorFacts
  <2>1. PICK m \in CtrlMsgs :
          /\ todo' = [todo EXCEPT ![k] = StepsOf(m) \o <<[op |-> "publish", msg |-> m]>>]
          /\ lifted' = (lifted \/ m.type = "close")
    <3>1. \A m \in [type : {"kick"}, ban : BOOLEAN, origin : {s}] \cup [type : {"close"}, origin : {s}]
                    \cup [type : {"slow"}, v : Intervals, origin : {s}] : m \in CtrlMsgs /\ m.origin = s
      BY DEF CtrlMsgs
    <3> QED BY <1>5, <3>1 DEF AdminRequest
  <2> DEFINE q == StepsOf(m) \o <<[op |-> "publish", msg |-> m]>>
  <2>2. \A i \in DOMAIN q : /\ q[i].op = "publish" => q[i].msg = m
                            /\ q[i].op \in {"close", "clear"} => m.type = "close"
    BY RequestFacts
  <2> HIDE DEF q, k
  <2>3. /\ todo'[k] = q /\ \A l \in Actors \ {k} : todo'[l] = todo[l]
        /\ ctrlLog' = ctrlLog
    BY <1>5, <2>0, <2>1 DEF AdminRequest, q, ModTypeOK
  <2>4. \A e \in Left(k)' : e.op \in {"close", "clear"} \/ (e.op = "publish" /\ e.msg.type = "close") => lifted'
    <3>1. Left(k)' = {q[i] : i \in DOMAIN q}
      BY <2>3 DEF Left
    <3>2. m.type = "close" => lifted'
      BY <2>1
    <3>3. ASSUME NEW i \in DOMAIN q, q[i].op \in {"close", "clear"} \/ (q[i].op = "publish" /\ q[i].msg.type = "close")
          PROVE  lifted'
      <4>1. m.type = "close"
        BY <2>2, <3>3
      <4> QED BY <3>2, <4>1
    <3> QED BY <3>1, <3>3
  <2>5. \A t \in Servers \ {s} : Pending(t)' = Pending(t)
    BY <2>0, <2>3, PendingOf
  <2>6. \A e \in Pending(s)' : e \in Left(k)' \/ e \in Pending(s)
    BY <2>0, <2>3, PendingOf
  <2> QED BY <2>1, <2>3, <2>4, <2>5, <2>6 DEF CloseLifts
<1>6. ASSUME NEW k \in Actors,
             \/ Ban(k) \/ KickClient(k) \/ CloseRoomHere(k) \/ ClearBans(k) \/ SetInterval(k)
             \/ PublishCtrl(k) \/ PublishFails(k)
      PROVE  CloseLifts'
  <2>1. todo[k] # <<>> /\ todo' = [todo EXCEPT ![k] = Tail(@)] /\ lifted' = lifted /\ At(k) \in Servers
    BY <1>6, ActorFacts DEF Ban, KickClient, CloseRoomHere, ClearBans, SetInterval, PublishCtrl, PublishFails,
                            Doing, Did, ModHistory
  <2>2. Head(todo[k]) \in Pending(At(k)) /\ \A t \in Servers : Pending(t)' \subseteq Pending(t)
    BY <2>1, PendingTail
  <2>3. \A j \in DOMAIN ctrlLog' : ctrlLog'[j].type = "close" => lifted
    <3>1. CASE PublishCtrl(k)
      <4>1. Head(todo[k]).op = "publish" /\ ctrlLog' = Append(ctrlLog, Head(todo[k]).msg)
        BY <3>1 DEF PublishCtrl, Doing
      <4>2. Head(todo[k]).msg.type = "close" => lifted
        BY <2>1, <2>2, <4>1 DEF CloseLifts
      <4>3. \A j \in DOMAIN ctrlLog' : ctrlLog'[j] = Head(todo[k]).msg \/ (j \in DOMAIN ctrlLog /\ ctrlLog'[j] = ctrlLog[j])
        BY <4>1 DEF ModTypeOK
      <4> QED BY <4>2, <4>3 DEF CloseLifts
    <3>2. CASE ~PublishCtrl(k)
      <4>1. ctrlLog' = ctrlLog
        BY <1>6, <3>2 DEF Ban, KickClient, CloseRoomHere, ClearBans, SetInterval, PublishFails
      <4> QED BY <4>1 DEF CloseLifts
    <3> QED BY <3>1, <3>2
  <2> QED BY <2>1, <2>2, <2>3 DEF CloseLifts
<1>7. ASSUME NEW k \in Actors, CloseRoomAbsent(k) PROVE CloseLifts'
  <2>1. lifted' = lifted /\ ctrlLog' = ctrlLog /\ \A t \in Servers : Pending(t)' \subseteq Pending(t)
    BY <1>7, AbsentPending DEF CloseRoomAbsent, ModHistory
  <2> QED BY <2>1 DEF CloseLifts
<1>8. ASSUME NEW s \in Servers, HandleCtrl(s) PROVE CloseLifts'
  <2> DEFINE m == ctrlLog[readTo[s] + 1]
             k == <<s, Sub>>
  <2>0. k \in Actors /\ At(k) = s
    BY ActorFacts
  <2>1. /\ m \in CtrlMsgs /\ readTo[s] + 1 \in DOMAIN ctrlLog /\ lifted' = lifted /\ ctrlLog' = ctrlLog
        /\ todo'[k] = <<>> \/ todo'[k] = StepsOf(m)
        /\ \A l \in Actors \ {k} : todo'[l] = todo[l]
    BY <1>8, <2>0 DEF HandleCtrl, ModHistory, ModTypeOK
  <2>2. m.type = "close" => lifted
    BY <2>1 DEF CloseLifts
  <2> HIDE DEF m, k
  <2>3. \A e \in Left(k)' : e.op # "publish" /\ (e.op \in {"close", "clear"} => m.type = "close")
    BY <2>1, StepsOfFacts DEF Left
  <2>4. \A t \in Servers \ {s} : Pending(t)' = Pending(t)
    BY <2>0, <2>1, PendingOf
  <2>5. \A e \in Pending(s)' : e \in Left(k)' \/ e \in Pending(s)
    BY <2>0, <2>1, PendingOf
  <2> QED BY <2>1, <2>2, <2>3, <2>4, <2>5 DEF CloseLifts
<1> QED BY <1>2, <1>3, <1>4, <1>5, <1>6, <1>7, <1>8 DEF ModNext

\* Only a publication changes what is coming to the others, and it changes only the way.
LEMMA ComingSame ==
  ASSUME NEW t \in Servers, ctrlLog' = ctrlLog, readTo'[t] = readTo[t],
         \A s \in Servers \ {t} : /\ Pending(s)' \subseteq Pending(s)
                                  /\ \A e \in Pending(s) \ Pending(s)' : e.op # "publish"
  PROVE  Coming(t)' = Coming(t)
<1>1. Unread(t)' = Unread(t)
  BY DEF Unread
<1>2. \A m : (\E s \in Servers \ {t} : \E e \in Pending(s)' : e.op = "publish" /\ e.msg = m)
         <=> (\E s \in Servers \ {t} : \E e \in Pending(s) : e.op = "publish" /\ e.msg = m)
  OBVIOUS
<1> QED BY <1>1, <1>2 DEF Coming

\* A published request is still on its way to the other servers.
LEMMA ComingPublished ==
  ASSUME ModTypeOK, NEW t \in Servers, NEW k \in Actors, PublishCtrl(k)
  PROVE  Coming(t)' = Coming(t)
<1> DEFINE s == At(k)
           p == Head(todo[k])
<1>1. /\ todo[k] # <<>> /\ p.op = "publish" /\ todo' = [todo EXCEPT ![k] = Tail(@)]
      /\ ctrlLog' = Append(ctrlLog, p.msg) /\ readTo' = readTo
  BY DEF PublishCtrl, Doing, Did
<1>0. s \in Servers
  BY ActorFacts
<1>2. /\ p \in Pending(s) /\ p \in ModSteps
      /\ Pending(s)' \subseteq Pending(s) /\ Pending(s) \subseteq Pending(s)' \cup {p}
      /\ \A u \in Servers \ {s} : Pending(u)' = Pending(u)
  BY <1>1, <1>0, PendingTail
<1>3. p.msg \in CtrlMsgs /\ p.msg.origin = s
  <2>1. 1 \in DOMAIN todo[k] /\ todo[k][1] = p
    BY <1>1, TailFacts DEF ModTypeOK
  <2> QED BY <1>1, <1>2, <2>1 DEF ModSteps, ModTypeOK
<1> HIDE DEF p, s
<1>4. Unread(t)' = Unread(t) \cup {p.msg}
  <2>1. /\ readTo'[t] = readTo[t] /\ readTo[t] \in Nat /\ readTo[t] <= Len(ctrlLog) /\ Len(ctrlLog) \in Nat
        /\ Len(ctrlLog') = Len(ctrlLog) + 1 /\ ctrlLog'[Len(ctrlLog) + 1] = p.msg
        /\ \A j \in 1..Len(ctrlLog) : ctrlLog'[j] = ctrlLog[j]
    BY <1>1 DEF ModTypeOK
  <2>2. (readTo[t] + 1)..(Len(ctrlLog) + 1) = ((readTo[t] + 1)..Len(ctrlLog)) \cup {Len(ctrlLog) + 1}
    BY <2>1
  <2>3. Unread(t)' = {ctrlLog'[j] : j \in (readTo[t] + 1)..(Len(ctrlLog) + 1)}
    BY <2>1 DEF Unread
  <2>4. \A j \in (readTo[t] + 1)..Len(ctrlLog) : ctrlLog'[j] = ctrlLog[j]
    BY <2>1
  <2> QED BY SMTT(30), <2>1, <2>2, <2>3, <2>4 DEF Unread
<1>5. CASE t = s
  <2>1. \A u \in Servers \ {t} : Pending(u)' = Pending(u)
    BY <1>2, <1>5
  <2> QED BY <1>3, <1>4, <1>5, <2>1 DEF Coming
<1>6. CASE t # s
  <2>1. p.msg \in Coming(t) /\ p.msg \in Coming(t)'
    BY <1>1, <1>2, <1>3, <1>4, <1>6, <1>0 DEF Coming
  <2>2. \A m \in CtrlMsgs \ {p.msg} : m \in Coming(t)' <=> m \in Coming(t)
    <3> SUFFICES ASSUME NEW m \in CtrlMsgs, m # p.msg PROVE m \in Coming(t)' <=> m \in Coming(t)
      OBVIOUS
    <3>1. m \in Unread(t)' <=> m \in Unread(t)
      BY <1>4
    <3>2. \A u \in Servers : (\E e \in Pending(u)' : e.op = "publish" /\ e.msg = m)
                            <=> (\E e \in Pending(u) : e.op = "publish" /\ e.msg = m)
      BY <1>2
    <3> QED BY <3>1, <3>2 DEF Coming
  <2>3. Coming(t) \subseteq CtrlMsgs /\ Coming(t)' \subseteq CtrlMsgs
    BY DEF Coming
  <2> QED BY <2>1, <2>2, <2>3
<1> QED BY <1>5, <1>6

\* A request made while none is on its way is the last setting.
LEMMA SettledRequest ==
  ASSUME ModTypeOK, CtrlQuiet, \A t \in Servers : SettledOrComing(t), NEW s \in Servers, NEW g \in Handlers,
         AdminRequest(s, g), NEW t \in Servers
  PROVE  SettledOrComing(t)'
<1> DEFINE k == <<s, g>>
<1>0. k \in Actors /\ At(k) = s
  BY ActorFacts
<1>1. PICK m \in CtrlMsgs :
        /\ m.origin = s
        /\ todo' = [todo EXCEPT ![k] = StepsOf(m) \o <<[op |-> "publish", msg |-> m]>>]
        /\ lifted' = (lifted \/ m.type = "close") /\ everBanned' = (everBanned \/ (m.type = "kick" /\ m.ban))
        /\ lastSlow' = IF m.type = "slow" THEN m.v ELSE lastSlow
  <2>1. \A m \in [type : {"kick"}, ban : BOOLEAN, origin : {s}] \cup [type : {"close"}, origin : {s}]
                  \cup [type : {"slow"}, v : Intervals, origin : {s}] : m \in CtrlMsgs /\ m.origin = s
    BY DEF CtrlMsgs
  <2> QED BY <2>1 DEF AdminRequest
<1> DEFINE q == StepsOf(m) \o <<[op |-> "publish", msg |-> m]>>
<1>2. /\ q \in Seq(ModSteps) /\ InOrder(q)
      /\ \A i \in DOMAIN q :
           /\ q[i].op = "publish" => q[i].msg = m
           /\ q[i].op = "slow" => m.type = "slow" /\ q[i].v = m.v
           /\ q[i].op \in {"close", "clear"} => m.type = "close"
      /\ \E i \in DOMAIN q : q[i].op = "publish" /\ q[i].msg = m
      /\ m.type = "slow" => \E i \in DOMAIN q : q[i].op = "slow"
      /\ m.type = "kick" /\ m.ban => \E i \in DOMAIN q : q[i].op = "ban"
  BY RequestFacts
<1>3. /\ todo'[k] = q /\ \A l \in Actors \ {k} : todo'[l] = todo[l]
      /\ UNCHANGED <<ctrlLog, readTo, slow, banned>>
      /\ \A l \in Actors : todo[l] = <<>>
      /\ \A u \in Servers : readTo[u] = Len(ctrlLog)
  BY <1>0, <1>1 DEF AdminRequest, ModTypeOK, CtrlQuiet
<1> HIDE DEF q, k
<1>4. /\ \A u \in Servers : Pending(u) = {} /\ Unread(u) = {} /\ Unread(u)' = {}
      /\ \A u \in Servers \ {s} : Pending(u)' = {}
      /\ Pending(s)' = {q[i] : i \in DOMAIN q}
  <2>1. \A u \in Servers : Unread(u) = {} /\ Unread(u)' = {}
    BY <1>3 DEF Unread, ModTypeOK
  <2>2. \A l \in Actors : Left(l) = {}
    BY <1>3 DEF Left
  <2>3. \A u \in Servers : Pending(u) = {}
    BY <2>2, ActorFacts DEF Pending
  <2>4. \A u \in Servers \ {s} : Pending(u)' = {}
    BY <1>0, <1>3, <2>3, PendingOf
  <2>5. Pending(s)' = {q[i] : i \in DOMAIN q}
    <3>1. Left(k)' = {q[i] : i \in DOMAIN q}
      BY <1>3 DEF Left
    <3>2. PICK O : Pending(s) = Left(k) \cup O /\ Pending(s)' = Left(k)' \cup O
      BY <1>0, <1>3, PendingOf
    <3> QED BY <2>3, <3>1, <3>2
  <2> QED BY <2>1, <2>3, <2>4, <2>5
<1>5. Coming(t) = {}
  BY <1>4 DEF Coming
<1>6. Coming(t)' = IF t = s THEN {} ELSE {m}
  BY <1>2, <1>4 DEF Coming
<1>7. slow[t] = lastSlow /\ (everBanned /\ ~lifted => banned[t])
  BY <1>4, <1>5 DEF SettledOrComing
<1>8. CASE t = s
  <2>1. \A e \in Pending(s)' : e.op = "slow" => m.type = "slow" /\ e.v = m.v
    BY <1>2, <1>4
  <2>2. m.type = "slow" => \E e \in Pending(s)' : e.op = "slow"
    BY <1>2, <1>4
  <2>3. m.type = "kick" /\ m.ban => \E e \in Pending(s)' : e.op = "ban"
    BY <1>2, <1>4
  <2> QED BY <1>1, <1>3, <1>6, <1>7, <1>8, <2>1, <2>2, <2>3 DEF SettledOrComing
<1>9. CASE t # s
  BY ZenonT(30), <1>1, <1>3, <1>4, <1>6, <1>7, <1>9 DEF SettledOrComing
<1> QED BY <1>8, <1>9

\* A server that reads a control message has what was on its way to it.
LEMMA SettledRead ==
  ASSUME ModTypeOK, \A t \in Servers : SettledOrComing(t), NEW s \in Servers, HandleCtrl(s), NEW t \in Servers
  PROVE  SettledOrComing(t)'
<1> DEFINE m == ctrlLog[readTo[s] + 1]
           k == <<s, Sub>>
<1>0. k \in Actors /\ At(k) = s
  BY ActorFacts
<1>1. /\ m \in CtrlMsgs /\ readTo[s] < Len(ctrlLog) /\ readTo' = [readTo EXCEPT ![s] = @ + 1]
      /\ todo[k] = <<>> /\ todo'[k] = IF m.origin = s THEN <<>> ELSE StepsOf(m)
      /\ \A l \in Actors \ {k} : todo'[l] = todo[l]
      /\ \A u \in Servers \ {s} : readTo'[u] = readTo[u]
      /\ UNCHANGED <<banned, slow, ctrlLog, lifted, lastSlow, everBanned>>
  BY <1>0 DEF HandleCtrl, ModHistory, ModTypeOK
<1> HIDE DEF k
<1>2. /\ Left(k) = {} /\ (m.origin = s => Left(k)' = {})
      /\ \A e \in Left(k)' : e.op # "publish" /\ (e.op = "slow" => m.type = "slow" /\ e.v = m.v)
      /\ m.origin # s /\ m.type = "slow" => \E e \in Left(k)' : e.op = "slow"
      /\ m.origin # s /\ m.type = "kick" /\ m.ban => \E e \in Left(k)' : e.op = "ban"
  BY <1>1, StepsOfFacts DEF Left
<1>3. /\ \A u \in Servers \ {s} : Pending(u)' = Pending(u)
      /\ Pending(s)' = Pending(s) \cup Left(k)'
  BY <1>0, <1>1, <1>2, PendingOf
<1>6. \A u \in Servers : \A x : (\E e \in Pending(u)' : e.op = "publish" /\ e.msg = x)
                             <=> (\E e \in Pending(u) : e.op = "publish" /\ e.msg = x)
  BY <1>2, <1>3
<1>4. CASE t # s
  <2>1. Unread(t)' = Unread(t)
    BY <1>1, <1>4 DEF Unread
  <2>2. Coming(t)' = Coming(t)
    BY <1>6, <2>1 DEF Coming
  <2>3. Pending(t)' = Pending(t)
    BY <1>3, <1>4
  <2> QED BY <1>1, <2>2, <2>3 DEF SettledOrComing
<1>5. CASE t = s
  <2>1. Unread(s) = Unread(s)' \cup {m}
    <3>1. readTo[s] \in Nat /\ Len(ctrlLog) \in Nat /\ readTo'[s] = readTo[s] + 1
      BY <1>1 DEF ModTypeOK
    <3>2. (readTo[s] + 1)..Len(ctrlLog) = ((readTo[s] + 1 + 1)..Len(ctrlLog)) \cup {readTo[s] + 1}
      BY <1>1, <3>1
    <3> QED BY <1>1, <3>1, <3>2 DEF Unread
  <2> HIDE DEF m
  <2>2. Coming(s) = IF m.origin = s THEN Coming(s)' ELSE Coming(s)' \cup {m}
    BY <1>1, <1>3, <2>1 DEF Coming
  <2>3. m.origin # s /\ m.type = "slow" => m.v = lastSlow
    BY <2>2 DEF SettledOrComing
  <2>4. \A e \in Pending(s)' : e.op = "slow" => e.v = lastSlow
    <3>1. \A e \in Left(k)' : e.op = "slow" => e.v = lastSlow
      BY <1>2, <2>3
    <3> QED BY <1>3, <3>1 DEF SettledOrComing
  <2>5. \A j \in Coming(s)' : j.type = "slow" => j.v = lastSlow
    BY <2>2 DEF SettledOrComing
  <2>6. slow[s] = lastSlow \/ (\E e \in Pending(s)' : e.op = "slow") \/ \E j \in Coming(s)' : j.type = "slow"
    BY <1>2, <1>3, <2>2 DEF SettledOrComing
  <2>7. everBanned /\ ~lifted =>
          banned[s] \/ (\E e \in Pending(s)' : e.op = "ban") \/ \E j \in Coming(s)' : j.type = "kick" /\ j.ban
    BY <1>2, <1>3, <2>2 DEF SettledOrComing
  <2> QED BY <1>1, <1>5, <2>4, <2>5, <2>6, <2>7 DEF SettledOrComing
<1> QED BY <1>4, <1>5

\* Every step keeps AgreeInv.
LEMMA AgreeStep == ModTypeOK /\ AgreeInv /\ [ModNext]_modVars => AgreeInv'
<1> SUFFICES ASSUME ModTypeOK, CloseLifts, losses = 0 /\ ~crossed => \A s \in Servers : SettledOrComing(s),
                    [ModNext]_modVars, losses' = 0, ~crossed', NEW t \in Servers
             PROVE  SettledOrComing(t)'
  BY CloseLiftsStep DEF AgreeInv
<1>1. ASSUME NEW s \in Servers, NEW g \in Handlers, AdminRequest(s, g) PROVE SettledOrComing(t)'
  <2>1. CtrlQuiet /\ ~crossed /\ losses = 0
    BY <1>1 DEF AdminRequest
  <2> QED BY <1>1, <2>1, SettledRequest
<1>2. ASSUME NEW s \in Servers, HandleCtrl(s) PROVE SettledOrComing(t)'
  <2>1. ~crossed /\ losses = 0
    BY <1>2 DEF HandleCtrl, ModHistory
  <2> QED BY <1>2, <2>1, SettledRead
<1>3. ASSUME NEW h \in Handshakes, NEW s, HandshakeRegister(h) \/ HandshakeCheck(h, s) \/ HandshakeBanned(h, s)
      PROVE  SettledOrComing(t)'
  <2>1. UNCHANGED <<banned, slow, todo, ctrlLog, readTo, losses, crossed, lifted, lastSlow, everBanned>>
    BY <1>3 DEF HandshakeRegister, HandshakeCheck, HandshakeBanned, ModHistory
  <2>2. \A u \in Servers : Pending(u)' = Pending(u)
    BY <2>1, PendingSame
  <2>3. Coming(t)' = Coming(t)
    BY <2>1, <2>2, ComingSame
  <2> QED BY <2>1, <2>2, <2>3, SettledFrame
<1>4. ASSUME NEW k \in Actors,
             Ban(k) \/ KickClient(k) \/ CloseRoomHere(k) \/ ClearBans(k) \/ SetInterval(k)
      PROVE  SettledOrComing(t)'
  <2>1. /\ todo[k] # <<>> /\ todo' = [todo EXCEPT ![k] = Tail(@)] /\ Head(todo[k]).op # "publish"
        /\ UNCHANGED <<ctrlLog, readTo, losses, crossed, lifted, lastSlow, everBanned>>
    BY <1>4 DEF Ban, KickClient, CloseRoomHere, ClearBans, SetInterval, Doing, Did, ModHistory
  <2>2. /\ Head(todo[k]) \in Pending(At(k))
        /\ \A u \in Servers : Pending(u)' \subseteq Pending(u)
        /\ \A u \in Servers \ {At(k)} : Pending(u)' = Pending(u)
        /\ Pending(At(k)) \subseteq Pending(At(k))' \cup {Head(todo[k])}
    BY <2>1, PendingTail
  <2>3. Coming(t)' = Coming(t)
    BY <2>1, <2>2, ComingSame
  <2>4. SettledOrComing(t) /\ SettledOrComing(At(k))
    BY <2>1, ActorFacts
  <2>5. slow'[t] = slow[t] \/ slow'[t] = lastSlow
    <3>1. CASE SetInterval(k)
      <4>1. Head(todo[k]).v = lastSlow /\ slow' = [slow EXCEPT ![At(k)] = Head(todo[k]).v]
        BY <2>2, <2>4, <3>1 DEF SetInterval, Doing, SettledOrComing
      <4> QED BY <4>1 DEF ModTypeOK
    <3>2. CASE ~SetInterval(k)
      BY <1>4, <3>2 DEF Ban, KickClient, CloseRoomHere, ClearBans
    <3> QED BY <3>1, <3>2
  <2>6. ~lifted' => (banned[t] => banned'[t])
    <3>1. CASE ClearBans(k)
      <4>1. lifted
        BY <2>2, <3>1, ActorFacts DEF ClearBans, Doing, CloseLifts
      <4> QED BY <2>1, <4>1
    <3>2. CASE ~ClearBans(k)
      BY <1>4, <3>2 DEF Ban, KickClient, CloseRoomHere, SetInterval, ModTypeOK
    <3> QED BY <3>1, <3>2
  <2>7. ASSUME NEW e \in Pending(t) \ Pending(t)'
        PROVE  (e.op = "slow" => slow'[t] = lastSlow) /\ (e.op = "ban" => banned'[t])
    <3>1. t = At(k) /\ e = Head(todo[k])
      BY <2>2, <2>7
    <3>2. ASSUME e.op = "slow" PROVE slow'[t] = lastSlow
      <4>1. e.v = lastSlow /\ slow' = [slow EXCEPT ![At(k)] = Head(todo[k]).v]
        BY <1>4, <2>2, <2>4, <3>1, <3>2
           DEF Ban, KickClient, CloseRoomHere, ClearBans, SetInterval, Doing, SettledOrComing
      <4> QED BY <3>1, <4>1 DEF ModTypeOK
    <3>3. ASSUME e.op = "ban" PROVE banned'[t]
      <4>1. banned' = [banned EXCEPT ![At(k)] = TRUE]
        BY <1>4, <3>1, <3>3 DEF Ban, KickClient, CloseRoomHere, ClearBans, SetInterval, Doing
      <4> QED BY <3>1, <4>1 DEF ModTypeOK
    <3> QED BY <3>2, <3>3
  <2> QED BY <2>1, <2>2, <2>3, <2>4, <2>5, <2>6, <2>7, SettledFrame
<1>5. ASSUME NEW k \in Actors, PublishCtrl(k) PROVE SettledOrComing(t)'
  <2>1. /\ todo[k] # <<>> /\ todo' = [todo EXCEPT ![k] = Tail(@)] /\ Head(todo[k]).op = "publish"
        /\ UNCHANGED <<banned, slow, losses, crossed, lifted, lastSlow, everBanned>>
    BY <1>5 DEF PublishCtrl, Doing, Did, ModHistory
  <2>2. /\ Pending(t)' \subseteq Pending(t)
        /\ \A e \in Pending(t) \ Pending(t)' : e.op = "publish"
    BY <2>1, PendingTail
  <2>3. Coming(t)' = Coming(t)
    BY <1>5, ComingPublished
  <2> QED BY <2>1, <2>2, <2>3, SettledFrame
<1>6. ASSUME NEW k \in Actors, CloseRoomAbsent(k) PROVE SettledOrComing(t)'
  <2>1. UNCHANGED <<banned, slow, ctrlLog, readTo, losses, crossed, lifted, lastSlow, everBanned>>
    BY <1>6 DEF CloseRoomAbsent, ModHistory
  <2>2. \A u \in Servers : /\ Pending(u)' \subseteq Pending(u)
                           /\ \A e \in Pending(u) \ Pending(u)' : e.op \in {"close", "clear"}
    BY <1>6, AbsentPending
  <2>3. Coming(t)' = Coming(t)
    BY <2>1, <2>2, ComingSame
  <2> QED BY <2>1, <2>2, <2>3, SettledFrame
<1>7. ASSUME NEW s \in Servers, BanExpires(s) PROVE SettledOrComing(t)'
  <2>1. UNCHANGED <<slow, todo, ctrlLog, readTo, losses, crossed, lastSlow, everBanned>> /\ lifted'
    BY <1>7 DEF BanExpires
  <2>2. \A u \in Servers : Pending(u)' = Pending(u)
    BY <2>1, PendingSame
  <2>3. Coming(t)' = Coming(t)
    BY <2>1, <2>2, ComingSame
  <2> QED BY <2>1, <2>2, <2>3, SettledFrame
<1>8. ASSUME (\E s \in Servers : MissCtrl(s)) \/ (\E k \in Actors : PublishFails(k)) PROVE FALSE
  BY <1>8 DEF MissCtrl, PublishFails, ModTypeOK
<1>9. CASE UNCHANGED modVars
  <2>1. UNCHANGED <<banned, slow, todo, ctrlLog, readTo, losses, crossed, lifted, lastSlow, everBanned>>
    BY <1>9 DEF modVars
  <2>2. \A u \in Servers : Pending(u)' = Pending(u)
    BY <2>1, PendingSame
  <2>3. Coming(t)' = Coming(t)
    BY <2>1, <2>2, ComingSame
  <2> QED BY <2>1, <2>2, <2>3, SettledFrame
<1> QED BY <1>1, <1>2, <1>3, <1>4, <1>5, <1>6, <1>7, <1>8, <1>9 DEF ModNext

\* Servers that have read every control message agree on slow mode and on a standing ban, for any
\* number of servers and requests, as long as no message was lost and no request crossed another
\* (publishCtrl and handleCtrl of redis.go, api.go).
THEOREM ServersAgreeHolds == ModSpec => []ServersAgree
<1>1. ModTypeOK /\ AgreeInv => ServersAgree
  <2> SUFFICES ASSUME ModTypeOK, AgreeInv, CtrlQuiet, losses = 0, ~crossed, NEW s \in Servers
               PROVE  slow[s] = lastSlow /\ (everBanned /\ ~lifted => banned[s])
    BY DEF ServersAgree
  <2>1. (\A k \in Actors : todo[k] = <<>>) /\ \A t \in Servers : readTo[t] = Len(ctrlLog)
    BY DEF CtrlQuiet
  <2>2. \A t \in Servers : Pending(t) = {}
    <3>1. \A k \in Actors : Left(k) = {}
      BY <2>1 DEF Left
    <3> QED BY <3>1, ActorFacts DEF Pending
  <2>3. Unread(s) = {}
    BY <2>1 DEF Unread, ModTypeOK
  <2>4. Coming(s) = {}
    BY <2>2, <2>3 DEF Coming
  <2>5. SettledOrComing(s)
    BY DEF AgreeInv
  <2> QED BY <2>2, <2>4, <2>5 DEF SettledOrComing
<1> QED BY <1>1, ModTypeInit, ModTypeStep, AgreeStep, PTL DEF ModSpec

----------------------------------------------------------------------------
(* The word list and its file *)

\* The word list, saves and savers are what they are named for.
LEMMA WordFacts ==
  /\ NoWords \in WordLists /\ NoSave \in Saves /\ NoSave.pc = "idle" /\ \A w \in Words : NoWords[w] = NoMode
  /\ \A w \in Words : [NoSave EXCEPT !.pc = "changed", !.word = w] \in Saves
  /\ [NoSave EXCEPT !.pc = "changed"] \in Saves
  /\ Admins \subseteq Savers /\ Boot \in Savers /\ Boot \notin Admins
  /\ Savers = Admins \cup {Boot} /\ Torn \notin WordLists
  BY WordBankAssumption DEF NoWords, WordLists, NoSave, Saves, Savers

\* The invariants hold at the start.
LEMMA WordInvInit == WordInit => WordTypeOK /\ SaveInv
<1> SUFFICES ASSUME WordInit PROVE WordTypeOK /\ SaveInv
  OBVIOUS
<1>1. \A a \in Savers : saver[a] = NoSave /\ saver[a].pc = "idle"
  BY WordFacts DEF WordInit
<1>2. Writing = {} /\ Uncopied = {} /\ Unsaved = {}
  BY <1>1, WordFacts DEF Writing, Uncopied, Unsaved
<1>3. WordTypeOK
  BY <1>1, WordFacts DEF WordInit, WordTypeOK
<1>4. CopiesCurrent /\ ListComplete /\ FileCurrent
  BY <1>1, <1>2, WordFacts DEF WordInit, CopiesCurrent, ListComplete, FileCurrent
<1> QED BY <1>3, <1>4 DEF SaveInv

\* A step of one caller's save: what it may do to the caller's record.
LEMMA SaverStep ==
  ASSUME WordTypeOK, NEW a \in Savers, NEW r \in Saves, saver' = [saver EXCEPT ![a] = r]
  PROVE  /\ saver' \in [Savers -> Saves] /\ saver'[a] = r
         /\ \A b \in Savers \ {a} : saver'[b] = saver[b]
  BY DEF WordTypeOK

\* Set and Remove under the lock keep the invariants.
LEMMA ChangeStep ==
  ASSUME WordTypeOK, SaveInv, NEW a \in Admins, NEW w \in Words, NEW m \in Modes \cup {NoMode},
         Change(a, w, m, "changed")
  PROVE  WordTypeOK' /\ SaveInv'
<1> DEFINE r == [NoSave EXCEPT !.pc = "changed", !.word = w]
<1>1. /\ Serving /\ saver[a].pc = "idle" /\ words' = [words EXCEPT ![w] = m] /\ book' = [book EXCEPT ![w] = m]
      /\ saver' = [saver EXCEPT ![a] = r] /\ inDoubt' = inDoubt \ {w}
      /\ UNCHANGED <<wordFile, booting, wordUp, overlap, cutShort>>
  BY DEF Change
<1>2. r \in Saves /\ r.pc = "changed" /\ r.word = w /\ a \in Savers
  BY WordFacts DEF NoSave
<1> HIDE DEF r
<1>3. /\ saver' \in [Savers -> Saves] /\ saver'[a] = r
      /\ \A b \in Savers \ {a} : saver'[b] = saver[b]
  BY <1>1, <1>2, SaverStep
<1>4. words' \in WordLists /\ book' \in WordLists
      /\ words'[w] = m /\ book'[w] = m
      /\ \A v \in Words \ {w} : words'[v] = words[v] /\ book'[v] = book[v]
  BY <1>1 DEF WordTypeOK, WordLists
<1>5. Serving' /\ wordUp
  BY <1>1, <1>3, WordFacts DEF Serving
<1>6. WordTypeOK'
  BY <1>1, <1>2, <1>3, <1>4, <1>5, WordFacts DEF WordTypeOK
<1>7. Writing' = Writing /\ a \notin Writing
  BY <1>1, <1>2, <1>3 DEF Writing
<1>8. Uncopied' = Uncopied \cup {w} /\ Unsaved' = Unsaved \cup {w}
  <2>1. \A b \in Admins : /\ saver'[b].pc = "changed" <=> b = a \/ saver[b].pc = "changed"
                          /\ saver'[b].pc # "idle" <=> b = a \/ saver[b].pc # "idle"
                          /\ b # a => saver'[b].word = saver[b].word
    BY <1>2, <1>3, WordFacts
  <2>2. saver'[a].word = w /\ saver[a].pc # "changed"
    BY <1>1, <1>2, <1>3
  <2>3. Uncopied' = Uncopied \cup {w}
    BY <1>1, <2>1, <2>2 DEF Uncopied
  <2>4. Unsaved' = Unsaved \cup {w}
    BY <1>1, <2>1, <2>2 DEF Unsaved
  <2> QED BY <2>3, <2>4
<1>9. ASSUME CopiesCurrent PROVE CopiesCurrent'
  <2>1. \A b \in Writing' : b \in Writing /\ b \in Savers \ {a} /\ saver'[b] = saver[b]
    BY <1>3, <1>7 DEF Writing
  <2>2. \A b \in Savers : saver'[b].pc = "opened" => saver[b].pc = "opened"
    BY <1>2, <1>3
  <2> QED BY <1>1, <1>4, <1>8, <1>9, <2>1, <2>2 DEF CopiesCurrent
<1>10. ASSUME ListComplete PROVE ListComplete'
  BY <1>1, <1>4, <1>10 DEF ListComplete, Serving
<1>11. ASSUME FileCurrent PROVE FileCurrent'
  <2>1. \A b \in Savers : saver'[b].pc = "opened" <=> saver[b].pc = "opened"
    BY <1>1, <1>2, <1>3
  <2> QED BY <1>1, <1>4, <1>5, <1>8, <1>11, <2>1 DEF FileCurrent
<1> QED BY <1>1, <1>6, <1>9, <1>10, <1>11 DEF SaveInv

\* The copy of the list keeps the invariants.
LEMMA SaveCopyStep ==
  ASSUME WordTypeOK, SaveInv, NEW a \in Savers, SaveCopy(a)
  PROVE  WordTypeOK' /\ SaveInv'
<1> DEFINE r == [saver[a] EXCEPT !.pc = "copied", !.copy = words]
<1>1. /\ saver[a].pc = "changed" /\ saver' = [saver EXCEPT ![a] = r] /\ overlap' = (overlap \/ Writing # {})
      /\ UNCHANGED <<words, wordFile, booting, wordUp, book, inDoubt, cutShort>>
  BY DEF SaveCopy, WordTypeOK, Saves
<1>2. saver[a] \in Saves
  BY DEF WordTypeOK
<1>3. r \in Saves /\ r.pc = "copied" /\ r.copy = words /\ r.word = saver[a].word
  BY <1>2 DEF WordTypeOK, Saves
<1> HIDE DEF r
<1>4. /\ saver' \in [Savers -> Saves] /\ saver'[a] = r
      /\ \A b \in Savers \ {a} : saver'[b] = saver[b]
  BY <1>1, <1>3, SaverStep
<1>5. Serving' <=> Serving
  BY <1>1, <1>3, <1>4, WordFacts DEF Serving
<1>6. overlap' \in BOOLEAN
  BY <1>1
<1>7. WordTypeOK'
  BY <1>1, <1>3, <1>4, <1>5, <1>6, WordFacts DEF WordTypeOK
<1>8. Unsaved' = Unsaved
  <2>1. \A b \in Admins : (saver'[b].pc # "idle" <=> saver[b].pc # "idle") /\ saver'[b].word = saver[b].word
    BY <1>1, <1>3, <1>4, WordFacts
  <2> QED BY <2>1 DEF Unsaved
<1>9. ASSUME CopiesCurrent, Writing = {} PROVE CopiesCurrent'
  <2>1. Writing' = {a}
    BY <1>3, <1>4, <1>9 DEF Writing
  <2>2. \A b \in Savers : saver'[b].pc = "opened" => saver[b].pc = "opened"
    BY <1>3, <1>4
  <2> QED BY <1>1, <1>3, <1>4, <1>9, <2>1, <2>2 DEF CopiesCurrent
<1>10. ASSUME ListComplete PROVE ListComplete'
  BY <1>1, <1>10 DEF ListComplete
<1>11. ASSUME FileCurrent PROVE FileCurrent'
  <2>1. \A b \in Savers : saver'[b].pc = "opened" <=> saver[b].pc = "opened"
    BY <1>1, <1>3, <1>4
  <2> QED BY <1>1, <1>5, <1>8, <1>11, <2>1 DEF FileCurrent
<1> QED BY <1>1, <1>7, <1>9, <1>10, <1>11 DEF SaveInv

\* The file is truncated only with its own save under way.
LEMMA SaveOpenStep ==
  ASSUME WordTypeOK, SaveInv, NEW a \in Savers, SaveOpen(a)
  PROVE  WordTypeOK' /\ SaveInv'
<1> DEFINE r == [saver[a] EXCEPT !.pc = "opened"]
<1>1. /\ saver[a].pc = "copied" /\ saver' = [saver EXCEPT ![a] = r] /\ wordFile' = Torn
      /\ UNCHANGED <<words, booting, wordUp, book, inDoubt, overlap, cutShort>>
  BY DEF SaveOpen, WordTypeOK, Saves
<1>2. saver[a] \in Saves
  BY DEF WordTypeOK
<1>3. r \in Saves /\ r.pc = "opened" /\ r.copy = saver[a].copy /\ r.word = saver[a].word
  BY <1>2 DEF WordTypeOK, Saves
<1> HIDE DEF r
<1>4. /\ saver' \in [Savers -> Saves] /\ saver'[a] = r
      /\ \A b \in Savers \ {a} : saver'[b] = saver[b]
  BY <1>1, <1>3, SaverStep
<1>5. (Serving' <=> Serving) /\ wordUp
  BY <1>1, <1>3, <1>4, WordFacts DEF Serving, WordTypeOK
<1>6. WordTypeOK'
  BY <1>1, <1>3, <1>4, <1>5, WordFacts DEF WordTypeOK
<1>7. Writing' = Writing /\ Uncopied' = Uncopied
  BY ZenonT(30), <1>1, <1>3, <1>4, WordFacts DEF Writing, Uncopied
<1>8. ASSUME CopiesCurrent PROVE CopiesCurrent'
  <2>1. \A b \in Writing' : b \in Writing /\ saver'[b].copy = saver[b].copy
    BY <1>3, <1>4, <1>7 DEF Writing
  <2> QED BY <1>1, <1>7, <1>8, <2>1 DEF CopiesCurrent
<1>9. ASSUME ListComplete PROVE ListComplete'
  BY <1>1, <1>9 DEF ListComplete
<1>10. FileCurrent'
  BY <1>1, <1>3, <1>4, <1>5 DEF FileCurrent
<1> QED BY <1>1, <1>6, <1>8, <1>9, <1>10 DEF SaveInv

\* The one writer finds the file as it truncated it, and what it writes lacks only changes whose own
\* save is still to come.
LEMMA SaveWriteStep ==
  ASSUME WordTypeOK, SaveInv, NEW a \in Savers, SaveWrite(a)
  PROVE  WordTypeOK' /\ SaveInv'
<1>1. /\ saver[a].pc = "opened" /\ saver' = [saver EXCEPT ![a] = NoSave]
      /\ wordFile' \in {saver[a].copy} \cup (IF wordFile = Torn THEN {} ELSE {Torn})
      /\ UNCHANGED <<words, booting, wordUp, book, inDoubt, overlap, cutShort>>
  BY DEF SaveWrite
<1>2. /\ saver[a] \in Saves /\ saver[a].copy \in WordLists
      /\ saver' \in [Savers -> Saves] /\ saver'[a] = NoSave
      /\ \A b \in Savers \ {a} : saver'[b] = saver[b]
  BY <1>1, SaverStep, WordFacts DEF WordTypeOK, Saves
<1>3. Serving => Serving'
  BY <1>1, <1>2, WordFacts DEF Serving
<1>4. WordTypeOK'
  BY <1>1, <1>2, <1>3, WordFacts DEF WordTypeOK
<1>5. a \in Writing
  BY <1>1 DEF Writing
<1>6. ASSUME CopiesCurrent, ListComplete, FileCurrent PROVE CopiesCurrent' /\ ListComplete' /\ FileCurrent'
  <2>1. wordFile' = saver[a].copy /\ wordFile' # Torn
    BY ZenonT(30), <1>1, <1>2, <1>6, WordFacts DEF CopiesCurrent
  <2>2. \A b \in Savers \ {a} : saver[b].pc \notin {"copied", "opened"}
    BY <1>5, <1>6 DEF CopiesCurrent, Writing
  <2>3. Writing' = {} /\ \A b \in Savers : saver'[b].pc # "opened"
    BY <1>2, <2>2, WordFacts DEF Writing
  <2>4. CopiesCurrent'
    BY <2>3 DEF CopiesCurrent
  <2>5. ListComplete'
    BY <1>1, <1>6 DEF ListComplete
  <2>6. Uncopied \subseteq Unsaved'
    BY <1>1, <1>2, WordFacts DEF Uncopied, Unsaved
  <2>7. \A w \in Words \ Unsaved' : wordFile'[w] = words'[w]
    BY <1>1, <1>5, <1>6, <2>1, <2>6 DEF CopiesCurrent
  <2>8. wordUp'
    BY <1>1 DEF WordTypeOK
  <2> QED BY <2>1, <2>4, <2>5, <2>7, <2>8 DEF FileCurrent
<1> QED BY <1>1, <1>4, <1>6 DEF SaveInv

\* A failed write is recorded as cut short.
LEMMA SaveFailsStep ==
  ASSUME WordTypeOK, NEW a \in Savers, SaveFails(a)
  PROVE  WordTypeOK' /\ SaveInv'
<1>1. /\ saver[a].pc # "idle" /\ saver' = [saver EXCEPT ![a] = NoSave] /\ cutShort' = TRUE
      /\ UNCHANGED <<words, wordFile, booting, wordUp, book, inDoubt, overlap>>
  BY DEF SaveFails
<1>2. /\ saver' \in [Savers -> Saves] /\ saver'[a] = NoSave
      /\ \A b \in Savers \ {a} : saver'[b] = saver[b]
  BY <1>1, SaverStep, WordFacts
<1>3. Serving => Serving'
  BY <1>1, <1>2, WordFacts DEF Serving
<1> QED BY <1>1, <1>2, <1>3, WordFacts DEF WordTypeOK, SaveInv

\* After a crash the file holds all but the unanswered changes.
LEMMA WordCrashStep ==
  ASSUME WordTypeOK, SaveInv, WordCrash
  PROVE  WordTypeOK' /\ SaveInv'
<1>1. /\ wordUp /\ words' = NoWords /\ booting' = {} /\ wordUp' = FALSE /\ saver' = [a \in Savers |-> NoSave]
      /\ inDoubt' = inDoubt \cup Unsaved
      /\ cutShort' = (cutShort \/ ~Serving \/ \E a \in Savers : saver[a].pc = "opened")
      /\ UNCHANGED <<wordFile, book, overlap>>
  BY DEF WordCrash, Unsaved
<1>2. \A a \in Savers : saver'[a].pc = "idle"
  BY <1>1, WordFacts
<1>3. cutShort' \in BOOLEAN
  BY <1>1
<1>4. WordTypeOK'
  BY <1>1, <1>2, <1>3, WordFacts DEF WordTypeOK
<1>5. ASSUME ~overlap', ~cutShort' PROVE CopiesCurrent' /\ ListComplete' /\ FileCurrent'
  <2>1. CopiesCurrent /\ ListComplete /\ FileCurrent /\ Serving /\ \A a \in Savers : saver[a].pc # "opened"
    BY <1>1, <1>5 DEF SaveInv
  <2>2. CopiesCurrent'
    BY <1>2 DEF CopiesCurrent, Writing
  <2>3. ListComplete'
    BY <1>1 DEF ListComplete
  <2>4. \A w \in Words \ inDoubt' : wordFile[w] = book[w]
    BY <1>1, <2>1 DEF ListComplete, FileCurrent, Serving
  <2>5. wordFile # Torn
    BY <2>1 DEF FileCurrent
  <2>6. ~Serving'
    BY <1>1 DEF Serving
  <2> QED BY <1>1, <2>2, <2>3, <2>4, <2>5, <2>6 DEF FileCurrent
<1> QED BY <1>4, <1>5 DEF SaveInv

\* What is read at start-up is all that is remembered.
LEMMA LoadFileStep ==
  ASSUME WordTypeOK, SaveInv, LoadFile
  PROVE  WordTypeOK' /\ SaveInv'
<1>1. /\ ~wordUp /\ wordUp' = TRUE
      /\ booting' = IF wordFile = Torn THEN {}
                    ELSE {[word |-> w, mode |-> wordFile[w]] : w \in {v \in Words : wordFile[v] # NoMode}}
      /\ UNCHANGED <<words, wordFile, saver, book, inDoubt, overlap, cutShort>>
  BY DEF LoadFile
<1>2. booting' \in SUBSET Entries
  BY <1>1 DEF WordTypeOK, WordLists, Entries
<1>3. words = NoWords /\ \A a \in Savers : saver[a].pc = "idle"
  BY <1>1 DEF WordTypeOK
<1>4. WordTypeOK'
  BY <1>1, <1>2, <1>3, WordFacts DEF WordTypeOK
<1>5. ASSUME CopiesCurrent, ListComplete, FileCurrent PROVE CopiesCurrent' /\ ListComplete' /\ FileCurrent'
  <2>1. wordFile # Torn /\ \A w \in Words \ inDoubt : wordFile[w] = book[w]
    BY <1>1, <1>5 DEF FileCurrent
  <2>2. booting' = {[word |-> w, mode |-> wordFile[w]] : w \in {v \in Words : wordFile[v] # NoMode}}
    BY <1>1, <2>1
  <2>3. \A e \in booting' : e.word \in Words /\ e.mode = wordFile[e.word] /\ wordFile[e.word] # NoMode
    BY <2>2
  <2>4. \A e, f \in booting' : e.word = f.word => e = f
    BY <1>2, <2>3 DEF Entries
  <2>5. ASSUME NEW w \in Words \ inDoubt
        PROVE  \/ words[w] = book[w] /\ \A e \in booting' : e.word # w
               \/ \E e \in booting' : e.word = w /\ e.mode = book[w]
    <3>1. CASE wordFile[w] = NoMode
      BY <1>3, <2>1, <2>3, <3>1, WordFacts
    <3>2. CASE wordFile[w] # NoMode
      <4>1. [word |-> w, mode |-> wordFile[w]] \in booting'
        BY <2>2, <3>2
      <4> QED BY <2>1, <4>1
    <3> QED BY <3>1, <3>2
  <2>6. ListComplete'
    BY <1>1, <2>4, <2>5 DEF ListComplete
  <2>7. CopiesCurrent'
    BY <1>1, <1>3 DEF CopiesCurrent, Writing
  <2>8. booting' = {} => \A w \in Words : wordFile[w] = words[w]
    BY <1>3, <2>2, WordFacts
  <2>9. FileCurrent'
    BY <1>1, <2>1, <2>8 DEF FileCurrent, Serving
  <2> QED BY <2>6, <2>7, <2>9
<1> QED BY <1>1, <1>4, <1>5 DEF SaveInv

\* An entry moves from what is to be loaded into the list.
LEMMA LoadEntryStep ==
  ASSUME WordTypeOK, SaveInv, NEW e \in booting, LoadEntry(e)
  PROVE  WordTypeOK' /\ SaveInv'
<1> DEFINE r == [NoSave EXCEPT !.pc = "changed"]
<1>1. /\ wordUp /\ saver[Boot].pc = "idle" /\ words' = [words EXCEPT ![e.word] = e.mode]
      /\ saver' = [saver EXCEPT ![Boot] = r] /\ booting' = booting \ {e}
      /\ UNCHANGED <<wordFile, wordUp, book, inDoubt, overlap, cutShort>>
  BY DEF LoadEntry
<1>2. r \in Saves /\ r.pc = "changed"
  BY WordFacts DEF NoSave
<1> HIDE DEF r
<1>3. /\ saver' \in [Savers -> Saves] /\ saver'[Boot] = r
      /\ \A b \in Savers \ {Boot} : saver'[b] = saver[b]
  BY <1>1, <1>2, SaverStep, WordFacts
<1>4. /\ e.word \in Words /\ e.mode \in Modes /\ words' \in WordLists /\ words'[e.word] = e.mode
      /\ \A v \in Words \ {e.word} : words'[v] = words[v]
  BY <1>1 DEF WordTypeOK, WordLists, Entries
<1>5. ~Serving /\ ~Serving' /\ \A a \in Admins : saver[a].pc = "idle"
  BY <1>1, <1>2, <1>3 DEF Serving, WordTypeOK
<1>6. WordTypeOK'
  BY <1>1, <1>3, <1>4, <1>5, WordFacts DEF WordTypeOK
<1>7. ASSUME CopiesCurrent, ListComplete, FileCurrent PROVE CopiesCurrent' /\ ListComplete' /\ FileCurrent'
  <2>1. \A a \in Savers : saver'[a].pc \notin {"copied", "opened"}
    BY <1>1, <1>2, <1>3, <1>5, WordFacts
  <2>2. CopiesCurrent'
    BY <2>1 DEF CopiesCurrent, Writing
  <2>3. ListComplete'
    BY <1>1, <1>4, <1>7 DEF ListComplete
  <2>4. FileCurrent'
    BY <1>1, <1>5 DEF FileCurrent
  <2> QED BY <2>2, <2>3, <2>4
<1> QED BY <1>1, <1>6, <1>7 DEF SaveInv

\* A server enforces every word as it was last set or removed, however often it crashed and loaded its
\* file, but for changes not answered before a crash, overlapping saves and writes cut short; for any
\* words, modes, admins and number of changes and crashes (wordbank.go Set, Remove, saveFile, loadFile).
THEOREM WordsSurviveHolds == WordSpec => []WordsSurvive
<1>1. WordTypeOK /\ SaveInv /\ [WordNext]_wordVars => (WordTypeOK /\ SaveInv)'
  <2> SUFFICES ASSUME WordTypeOK, SaveInv, [WordNext]_wordVars PROVE WordTypeOK' /\ SaveInv'
    OBVIOUS
  <2>1. ASSUME NEW a \in Admins, NEW w \in Words, RemoveWord(a, w) \/ \E m \in Modes : Set(a, w, m)
        PROVE  WordTypeOK' /\ SaveInv'
    BY <2>1, ChangeStep DEF RemoveWord, Set
  <2>2. CASE UNCHANGED wordVars
    BY <2>2 DEF wordVars, WordTypeOK, SaveInv, CopiesCurrent, ListComplete, FileCurrent, Serving, Writing,
                Uncopied, Unsaved
  <2> QED BY <2>1, <2>2, SaveCopyStep, SaveOpenStep, SaveWriteStep, SaveFailsStep, WordCrashStep, LoadFileStep,
             LoadEntryStep DEF WordNext
<1>2. SaveInv => WordsSurvive
  BY DEF SaveInv, ListComplete, WordsSurvive, Serving
<1> QED BY WordInvInit, <1>1, <1>2, PTL DEF WordSpec

-----------------------------------------------------------------------------
(* The way of a message through one comet *)

\* The steps of the upward path; every other step leaves it alone.
LEMMA PathSteps ==
  ASSUME UplinkTypes, FanoutOnce, [UplinkNext]_uplinkVars
  PROVE  \/ \E c \in Members : OnUplink(c)
         \/ \E w \in Workers : TakeUplink(w) \/ OnMessage(w) \/ OnMessageFails(w) \/ OnMessageTimeout(w)
                             \/ LocalBroadcast(w)
         \/ \E m \in late : OnMessageLate(m)
         \/ \E p \in Pushers : PushDone(p)
         \/ UNCHANGED <<sent, uplinkCh, worker, late, topic, lostUplink, raced, Unpublished>>
<1> DEFINE Same == UNCHANGED <<sent, uplinkCh, worker, late, topic, lostUplink, raced, Unpublished>>
<1>0. /\ fanout \in [Pushers -> [msg : UplinkMsgs \cup {NoMsg}, to : SUBSET Members, dropped : Nat,
                                 phase : {"idle", "begin", "send"}]]
      /\ Workers \subseteq Pushers /\ Job \in Pushers /\ Job \notin Workers
  BY CometUplinkAssumption DEF UplinkTypes, Pushers
<1>1. CASE CometStop
  BY <1>1 DEF CometStop, Unpublished
<1>2. CASE PushRoom
  <2>1. \A w \in Workers : fanout'[w] = fanout[w]
    BY <1>0, <1>2 DEF PushRoom
  <2> QED BY <1>2, <2>1 DEF PushRoom, Quiet, Unpublished
<1>3. ASSUME NEW c \in Members, ReadPumpLimited(c) \/ WritePump(c) \/ Leave(c) PROVE Same
  BY <1>3 DEF ReadPumpLimited, WritePump, Leave, Unpublished
<1>4. ASSUME NEW p \in Pushers, GetSubscribers(p) PROVE Same
  <2>1. \A w \in Workers : fanout'[w].phase = "idle" <=> fanout[w].phase = "idle"
    BY <1>0, <1>4 DEF GetSubscribers
  <2> QED BY <1>4, <2>1 DEF GetSubscribers, Quiet, Unpublished
<1>5. ASSUME NEW p \in Pushers, NEW c \in Members, PushSend(p, c) PROVE Same
  <2>1. \A w \in Workers : fanout'[w].phase = fanout[w].phase
    BY ZenonT(30), <1>0, <1>5 DEF PushSend
  <2> QED BY <1>5, <2>1 DEF PushSend, Quiet, Unpublished
<1>6. CASE UNCHANGED uplinkVars
  BY <1>6 DEF uplinkVars, Unpublished
<1> HIDE DEF Same
<1>7. \/ \E c \in Members : OnUplink(c)
      \/ \E w \in Workers : TakeUplink(w) \/ OnMessage(w) \/ OnMessageFails(w) \/ OnMessageTimeout(w)
                             \/ LocalBroadcast(w)
      \/ \E m \in late : OnMessageLate(m)
      \/ \E p \in Pushers : PushDone(p)
      \/ Same
  BY <1>1, <1>2, <1>3, <1>4, <1>5, <1>6 DEF UplinkNext, Same
<1> QED BY <1>7 DEF Same

\* A worker without a message has no fan-out, and one that answers to the logic service neither.
LEMMA IdleWorker ==
  ASSUME UplinkTypes, FanoutOnce, NEW w \in Workers
  PROVE  /\ worker[w] = NoMsg => fanout[w].phase = "idle"
         /\ ~standalone => fanout[w].phase = "idle"
         /\ w \in Pushers
  BY DEF FanoutOnce, Active, Pushers

\* Pairs that were under way together stay such pairs.
LEMMA RacedGrows ==
  ASSUME raced \subseteq raced'
  PROVE  /\ \A m, k : Precedes(m, k) => Precedes(m, k)'
         /\ \A m, k : Apart(m, k) => Apart(m, k)'
  BY DEF Precedes, Apart

\* Messages apart may be published in either order.
LEMMA ApartPrecedes ==
  \A m, k : Apart(m, k) => Apart(k, m) /\ Precedes(m, k)
<1>1. \A m, k : {m, k} = {k, m}
  OBVIOUS
<1> QED BY <1>1 DEF Apart, Precedes

\* Messages leave workers without being published, and some of their calls go on.
LEMMA ClearKeepsPath ==
  ASSUME UplinkPath, UNCHANGED <<uplinkCh, topic, raced>>,
         \A v \in Workers : worker'[v] \in {worker[v], NoMsg},
         Unpublished' \subseteq Unpublished,
         late' = late \/ \E w \in Unpublished : late' = late \cup {worker[w]} /\ worker'[w] = NoMsg
  PROVE  UplinkPath'
<1>1. (\A m, k : Precedes(m, k) => Precedes(m, k)') /\ (\A m, k : Apart(m, k) => Apart(m, k)')
  BY RacedGrows
<1>2. \A w \in Unpublished' : worker'[w] = worker[w]
  BY DEF Unpublished
<1>3. UnderWay' \subseteq UnderWay
  BY DEF UnderWay, Unpublished
<1>4. \A m \in ToSet(uplinkCh'), k \in UnderWay' \cup ToSet(topic') : k.from = m.from => k.n < m.n
  BY <1>3 DEF UplinkPath
<1>5. \A v, w \in Workers : v # w /\ worker'[v] # NoMsg /\ worker'[w] # NoMsg => Apart(worker'[v], worker'[w])
  BY DEF UplinkPath
<1>6. CASE late' = late
  BY <1>1, <1>2, <1>4, <1>5, <1>6 DEF UplinkPath
<1>7. ASSUME NEW w \in Unpublished, late' = late \cup {worker[w]}, worker'[w] = NoMsg PROVE UplinkPath'
  <2> DEFINE e == worker[w]
  <2>0. w \in Workers /\ e # NoMsg
    BY DEF Unpublished
  <2>1. \A k \in late : Apart(e, k) /\ Apart(k, e)
    BY <2>0, ApartPrecedes DEF UplinkPath
  <2>2. \A v \in Workers : worker'[v] # NoMsg => v # w /\ worker'[v] = worker[v] /\ worker[v] # NoMsg
    BY <1>7
  <2>3. \A v \in Workers : worker'[v] # NoMsg => Apart(worker'[v], e)
    BY <2>0, <2>2 DEF UplinkPath
  <2>4. \A t \in ToSet(topic) : Precedes(t, e)
    BY DEF UplinkPath
  <2> HIDE DEF e
  <2>5. late' = late \cup {e}
    BY <1>7 DEF e
  <2>6. \A v \in Workers, k \in late' : worker'[v] # NoMsg => Apart(worker'[v], k)
    BY <2>2, <2>3, <2>5 DEF UplinkPath
  <2>7. \A k, l \in late' : k # l => Apart(k, l)
    BY <2>1, <2>5 DEF UplinkPath
  <2>8. \A t \in ToSet(topic), k \in late' : Precedes(t, k)
    BY <2>4, <2>5 DEF UplinkPath
  <2> QED BY <1>1, <1>2, <1>4, <1>5, <2>6, <2>7, <2>8 DEF UplinkPath
<1> QED BY <1>6, <1>7

\* A message under way is published: by the worker that holds it, or by a call that went on without one.
LEMMA PublishKeepsPath ==
  ASSUME UplinkTypes, UplinkPath, NEW e \in UnderWay,
         \/ e \in late /\ late' = late \ {e} /\ worker' = worker /\ Unpublished' = Unpublished
         \/ late' = late /\ \E w \in Unpublished : e = worker[w] /\ Unpublished' \subseteq Unpublished \ {w},
         topic' = Append(topic, e), UNCHANGED <<uplinkCh, raced>>,
         \A v \in Workers : worker'[v] \in {worker[v], NoMsg}
  PROVE  UplinkPath'
<1>0. e \in UplinkMsgs /\ topic \in Seq(UplinkMsgs)
  BY DEF UnderWay, UplinkTypes
<1>1. /\ ToSet(topic') = ToSet(topic) \cup {e} /\ Len(topic) \in Nat
      /\ DOMAIN topic = 1..Len(topic) /\ DOMAIN topic' = 1..(Len(topic) + 1)
      /\ \A i \in DOMAIN topic : topic'[i] = topic[i] /\ topic[i] \in ToSet(topic)
      /\ topic'[Len(topic) + 1] = e
  BY <1>0, AppendPlaces
<1>2. (\A m, k : Precedes(m, k) => Precedes(m, k)') /\ (\A m, k : Apart(m, k) => Apart(m, k)')
  BY RacedGrows
<1>3. \A v \in Unpublished' : worker'[v] = worker[v] /\ v \in Unpublished /\ v \in Workers /\ worker[v] # NoMsg
  BY DEF Unpublished
<1>4. late' \subseteq late /\ UnderWay' \subseteq UnderWay
  BY DEF UnderWay
<1>5. \A m \in ToSet(uplinkCh), k \in UnderWay' \cup ToSet(topic') : k.from = m.from => k.n < m.n
  BY <1>1, <1>4 DEF UplinkPath
<1>6. /\ \A v \in Unpublished' : Precedes(e, worker[v])
      /\ \A k \in late' : Precedes(e, k)
      /\ \A t \in ToSet(topic) : Precedes(t, e)
  <2>1. CASE e \in late /\ late' = late \ {e} /\ worker' = worker /\ Unpublished' = Unpublished
    BY <1>3, <2>1, ApartPrecedes DEF UplinkPath
  <2>2. ASSUME late' = late, NEW w \in Unpublished, e = worker[w], Unpublished' \subseteq Unpublished \ {w}
        PROVE  /\ \A v \in Unpublished' : Precedes(e, worker[v])
               /\ \A k \in late' : Precedes(e, k)
               /\ \A t \in ToSet(topic) : Precedes(t, e)
    <3>1. w \in Workers /\ worker[w] # NoMsg
      BY DEF Unpublished
    <3>2. \A v \in Unpublished' : v # w /\ v \in Workers /\ worker[v] # NoMsg
      BY <1>3, <2>2
    <3>3. \A v \in Unpublished' : Apart(e, worker[v])
      BY <2>2, <3>1, <3>2 DEF UplinkPath
    <3>4. \A k \in late : Apart(e, k)
      BY <2>2, <3>1 DEF UplinkPath
    <3>5. \A t \in ToSet(topic) : Precedes(t, e)
      BY <2>2 DEF UplinkPath
    <3> QED BY <2>2, <3>3, <3>4, <3>5, ApartPrecedes
  <2> QED BY <2>1, <2>2
<1>7. \A t \in ToSet(topic'), v \in Unpublished' : Precedes(t, worker'[v])
  BY <1>1, <1>3, <1>6 DEF UplinkPath
<1>8. \A t \in ToSet(topic'), k \in late' : Precedes(t, k)
  BY <1>1, <1>4, <1>6 DEF UplinkPath
<1>9. ASSUME NEW i \in DOMAIN topic', NEW j \in DOMAIN topic', i < j PROVE Precedes(topic'[i], topic'[j])
  <2>1. i \in DOMAIN topic /\ topic'[i] = topic[i] /\ topic[i] \in ToSet(topic)
    BY <1>1, <1>9
  <2>2. CASE j \in DOMAIN topic
    BY <1>1, <1>9, <2>1, <2>2 DEF UplinkPath
  <2>3. CASE j = Len(topic) + 1
    BY <1>1, <1>6, <2>1, <2>3
  <2> QED BY <1>1, <2>2, <2>3
<1>10. /\ \A u, v \in Workers : u # v /\ worker'[u] # NoMsg /\ worker'[v] # NoMsg => Apart(worker'[u], worker'[v])
       /\ \A v \in Workers, k \in late' : worker'[v] # NoMsg => Apart(worker'[v], k)
       /\ \A k, l \in late' : k # l => Apart(k, l)
  BY <1>4 DEF UplinkPath
<1>11. \A i, j \in DOMAIN uplinkCh :
         i < j /\ uplinkCh[i].from = uplinkCh[j].from => uplinkCh[i].n < uplinkCh[j].n
  BY DEF UplinkPath
<1> QED BY <1>2, <1>5, <1>7, <1>8, <1>9, <1>10, <1>11 DEF UplinkPath

\* A worker takes the oldest message of the queue.
LEMMA TakeKeepsPath ==
  ASSUME UplinkTypes, UplinkPath, NEW w \in Workers, TakeUplink(w)
  PROVE  UplinkPath'
<1> DEFINE h == Head(uplinkCh)
<1>0. /\ uplinkCh \in Seq(UplinkMsgs) /\ uplinkCh # <<>> /\ uplinkCh' = Tail(uplinkCh)
      /\ worker \in [Workers -> UplinkMsgs \cup {NoMsg}] /\ worker' = [worker EXCEPT ![w] = h]
      /\ raced' = raced \cup {{k, h} : k \in {l \in UnderWay : l.from = h.from}}
      /\ UNCHANGED <<late, topic, fanout>>
  BY DEF TakeUplink, UplinkTypes
<1> HIDE DEF h
<1>1. /\ h \in UplinkMsgs /\ ToSet(uplinkCh) = ToSet(uplinkCh') \cup {h} /\ h = uplinkCh[1]
      /\ Len(uplinkCh) \in Nat \ {0} /\ DOMAIN uplinkCh = 1..Len(uplinkCh)
      /\ DOMAIN uplinkCh' = 1..(Len(uplinkCh) - 1)
      /\ \A i \in DOMAIN uplinkCh' : uplinkCh'[i] = uplinkCh[i + 1] /\ i + 1 \in DOMAIN uplinkCh
  BY <1>0, TailPlaces DEF h
<1>2. worker'[w] = h /\ \A v \in Workers \ {w} : worker'[v] = worker[v]
  BY <1>0
<1>3. (\A m, k : Precedes(m, k) => Precedes(m, k)') /\ (\A m, k : Apart(m, k) => Apart(m, k)')
  BY <1>0, RacedGrows
<1>4. \A m \in ToSet(uplinkCh') : h.from = m.from => h.n < m.n
  <2> SUFFICES ASSUME NEW i \in DOMAIN uplinkCh', h.from = uplinkCh'[i].from PROVE h.n < uplinkCh'[i].n
    BY DEF ToSet
  <2>1. 1 \in DOMAIN uplinkCh /\ 1 < i + 1
    BY <1>1
  <2> QED BY <1>1, <2>1 DEF UplinkPath
<1>5. ASSUME NEW i \in DOMAIN uplinkCh', NEW j \in DOMAIN uplinkCh', i < j, uplinkCh'[i].from = uplinkCh'[j].from
      PROVE  uplinkCh'[i].n < uplinkCh'[j].n
  <2>1. i + 1 \in DOMAIN uplinkCh /\ j + 1 \in DOMAIN uplinkCh /\ i + 1 < j + 1
    BY <1>1, <1>5
  <2> QED BY <1>1, <1>5, <2>1 DEF UplinkPath
<1>6. UnderWay' \subseteq UnderWay \cup {h}
  BY <1>0, <1>2 DEF UnderWay
<1>7. \A m \in ToSet(uplinkCh'), k \in UnderWay' \cup ToSet(topic') : k.from = m.from => k.n < m.n
  BY <1>0, <1>1, <1>4, <1>6 DEF UplinkPath
<1>8. \A k \in UnderWay : k # h /\ (k.from = h.from => {k, h} \in raced' /\ {h, k} \in raced')
  <2> SUFFICES ASSUME NEW k \in UnderWay PROVE k # h /\ (k.from = h.from => {k, h} \in raced' /\ {h, k} \in raced')
    OBVIOUS
  <2>1. k.from = h.from => k.n < h.n
    BY <1>1 DEF UplinkPath
  <2>2. k # h
    BY <1>1, <2>1 DEF UplinkMsgs
  <2>3. {h, k} = {k, h}
    OBVIOUS
  <2>4. k.from = h.from => {k, h} \in raced'
    BY <1>0
  <2> QED BY <2>2, <2>3, <2>4
<1>9. \A v \in Workers : v # w /\ worker'[v] # NoMsg => worker'[v] = worker[v] /\ worker[v] # NoMsg /\ worker[v] \in UnderWay
  BY <1>2 DEF UnderWay
<1>10. ASSUME NEW u \in Workers, NEW v \in Workers, u # v, worker'[u] # NoMsg, worker'[v] # NoMsg
       PROVE  worker'[u] # worker'[v] /\ (worker'[u].from = worker'[v].from => {worker'[u], worker'[v]} \in raced')
  <2>1. CASE u = w
    BY <1>2, <1>8, <1>9, <1>10, <2>1
  <2>2. CASE v = w
    BY <1>2, <1>8, <1>9, <1>10, <2>2
  <2>3. CASE u # w /\ v # w
    <3>1. Apart(worker[u], worker[v]) /\ worker'[u] = worker[u] /\ worker'[v] = worker[v]
      BY <1>9, <1>10, <2>3 DEF UplinkPath
    <3> QED BY <1>0, <3>1 DEF Apart
  <2> QED BY <2>1, <2>2, <2>3
<1>11. ASSUME NEW v \in Workers, NEW k \in late, worker'[v] # NoMsg
       PROVE  worker'[v] # k /\ (worker'[v].from = k.from => {worker'[v], k} \in raced')
  <2>0. k \in UnderWay
    BY DEF UnderWay
  <2>1. CASE v = w
    BY <1>2, <1>8, <2>0, <2>1
  <2>2. CASE v # w
    <3>1. Apart(worker[v], k) /\ worker'[v] = worker[v]
      BY <1>9, <1>11, <2>2 DEF UplinkPath
    <3> QED BY <1>0, <3>1 DEF Apart
  <2> QED BY <2>1, <2>2
<1>12. \A k, l \in late : k # l => Apart(k, l)'
  BY <1>3 DEF UplinkPath
<1>13. ASSUME NEW t \in ToSet(topic'), NEW v \in Unpublished', t.from = worker'[v].from
       PROVE  t.n < worker'[v].n \/ (t # worker'[v] /\ {t, worker'[v]} \in raced')
  <2>1. v \in Workers /\ t \in ToSet(topic)
    BY <1>0 DEF Unpublished
  <2>2. CASE v = w
    <3>1. \A m \in ToSet(uplinkCh), k \in UnderWay \cup ToSet(topic) : k.from = m.from => k.n < m.n
      BY DEF UplinkPath
    <3>2. worker'[v] = h /\ h \in ToSet(uplinkCh)
      BY <1>1, <1>2, <2>2
    <3> QED BY <1>13, <2>1, <3>1, <3>2
  <2>3. CASE v # w
    <3>1. v \in Unpublished /\ worker'[v] = worker[v]
      BY <1>0, <1>2, <2>1, <2>3 DEF Unpublished
    <3>2. Precedes(t, worker[v])
      BY <2>1, <3>1 DEF UplinkPath
    <3>3. t.from = worker[v].from
      BY <1>13, <3>1
    <3>4. t.n < worker[v].n \/ (t # worker[v] /\ {t, worker[v]} \in raced)
      BY <3>2, <3>3 DEF Precedes
    <3>5. raced \subseteq raced'
      BY <1>0
    <3> QED BY <3>1, <3>4, <3>5
  <2> QED BY <2>2, <2>3
<1>14. \A t \in ToSet(topic), k \in late : Precedes(t, k)'
  BY <1>3 DEF UplinkPath
<1>15. \A i, j \in DOMAIN topic : i < j => Precedes(topic[i], topic[j])'
  <2> SUFFICES ASSUME NEW i \in DOMAIN topic, NEW j \in DOMAIN topic, i < j PROVE Precedes(topic[i], topic[j])'
    OBVIOUS
  <2>1. Precedes(topic[i], topic[j])
    BY DEF UplinkPath
  <2> QED BY <1>0, <2>1 DEF Precedes
<1> QED BY <1>0, <1>5, <1>7, <1>10, <1>11, <1>12, <1>13, <1>14, <1>15 DEF UplinkPath, Precedes, Apart

\* What onUplink does with the message it has numbered.
LEMMA UplinkQueued ==
  ASSUME UplinkTypes, NEW c \in Members, OnUplink(c)
  PROVE  LET m == [from |-> c, n |-> sent[c] + 1]
         IN /\ m \in UplinkMsgs /\ sent' \in [Members -> Nat]
            /\ \A d \in Members : sent[d] <= sent'[d]
            /\ sent'[c] = m.n
            /\ UNCHANGED <<standalone, worker, late, topic, pushed, fanout, inRoom, sendCh, got, droppedOut, raced,
                           spread, missed>>
            /\ \/ uplinkCh' = Append(uplinkCh, m) /\ lostUplink' = lostUplink
               \/ uplinkCh' = uplinkCh /\ lostUplink' = lostUplink \cup {m}
<1>1. sent \in [Members -> Nat] /\ sent' = [sent EXCEPT ![c] = @ + 1]
  BY DEF UplinkTypes, OnUplink
<1>2. [from |-> c, n |-> sent[c] + 1] \in UplinkMsgs /\ [from |-> c, n |-> sent[c] + 1].n = sent[c] + 1
  BY <1>1 DEF UplinkMsgs
<1>3. /\ UNCHANGED <<standalone, worker, late, topic, pushed, fanout, inRoom, sendCh, got, droppedOut, raced,
                     spread, missed>>
      /\ \/ uplinkCh' = Append(uplinkCh, [from |-> c, n |-> sent[c] + 1]) /\ lostUplink' = lostUplink
         \/ uplinkCh' = uplinkCh /\ lostUplink' = lostUplink \cup {[from |-> c, n |-> sent[c] + 1]}
  BY DEF OnUplink
<1> QED BY <1>1, <1>2, <1>3

\* A new message has the highest number of its sender.
LEMMA UplinkKeepsPath ==
  ASSUME UplinkTypes, UplinkPath, DropsStayDropped, NEW c \in Members, OnUplink(c)
  PROVE  UplinkPath' /\ DropsStayDropped'
<1> DEFINE m == [from |-> c, n |-> sent[c] + 1]
<1>0. /\ m \in UplinkMsgs /\ m.from = c /\ m.n = sent[c] + 1 /\ sent[c] \in Nat /\ sent'[c] = m.n
      /\ sent \in [Members -> Nat] /\ sent' \in [Members -> Nat] /\ \A d \in Members : sent[d] <= sent'[d]
      /\ UNCHANGED <<worker, late, topic, fanout, raced>>
      /\ \/ uplinkCh' = Append(uplinkCh, m) /\ lostUplink' = lostUplink
         \/ uplinkCh' = uplinkCh /\ lostUplink' = lostUplink \cup {m}
  BY UplinkQueued DEF UplinkTypes
<1> HIDE DEF m
<1>1. \A k \in lostUplink \cup OnItsWay : k \in UplinkMsgs /\ k.from \in Members /\ k.n \in Nat /\ k.n <= sent[k.from]
  <2>1. ToSet(uplinkCh) \subseteq UplinkMsgs /\ ToSet(topic) \subseteq UplinkMsgs /\ lostUplink \subseteq UplinkMsgs
    BY DEF UplinkTypes, ToSet
  <2>2. OnItsWay \subseteq UplinkMsgs
    BY <2>1 DEF OnItsWay, UnderWay, UplinkTypes
  <2> QED BY <2>1, <2>2 DEF DropsStayDropped, UplinkMsgs
<1>2. \A k \in lostUplink \cup OnItsWay : k.from = m.from => k.n < m.n
  BY <1>0, <1>1
<1>3. m \notin lostUplink \cup OnItsWay
  BY <1>0, <1>2
<1>4. \A k \in lostUplink \cup OnItsWay : k.n <= sent'[k.from]
  <2> SUFFICES ASSUME NEW k \in lostUplink \cup OnItsWay PROVE k.n <= sent'[k.from]
    OBVIOUS
  <2>1. k.n \in Nat /\ sent[k.from] \in Nat /\ sent'[k.from] \in Nat /\ k.n <= sent[k.from] /\ sent[k.from] <= sent'[k.from]
    BY <1>0, <1>1
  <2> QED BY <2>1
<1>5. /\ Unpublished' = Unpublished /\ UnderWay' = UnderWay
      /\ \A k, l : (Precedes(k, l)' <=> Precedes(k, l)) /\ (Apart(k, l)' <=> Apart(k, l))
  BY <1>0 DEF Unpublished, UnderWay, Precedes, Apart
<1>6. CASE uplinkCh' = Append(uplinkCh, m) /\ lostUplink' = lostUplink
  <2>1. /\ ToSet(uplinkCh') = ToSet(uplinkCh) \cup {m} /\ Len(uplinkCh) \in Nat
        /\ DOMAIN uplinkCh = 1..Len(uplinkCh) /\ DOMAIN uplinkCh' = 1..(Len(uplinkCh) + 1)
        /\ \A i \in DOMAIN uplinkCh : uplinkCh'[i] = uplinkCh[i] /\ uplinkCh[i] \in ToSet(uplinkCh)
        /\ uplinkCh'[Len(uplinkCh) + 1] = m
    BY <1>0, <1>6, AppendPlaces DEF UplinkTypes
  <2>2. OnItsWay' = OnItsWay \cup {m}
    BY <1>0, <1>5, <2>1 DEF OnItsWay
  <2>3. DropsStayDropped'
    BY <1>0, <1>3, <1>4, <1>6, <2>2 DEF DropsStayDropped
  <2>4. ASSUME NEW i \in DOMAIN uplinkCh', NEW j \in DOMAIN uplinkCh', i < j, uplinkCh'[i].from = uplinkCh'[j].from
        PROVE  uplinkCh'[i].n < uplinkCh'[j].n
    <3>1. i \in DOMAIN uplinkCh /\ uplinkCh'[i] = uplinkCh[i] /\ uplinkCh[i] \in OnItsWay
      BY <2>1, <2>4 DEF OnItsWay
    <3>2. CASE j \in DOMAIN uplinkCh
      BY <2>1, <2>4, <3>1, <3>2 DEF UplinkPath
    <3>3. CASE j = Len(uplinkCh) + 1
      BY <1>2, <2>1, <2>4, <3>1, <3>3
    <3> QED BY <2>1, <3>2, <3>3
  <2>5. UnderWay \cup ToSet(topic) \subseteq OnItsWay
    BY DEF OnItsWay
  <2>6. \A l \in ToSet(uplinkCh'), k \in UnderWay \cup ToSet(topic) : k.from = l.from => k.n < l.n
    BY <1>2, <2>1, <2>5 DEF UplinkPath
  <2>7. UplinkPath'
    BY <1>0, <1>5, <2>4, <2>6 DEF UplinkPath
  <2> QED BY <2>3, <2>7
<1>7. CASE uplinkCh' = uplinkCh /\ lostUplink' = lostUplink \cup {m}
  <2>1. OnItsWay' = OnItsWay
    BY <1>0, <1>5, <1>7 DEF OnItsWay
  <2>2. DropsStayDropped'
    BY <1>0, <1>3, <1>4, <1>7, <2>1 DEF DropsStayDropped
  <2>3. UplinkPath'
    BY <1>0, <1>5, <1>7 DEF UplinkPath
  <2> QED BY <2>2, <2>3
<1> QED BY <1>0, <1>6, <1>7

\* Every step keeps each member's messages in order and the dropped ones out.
LEMMA UplinkPathStep ==
  ASSUME UplinkTypes, UplinkPath, DropsStayDropped, FanoutOnce, [UplinkNext]_uplinkVars
  PROVE  UplinkPath' /\ DropsStayDropped'
<1>0. /\ worker \in [Workers -> UplinkMsgs \cup {NoMsg}] /\ topic \in Seq(UplinkMsgs) /\ uplinkCh \in Seq(UplinkMsgs)
      /\ fanout \in [Pushers -> [msg : UplinkMsgs \cup {NoMsg}, to : SUBSET Members, dropped : Nat,
                                 phase : {"idle", "begin", "send"}]]
  BY DEF UplinkTypes
<1>00. ASSUME OnItsWay' \subseteq OnItsWay, UNCHANGED <<sent, lostUplink>> PROVE DropsStayDropped'
  BY <1>00 DEF DropsStayDropped
<1>1. ASSUME NEW c \in Members, OnUplink(c) PROVE UplinkPath' /\ DropsStayDropped'
  BY <1>1, UplinkKeepsPath
<1>2. ASSUME NEW w \in Workers, TakeUplink(w) PROVE UplinkPath' /\ DropsStayDropped'
  <2>1. /\ uplinkCh # <<>> /\ uplinkCh' = Tail(uplinkCh) /\ worker' = [worker EXCEPT ![w] = Head(uplinkCh)]
        /\ UNCHANGED <<sent, late, topic, lostUplink>>
    BY <1>2 DEF TakeUplink
  <2>2. ToSet(uplinkCh) = ToSet(uplinkCh') \cup {Head(uplinkCh)}
    BY <1>0, <2>1, TailToSet
  <2>3. \A v \in Workers : worker'[v] = worker[v] \/ worker'[v] = Head(uplinkCh)
    BY <1>0, <2>1
  <2>4. OnItsWay' \subseteq OnItsWay
    BY <2>1, <2>2, <2>3 DEF OnItsWay, UnderWay
  <2> QED BY <1>00, <1>2, <2>1, <2>4, TakeKeepsPath
<1>3. ASSUME NEW w \in Workers, OnMessage(w) \/ LocalBroadcast(w) PROVE UplinkPath' /\ DropsStayDropped'
  <2>1. /\ worker[w] # NoMsg /\ topic' = Append(topic, worker[w]) /\ fanout[w].phase = "idle"
        /\ UNCHANGED <<sent, uplinkCh, late, lostUplink, raced>>
    BY <1>3, IdleWorker DEF OnMessage, LocalBroadcast, Quiet
  <2>2. w \in Unpublished /\ worker[w] \in UplinkMsgs /\ worker[w] \in UnderWay
    BY <1>0, <2>1 DEF Unpublished, UnderWay
  <2>3. (\A v \in Workers : worker'[v] \in {worker[v], NoMsg}) /\ Unpublished' \subseteq Unpublished \ {w}
    <3>1. CASE OnMessage(w)
      <4>1. worker' = [worker EXCEPT ![w] = NoMsg] /\ fanout' = fanout
        BY <3>1 DEF OnMessage
      <4> QED BY <1>0, <4>1 DEF Unpublished
    <3>2. CASE LocalBroadcast(w)
      <4>1. worker' = worker /\ fanout' = [fanout EXCEPT ![w] = [Idle EXCEPT !.msg = worker[w], !.phase = "begin"]]
        BY <3>2 DEF LocalBroadcast
      <4>2. fanout'[w].phase = "begin" /\ \A v \in Workers \ {w} : fanout'[v] = fanout[v]
        BY <1>0, <4>1, IdleWorker DEF Idle
      <4> QED BY <4>1, <4>2 DEF Unpublished
    <3> QED BY <1>3, <3>1, <3>2
  <2>4. ToSet(topic') = ToSet(topic) \cup {worker[w]}
    BY <1>0, <2>1, <2>2, AppendToSet
  <2>5. OnItsWay' \subseteq OnItsWay
    BY <2>1, <2>3, <2>4 DEF OnItsWay, UnderWay
  <2> QED BY <1>00, <2>1, <2>2, <2>3, <2>5, PublishKeepsPath
<1>4. ASSUME UNCHANGED <<sent, uplinkCh, topic, lostUplink, raced>>,
             \A v \in Workers : worker'[v] \in {worker[v], NoMsg},
             Unpublished' \subseteq Unpublished,
             late' = late \/ \E w \in Unpublished : late' = late \cup {worker[w]} /\ worker'[w] = NoMsg
      PROVE  UplinkPath' /\ DropsStayDropped'
  <2>1. OnItsWay' \subseteq OnItsWay
    BY <1>4 DEF OnItsWay, UnderWay, Unpublished
  <2> QED BY <1>00, <1>4, <2>1, ClearKeepsPath
<1>5. ASSUME NEW w \in Workers, OnMessageFails(w) \/ OnMessageTimeout(w) PROVE UplinkPath' /\ DropsStayDropped'
  <2>1. /\ worker[w] # NoMsg /\ ~standalone /\ worker' = [worker EXCEPT ![w] = NoMsg]
        /\ late' = late \/ late' = late \cup {worker[w]}
        /\ UNCHANGED <<sent, uplinkCh, topic, lostUplink, raced, fanout>>
    BY <1>5 DEF OnMessageFails, OnMessageTimeout, Quiet
  <2>2. \A v \in Workers : worker'[v] \in {worker[v], NoMsg}
    BY <1>0, <2>1
  <2>3. Unpublished' \subseteq Unpublished
    BY <2>1, <2>2 DEF Unpublished
  <2>4. w \in Unpublished /\ worker'[w] = NoMsg
    BY <1>0, <2>1, IdleWorker DEF Unpublished
  <2> QED BY <1>4, <2>1, <2>2, <2>3, <2>4
<1>6. ASSUME NEW p \in Pushers, PushDone(p) PROVE UplinkPath' /\ DropsStayDropped'
  <2>1. /\ worker' = [w \in Workers |-> IF w = p THEN NoMsg ELSE worker[w]] /\ fanout' = [fanout EXCEPT ![p] = Idle]
        /\ UNCHANGED <<sent, uplinkCh, late, topic, lostUplink, raced>>
    BY <1>6 DEF PushDone, Quiet
  <2>2. \A v \in Workers : worker'[v] \in {worker[v], NoMsg} /\ (v = p => worker'[v] = NoMsg)
    BY <2>1
  <2>3. Unpublished' \subseteq Unpublished
    <3> SUFFICES ASSUME NEW v \in Unpublished' PROVE v \in Unpublished
      OBVIOUS
    <3>1. v \in Workers /\ v # p /\ worker'[v] = worker[v] /\ worker[v] # NoMsg /\ fanout'[v].phase = "idle"
      BY <2>2 DEF Unpublished
    <3>2. fanout'[v] = fanout[v]
      BY <1>0, <2>1, <3>1, IdleWorker
    <3> QED BY <3>1, <3>2 DEF Unpublished
  <2> QED BY <1>4, <2>1, <2>2, <2>3
<1>7. CASE UNCHANGED <<sent, uplinkCh, worker, late, topic, lostUplink, raced, Unpublished>>
  BY <1>4, <1>7
<1>8. ASSUME NEW m \in late, OnMessageLate(m) PROVE UplinkPath' /\ DropsStayDropped'
  <2>1. /\ topic' = Append(topic, m) /\ late' = late \ {m}
        /\ UNCHANGED <<sent, uplinkCh, worker, fanout, lostUplink, raced>>
    BY <1>8 DEF OnMessageLate, Quiet
  <2>2. m \in UplinkMsgs /\ m \in UnderWay /\ Unpublished' = Unpublished
    BY <2>1 DEF UplinkTypes, UnderWay, Unpublished
  <2>3. ToSet(topic') = ToSet(topic) \cup {m}
    BY <1>0, <2>1, <2>2, AppendToSet
  <2>4. OnItsWay' \subseteq OnItsWay
    BY <2>1, <2>2, <2>3 DEF OnItsWay, UnderWay
  <2>5. UplinkPath'
    BY <2>1, <2>2, PublishKeepsPath
  <2> QED BY <1>00, <2>1, <2>4, <2>5
<1> QED BY <1>1, <1>2, <1>3, <1>5, <1>6, <1>7, <1>8, PathSteps

\* A non-blocking send takes nothing away from any queue.
LEMMA TrySendGrows ==
  ASSUME UplinkTypes, NEW c \in Members, NEW m \in UplinkMsgs \cup {RateLimited}, TrySend(c, m)
  PROVE  /\ sendCh' \in [Members -> Seq(UplinkMsgs \cup {RateLimited})]
         /\ \A d \in Members : ToSet(sendCh[d]) \subseteq ToSet(sendCh'[d])
         /\ Len(sendCh[c]) < SendCap => m \in ToSet(sendCh'[c])
<1> DEFINE A == UplinkMsgs \cup {RateLimited}
<1>0. sendCh \in [Members -> Seq(A)] /\ sendCh[c] \in Seq(A) /\ m \in A
  BY DEF UplinkTypes
<1>1. sendCh' = IF Len(sendCh[c]) < SendCap THEN [sendCh EXCEPT ![c] = Append(sendCh[c], m)] ELSE sendCh
  BY DEF TrySend
<1> HIDE DEF A
<1>2. Append(sendCh[c], m) \in Seq(A) /\ ToSet(Append(sendCh[c], m)) = ToSet(sendCh[c]) \cup {m}
  BY <1>0, AppendToSet
<1>3. CASE Len(sendCh[c]) < SendCap
  <2>1. sendCh' = [sendCh EXCEPT ![c] = Append(sendCh[c], m)]
    BY <1>1, <1>3
  <2>2. sendCh' \in [Members -> Seq(A)] /\ sendCh'[c] = Append(sendCh[c], m) /\ \A d \in Members \ {c} : sendCh'[d] = sendCh[d]
    BY <1>0, <1>2, <2>1
  <2> QED BY <1>2, <2>2 DEF A
<1>4. CASE ~(Len(sendCh[c]) < SendCap)
  BY <1>0, <1>1, <1>4 DEF A
<1> QED BY <1>3, <1>4

\* The types of the comet's state.
LEMMA UplinkTypesStep ==
  ASSUME UplinkTypes, FanoutOnce, [UplinkNext]_uplinkVars
  PROVE  UplinkTypes'
<1> DEFINE F == [msg : UplinkMsgs \cup {NoMsg}, to : SUBSET Members, dropped : Nat, phase : {"idle", "begin", "send"}]
<1>0. /\ worker \in [Workers -> UplinkMsgs \cup {NoMsg}] /\ topic \in Seq(UplinkMsgs) /\ uplinkCh \in Seq(UplinkMsgs)
      /\ fanout \in [Pushers -> F] /\ pushed \in 0..Len(topic) /\ Len(topic) \in Nat /\ inRoom \subseteq Members
      /\ Workers \subseteq Pushers /\ Job \in Pushers
  BY DEF UplinkTypes, Pushers
<1>00. Idle \in F
  BY DEF Idle
<1>1. ASSUME NEW c \in Members, OnUplink(c) PROVE UplinkTypes'
  <2> DEFINE m == [from |-> c, n |-> sent[c] + 1]
  <2>1. /\ m \in UplinkMsgs /\ sent' \in [Members -> Nat]
        /\ UNCHANGED <<standalone, worker, late, topic, pushed, fanout, inRoom, sendCh, got, droppedOut, raced, spread, missed>>
        /\ \/ uplinkCh' = Append(uplinkCh, m) /\ lostUplink' = lostUplink
           \/ uplinkCh' = uplinkCh /\ lostUplink' = lostUplink \cup {m}
    BY <1>1, UplinkQueued
  <2> HIDE DEF m
  <2>2. Append(uplinkCh, m) \in Seq(UplinkMsgs)
    BY <1>0, <2>1
  <2>3. uplinkCh' \in Seq(UplinkMsgs) /\ lostUplink' \subseteq UplinkMsgs
    BY <1>0, <2>1, <2>2 DEF UplinkTypes
  <2> QED BY <2>1, <2>3 DEF UplinkTypes
<1>2. ASSUME NEW c \in Members, ReadPumpLimited(c) PROVE UplinkTypes'
  <2>1. sendCh' \in [Members -> Seq(UplinkMsgs \cup {RateLimited})]
    BY <1>2, TrySendGrows DEF ReadPumpLimited
  <2> QED BY <1>2, <2>1 DEF ReadPumpLimited, UplinkTypes
<1>3. ASSUME NEW c \in Members, WritePump(c) PROVE UplinkTypes'
  <2>1. sendCh[c] # <<>> /\ sendCh[c] \in Seq(UplinkMsgs \cup {RateLimited})
    BY <1>3 DEF WritePump, UplinkTypes
  <2>2. Tail(sendCh[c]) \in Seq(UplinkMsgs \cup {RateLimited})
    BY <2>1, TailToSet
  <2>3. sendCh' \in [Members -> Seq(UplinkMsgs \cup {RateLimited})]
    BY <1>3, <2>2 DEF WritePump, UplinkTypes
  <2>4. DOMAIN got' = Members
    BY <1>3 DEF WritePump, UplinkTypes
  <2> QED BY <1>3, <2>3, <2>4 DEF WritePump, UplinkTypes
<1>4. ASSUME NEW c \in Members, Leave(c) PROVE UplinkTypes'
  BY <1>4 DEF Leave, UplinkTypes
<1>5. ASSUME NEW w \in Workers, TakeUplink(w) PROVE UplinkTypes'
  <2>1. Head(uplinkCh) \in UplinkMsgs /\ uplinkCh' \in Seq(UplinkMsgs)
    BY <1>0, <1>5, TailToSet DEF TakeUplink
  <2>2. worker' \in [Workers -> UplinkMsgs \cup {NoMsg}]
    BY <1>0, <1>5, <2>1 DEF TakeUplink
  <2> QED BY <1>5, <2>1, <2>2 DEF TakeUplink, UplinkTypes
<1>6. ASSUME NEW w \in Workers, OnMessage(w) \/ LocalBroadcast(w) PROVE UplinkTypes'
  <2>1. worker[w] \in UplinkMsgs /\ topic' = Append(topic, worker[w])
    BY <1>0, <1>6 DEF OnMessage, LocalBroadcast
  <2>2. topic' \in Seq(UplinkMsgs) /\ Len(topic') = Len(topic) + 1
    BY <1>0, <2>1, AppendPlaces
  <2>3. pushed \in 0..Len(topic')
    BY <1>0, <2>2
  <2>4. fanout' \in [Pushers -> F] /\ worker' \in [Workers -> UplinkMsgs \cup {NoMsg}]
    <3>1. [Idle EXCEPT !.msg = worker[w], !.phase = "begin"] \in F
      BY <2>1 DEF Idle
    <3> HIDE DEF F
    <3>2. CASE OnMessage(w)
      BY <1>0, <3>2 DEF OnMessage
    <3>3. CASE LocalBroadcast(w)
      BY <1>0, <3>1, <3>3 DEF LocalBroadcast
    <3> QED BY <1>6, <3>2, <3>3
  <2>5. UNCHANGED <<standalone, sent, uplinkCh, late, pushed, inRoom, sendCh, got, missed, spread, lostUplink>>
    BY <1>6 DEF OnMessage, LocalBroadcast, Quiet
  <2> QED BY <2>2, <2>3, <2>4, <2>5 DEF UplinkTypes
<1>7. ASSUME NEW w \in Workers, OnMessageFails(w) \/ OnMessageTimeout(w) PROVE UplinkTypes'
  <2>1. worker' \in [Workers -> UplinkMsgs \cup {NoMsg}]
    BY <1>0, <1>7 DEF OnMessageFails, OnMessageTimeout
  <2>2. late' \subseteq UplinkMsgs
    BY <1>0, <1>7 DEF OnMessageFails, OnMessageTimeout, UplinkTypes
  <2> QED BY <1>7, <2>1, <2>2 DEF OnMessageFails, OnMessageTimeout, Quiet, UplinkTypes
<1>8. CASE PushRoom
  <2>1. pushed + 1 \in 1..Len(topic) /\ pushed' = pushed + 1 /\ pushed' \in 0..Len(topic)
    BY <1>0, <1>8 DEF PushRoom
  <2>2. topic[pushed + 1] \in UplinkMsgs
    BY <1>0, <2>1
  <2>3. [Idle EXCEPT !.msg = topic[pushed + 1], !.phase = "begin"] \in F
    BY <2>2 DEF Idle
  <2>4. fanout' \in [Pushers -> F]
    BY <1>0, <1>8, <2>3 DEF PushRoom
  <2> QED BY <1>8, <2>1, <2>4 DEF PushRoom, Quiet, UplinkTypes
<1>9. ASSUME NEW p \in Pushers, GetSubscribers(p) PROVE UplinkTypes'
  <2>1. fanout' \in [Pushers -> F]
    BY ZenonT(30), <1>0, <1>9 DEF GetSubscribers
  <2> QED BY <1>9, <2>1 DEF GetSubscribers, Quiet, UplinkTypes
<1>10. ASSUME NEW p \in Pushers, NEW c \in Members, PushSend(p, c) PROVE UplinkTypes'
  <2>1. p \in Active /\ fanout[p].msg \in UplinkMsgs
    <3>1. p \in Active
      BY <1>10 DEF PushSend, Active
    <3>2. fanout[p].msg \in ToSet(topic)
      BY <3>1 DEF FanoutOnce
    <3> QED BY <1>0, <3>1, <3>2 DEF ToSet
  <2>2. sendCh' \in [Members -> Seq(UplinkMsgs \cup {RateLimited})]
    BY <1>10, <2>1, TrySendGrows DEF PushSend
  <2>3. fanout' \in [Pushers -> F]
    <3>1. fanout[p] \in F /\ fanout[p].to \ {c} \in SUBSET Members /\ fanout[p].dropped + 1 \in Nat
      BY <1>0
    <3>2. CASE fanout' = [fanout EXCEPT ![p].to = @ \ {c}]
      BY <1>0, <3>1, <3>2
    <3>3. CASE fanout' = [fanout EXCEPT ![p].to = @ \ {c}, ![p].dropped = @ + 1]
      BY <1>0, <3>1, <3>3
    <3> QED BY <1>10, <3>2, <3>3 DEF PushSend
  <2>4. DOMAIN missed' = Members
    BY <1>10 DEF PushSend, UplinkTypes
  <2> QED BY <1>10, <2>2, <2>3, <2>4 DEF PushSend, Quiet, UplinkTypes
<1>11. ASSUME NEW p \in Pushers, PushDone(p) PROVE UplinkTypes'
  <2>1. IsFiniteSet(spread')
    BY <1>11, FS_AddElement DEF PushDone, UplinkTypes
  <2>2. fanout' \in [Pushers -> F] /\ worker' \in [Workers -> UplinkMsgs \cup {NoMsg}]
    BY <1>0, <1>00, <1>11 DEF PushDone
  <2> QED BY <1>11, <2>1, <2>2 DEF PushDone, Quiet, UplinkTypes
<1>12. CASE CometStop
  BY <1>12 DEF CometStop, UplinkTypes
<1>13. CASE UNCHANGED uplinkVars
  BY <1>13 DEF uplinkVars, UplinkTypes
<1>14. ASSUME NEW m \in late, OnMessageLate(m) PROVE UplinkTypes'
  <2>1. m \in UplinkMsgs /\ topic' = Append(topic, m) /\ late' \subseteq UplinkMsgs
    BY <1>14 DEF OnMessageLate, UplinkTypes
  <2>2. topic' \in Seq(UplinkMsgs) /\ Len(topic') = Len(topic) + 1
    BY <1>0, <2>1, AppendPlaces
  <2>3. pushed \in 0..Len(topic')
    BY <1>0, <2>2
  <2> QED BY <1>14, <2>1, <2>2, <2>3 DEF OnMessageLate, Quiet, UplinkTypes
<1> QED BY <1>1, <1>2, <1>3, <1>4, <1>5, <1>6, <1>7, <1>8, <1>9, <1>10, <1>11, <1>12, <1>13, <1>14 DEF UplinkNext

\* No message is in the topic twice, none that waits to be published is in it, and no two fan-outs
\* under way have the same message.
LEMMA MessagesDistinct ==
  ASSUME UplinkTypes, UplinkPath, FanoutOnce
  PROVE  /\ \A i, j \in DOMAIN topic : i # j => topic[i] # topic[j]
         /\ \A w \in Unpublished : worker[w] \notin ToSet(topic)
         /\ \A p, q \in Active : p # q => fanout[p].msg # fanout[q].msg
<1>0. /\ topic \in Seq(UplinkMsgs) /\ Len(topic) \in Nat /\ DOMAIN topic = 1..Len(topic)
      /\ ToSet(topic) \subseteq UplinkMsgs
  BY DEF UplinkTypes, ToSet
<1>1. \A m \in UplinkMsgs : ~Precedes(m, m)
  BY DEF Precedes, UplinkMsgs
<1>2. \A i, j \in DOMAIN topic : i < j => topic[i] # topic[j]
  BY <1>0, <1>1 DEF UplinkPath
<1>3. \A i, j \in DOMAIN topic : i # j => topic[i] # topic[j]
  <2> SUFFICES ASSUME NEW i \in DOMAIN topic, NEW j \in DOMAIN topic, i # j PROVE topic[i] # topic[j]
    OBVIOUS
  <2>1. i < j \/ j < i
    BY <1>0
  <2> QED BY <1>2, <2>1
<1>4. \A w \in Unpublished : worker[w] \notin ToSet(topic)
  BY <1>0, <1>1 DEF UplinkPath
<1>5. ASSUME NEW p \in Active, NEW q \in Active, p # q PROVE fanout[p].msg # fanout[q].msg
  <2>1. p \in Workers /\ q \in Workers
    <3>1. CASE standalone
      BY <3>1 DEF FanoutOnce, Active, Pushers
    <3>2. CASE ~standalone
      BY <1>5, <3>2 DEF FanoutOnce, Active, Pushers
    <3> QED BY <3>1, <3>2
  <2>2. fanout[p].msg = worker[p] /\ fanout[q].msg = worker[q] /\ worker[p] # NoMsg /\ worker[q] # NoMsg
    BY <2>1 DEF FanoutOnce
  <2>3. worker[p] # worker[q]
    BY <1>5, <2>1, <2>2 DEF UplinkPath, Apart
  <2> QED BY <2>2, <2>3
<1> QED BY <1>3, <1>4, <1>5

\* A step that begins and ends no fan-out.
LEMMA OnceKept ==
  ASSUME UplinkTypes, FanoutOnce,
         UNCHANGED <<standalone, pushed, spread, Active>>,
         ToSet(topic) \subseteq ToSet(topic'), \A i \in 1..Len(topic) : topic'[i] = topic[i],
         \A p \in Active : fanout'[p].msg = fanout[p].msg,
         \A w \in Workers \cap Active : worker'[w] = worker[w]
  PROVE  FanoutOnce'
<1>1. pushed \in Nat /\ \A i \in 1..pushed : i \in 1..Len(topic)
  BY DEF UplinkTypes
<1>2. pushed > 0 => topic'[pushed] = topic[pushed]
  BY <1>1
<1>3. ~standalone => \A m \in spread : \E i \in 1..pushed : m = topic'[i]
  BY <1>1 DEF FanoutOnce
<1>4. \A p \in Active : fanout'[p].msg \in ToSet(topic') \ spread
  BY DEF FanoutOnce
<1> QED BY <1>1, <1>2, <1>3, <1>4 DEF FanoutOnce

\* Every step keeps each message to one fan-out.
LEMMA FanoutOnceStep ==
  ASSUME UplinkTypes, UplinkPath, FanoutOnce, [UplinkNext]_uplinkVars
  PROVE  FanoutOnce'
<1> DEFINE F == [msg : UplinkMsgs \cup {NoMsg}, to : SUBSET Members, dropped : Nat, phase : {"idle", "begin", "send"}]
<1>0. /\ worker \in [Workers -> UplinkMsgs \cup {NoMsg}] /\ topic \in Seq(UplinkMsgs)
      /\ fanout \in [Pushers -> F] /\ pushed \in 0..Len(topic) /\ Len(topic) \in Nat /\ DOMAIN topic = 1..Len(topic)
      /\ Workers \subseteq Pushers /\ Job \in Pushers /\ Job \notin Workers
  BY CometUplinkAssumption DEF UplinkTypes, Pushers
<1>00. ASSUME UNCHANGED <<standalone, pushed, spread, topic, worker, fanout>> PROVE FanoutOnce'
  <2>1. UNCHANGED <<standalone, pushed, spread, topic, worker, fanout, Active>>
    BY <1>00 DEF Active
  <2> QED BY <2>1, OnceKept
<1>1. ASSUME NEW c \in Members, OnUplink(c) \/ ReadPumpLimited(c) \/ WritePump(c) \/ Leave(c) PROVE FanoutOnce'
  BY <1>00, <1>1 DEF OnUplink, ReadPumpLimited, WritePump, Leave
<1>2. CASE CometStop
  BY <1>00, <1>2 DEF CometStop
<1>3. CASE UNCHANGED uplinkVars
  BY <1>00, <1>3 DEF uplinkVars
<1>4. ASSUME NEW w \in Workers, TakeUplink(w) PROVE FanoutOnce'
  <2>1. /\ worker[w] = NoMsg /\ worker' = [worker EXCEPT ![w] = Head(uplinkCh)]
        /\ UNCHANGED <<standalone, pushed, spread, topic, fanout>>
    BY <1>4 DEF TakeUplink
  <2>2. Active' = Active /\ w \notin Active
    BY <2>1, IdleWorker DEF Active
  <2>3. \A v \in Workers \cap Active : worker'[v] = worker[v]
    BY <1>0, <2>1, <2>2
  <2> QED BY <2>1, <2>2, <2>3, OnceKept
<1>5. ASSUME NEW w \in Workers, OnMessage(w) \/ OnMessageFails(w) \/ OnMessageTimeout(w) PROVE FanoutOnce'
  <2>1. ~standalone /\ worker[w] # NoMsg /\ UNCHANGED <<standalone, pushed, spread, fanout>>
    BY <1>5 DEF OnMessage, OnMessageFails, OnMessageTimeout, Quiet
  <2>2. Active' = Active /\ Workers \cap Active = {}
    BY <2>1 DEF Active, FanoutOnce
  <2>3. worker[w] \in UplinkMsgs /\ topic' \in {topic, Append(topic, worker[w])}
    BY <1>0, <1>5, <2>1 DEF OnMessage, OnMessageFails, OnMessageTimeout
  <2>4. ToSet(topic) \subseteq ToSet(topic') /\ \A i \in 1..Len(topic) : topic'[i] = topic[i]
    <3>1. CASE topic' = topic
      BY <3>1
    <3>2. CASE topic' = Append(topic, worker[w])
      BY <1>0, <2>3, <3>2, AppendPlaces
    <3> QED BY <2>3, <3>1, <3>2
  <2> QED BY <2>1, <2>2, <2>4, OnceKept
<1>6. ASSUME NEW w \in Workers, LocalBroadcast(w) PROVE FanoutOnce'
  <2>1. /\ standalone /\ worker[w] # NoMsg /\ fanout[w].phase = "idle" /\ topic' = Append(topic, worker[w])
        /\ fanout' = [fanout EXCEPT ![w] = [Idle EXCEPT !.msg = worker[w], !.phase = "begin"]]
        /\ UNCHANGED <<standalone, pushed, spread, worker>>
    BY <1>6 DEF LocalBroadcast, Quiet
  <2>2. fanout'[w].msg = worker[w] /\ fanout'[w].phase = "begin" /\ \A p \in Pushers \ {w} : fanout'[p] = fanout[p]
    BY <1>0, <2>1 DEF Idle
  <2>3. Active' = Active \cup {w}
    BY <1>0, <2>1, <2>2 DEF Active
  <2>4. w \in Unpublished /\ worker[w] \in UplinkMsgs
    BY <1>0, <2>1 DEF Unpublished
  <2>5. worker[w] \notin spread
    BY <2>4, MessagesDistinct DEF FanoutOnce
  <2>6. ToSet(topic') = ToSet(topic) \cup {worker[w]}
    BY <1>0, <2>1, <2>4, AppendPlaces
  <2>7. Job \notin Active /\ Job \notin Active'
    BY <1>0, <2>1, <2>3 DEF FanoutOnce
  <2>8. \A p \in Active' : p # w => p \in Active /\ fanout'[p] = fanout[p]
    BY <2>2, <2>3 DEF Active
  <2>9. \A v \in Workers \cap Active' : standalone /\ worker[v] # NoMsg /\ fanout'[v].msg = worker[v]
    BY <2>1, <2>2, <2>8 DEF FanoutOnce
  <2>10. \A p \in Active' : fanout'[p].msg \in ToSet(topic') \ spread
    BY <2>2, <2>5, <2>6, <2>8 DEF FanoutOnce
  <2>11. spread \subseteq ToSet(topic')
    BY <2>6 DEF FanoutOnce
  <2> QED BY <2>1, <2>7, <2>9, <2>10, <2>11 DEF FanoutOnce
<1>7. CASE PushRoom
  <2>1. /\ ~standalone /\ fanout[Job].phase = "idle" /\ pushed < Len(topic) /\ pushed' = pushed + 1
        /\ fanout' = [fanout EXCEPT ![Job] = [Idle EXCEPT !.msg = topic[pushed + 1], !.phase = "begin"]]
        /\ UNCHANGED <<standalone, topic, spread, worker>>
    BY <1>7 DEF PushRoom, Quiet
  <2>2. /\ fanout'[Job].msg = topic[pushed + 1] /\ fanout'[Job].phase = "begin"
        /\ \A p \in Pushers \ {Job} : fanout'[p] = fanout[p]
    BY <1>0, <2>1 DEF Idle
  <2>3. Active' = {Job}
    <3>1. Active = {}
      BY <2>1 DEF Active, FanoutOnce, Pushers
    <3> QED BY <1>0, <2>2, <3>1 DEF Active
  <2>4. pushed + 1 \in DOMAIN topic /\ pushed + 1 > 0 /\ \A i \in 1..pushed : i \in DOMAIN topic /\ i # pushed + 1 /\ i \in 1..(pushed + 1)
    BY <1>0, <2>1
  <2>5. topic[pushed + 1] \notin spread
    BY <2>1, <2>4, MessagesDistinct DEF FanoutOnce
  <2>6. topic[pushed + 1] \in ToSet(topic)
    BY <2>4 DEF ToSet
  <2>7. \A m \in spread : \E i \in 1..pushed' : m = topic[i]
    BY <2>1, <2>4 DEF FanoutOnce
  <2>8. spread \subseteq ToSet(topic)
    BY DEF FanoutOnce
  <2>9. Workers \cap Active' = {}
    BY <1>0, <2>3
  <2> QED BY <2>1, <2>2, <2>3, <2>4, <2>5, <2>6, <2>7, <2>8, <2>9 DEF FanoutOnce
<1>8. ASSUME NEW p \in Pushers, GetSubscribers(p) PROVE FanoutOnce'
  <2>1. UNCHANGED <<standalone, pushed, spread, topic, worker>>
    BY <1>8 DEF GetSubscribers, Quiet
  <2>2. \A q \in Pushers : fanout'[q].msg = fanout[q].msg /\ (fanout'[q].phase = "idle" <=> fanout[q].phase = "idle")
    BY <1>0, <1>8 DEF GetSubscribers
  <2>3. Active' = Active
    BY <2>2 DEF Active
  <2> QED BY <2>1, <2>2, <2>3, OnceKept DEF Active
<1>9. ASSUME NEW p \in Pushers, NEW c \in Members, PushSend(p, c) PROVE FanoutOnce'
  <2>1. UNCHANGED <<standalone, pushed, spread, topic, worker>>
    BY <1>9 DEF PushSend, Quiet
  <2>2. \A q \in Pushers : fanout'[q].msg = fanout[q].msg /\ fanout'[q].phase = fanout[q].phase
    <3>1. CASE fanout' = [fanout EXCEPT ![p].to = @ \ {c}]
      BY <1>0, <3>1
    <3>2. CASE fanout' = [fanout EXCEPT ![p].to = @ \ {c}, ![p].dropped = @ + 1]
      BY <1>0, <3>2
    <3> QED BY <1>9, <3>1, <3>2 DEF PushSend
  <2>3. Active' = Active
    BY <2>2 DEF Active
  <2> QED BY <2>1, <2>2, <2>3, OnceKept DEF Active
<1>10. ASSUME NEW p \in Pushers, PushDone(p) PROVE FanoutOnce'
  <2>1. /\ fanout[p].phase = "send" /\ spread' = spread \cup {fanout[p].msg} /\ fanout' = [fanout EXCEPT ![p] = Idle]
        /\ worker' = [w \in Workers |-> IF w = p THEN NoMsg ELSE worker[w]]
        /\ UNCHANGED <<standalone, topic, pushed>>
    BY <1>10 DEF PushDone, Quiet
  <2>2. fanout'[p].phase = "idle" /\ \A q \in Pushers \ {p} : fanout'[q] = fanout[q]
    BY <1>0, <2>1 DEF Idle
  <2>3. Active' = Active \ {p} /\ p \in Active
    BY <2>1, <2>2 DEF Active
  <2>4. \A q \in Active' : q \in Active /\ q \in Pushers /\ q # p /\ fanout'[q] = fanout[q] /\ fanout[q].msg # fanout[p].msg
    BY <2>2, <2>3, MessagesDistinct DEF Active
  <2>5. \A w \in Workers \cap Active' : standalone /\ worker'[w] # NoMsg /\ fanout'[w].msg = worker'[w]
    BY <2>1, <2>4 DEF FanoutOnce
  <2>6. \A q \in Active' : fanout'[q].msg \in ToSet(topic) \ spread'
    BY <2>1, <2>4 DEF FanoutOnce
  <2>7. spread' \subseteq ToSet(topic)
    BY <2>1, <2>3 DEF FanoutOnce
  <2>8. ~standalone => \A m \in spread' : \E i \in 1..pushed : m = topic[i]
    <3> SUFFICES ASSUME ~standalone PROVE \E i \in 1..pushed : fanout[p].msg = topic[i]
      BY <2>1 DEF FanoutOnce
    <3>1. p = Job
      BY <2>3 DEF FanoutOnce, Pushers
    <3>2. pushed \in 1..pushed /\ fanout[p].msg = topic[pushed]
      BY <1>0, <2>3, <3>1 DEF FanoutOnce
    <3> QED BY <3>2
  <2>9. Job \in Active' => ~standalone /\ pushed > 0 /\ fanout'[Job].msg = topic[pushed]
    BY <2>4 DEF FanoutOnce
  <2> QED BY <2>1, <2>5, <2>6, <2>7, <2>8, <2>9 DEF FanoutOnce
<1>11. ASSUME NEW m \in late, OnMessageLate(m) PROVE FanoutOnce'
  <2>1. m \in UplinkMsgs /\ topic' = Append(topic, m) /\ UNCHANGED <<standalone, pushed, spread, fanout, worker>>
    BY <1>11 DEF OnMessageLate, Quiet, UplinkTypes
  <2>2. Active' = Active
    BY <2>1 DEF Active
  <2>3. ToSet(topic) \subseteq ToSet(topic') /\ \A i \in 1..Len(topic) : topic'[i] = topic[i]
    BY <1>0, <2>1, AppendPlaces
  <2> QED BY <2>1, <2>2, <2>3, OnceKept
<1> QED BY <1>1, <1>2, <1>3, <1>4, <1>5, <1>6, <1>7, <1>8, <1>9, <1>10, <1>11 DEF UplinkNext

\* One send of a fan-out: to a queue with room, or counted as a drop.
LEMMA SendEffect ==
  ASSUME UplinkTypes, FanoutOnce, NEW p \in Pushers, NEW c \in Members, PushSend(p, c)
  PROVE  /\ p \in Active /\ c \in fanout[p].to /\ Active' = Active /\ fanout[p].phase = "send"
         /\ \A q \in Pushers : fanout'[q].msg = fanout[q].msg /\ fanout'[q].phase = fanout[q].phase
         /\ fanout'[p].to = fanout[p].to \ {c} /\ \A q \in Pushers \ {p} : fanout'[q] = fanout[q]
         /\ UNCHANGED <<inRoom, got, spread, droppedOut>>
         /\ \A d \in Members : ToSet(sendCh[d]) \subseteq ToSet(sendCh'[d])
         /\ \/ fanout[p].msg \in ToSet(sendCh'[c]) /\ fanout'[p].dropped = fanout[p].dropped /\ missed' = missed
            \/ fanout'[p].dropped = fanout[p].dropped + 1 /\ missed' = [missed EXCEPT ![c] = @ \cup {fanout[p].msg}]
<1> DEFINE F == [msg : UplinkMsgs \cup {NoMsg}, to : SUBSET Members, dropped : Nat, phase : {"idle", "begin", "send"}]
<1>0. fanout \in [Pushers -> F] /\ topic \in Seq(UplinkMsgs)
  BY DEF UplinkTypes
<1>1. p \in Active /\ c \in fanout[p].to /\ fanout[p].phase = "send" /\ UNCHANGED <<inRoom, got, spread, droppedOut>>
  BY DEF PushSend, Active, Quiet
<1>2. fanout[p].msg \in UplinkMsgs
  BY <1>0, <1>1 DEF FanoutOnce, ToSet
<1>3. /\ \A d \in Members : ToSet(sendCh[d]) \subseteq ToSet(sendCh'[d])
      /\ Len(sendCh[c]) < SendCap => fanout[p].msg \in ToSet(sendCh'[c])
  BY <1>2, TrySendGrows DEF PushSend
<1>4. CASE Len(sendCh[c]) < SendCap
  <2>1. fanout' = [fanout EXCEPT ![p].to = @ \ {c}] /\ missed' = missed
    BY <1>4 DEF PushSend
  <2>2. /\ \A q \in Pushers : fanout'[q].msg = fanout[q].msg /\ fanout'[q].phase = fanout[q].phase
        /\ fanout'[p].to = fanout[p].to \ {c} /\ \A q \in Pushers \ {p} : fanout'[q] = fanout[q]
        /\ fanout'[p].dropped = fanout[p].dropped
    BY <1>0, <2>1
  <2>3. Active' = Active
    BY <2>2 DEF Active
  <2> QED BY <1>1, <1>3, <1>4, <2>1, <2>2, <2>3
<1>5. CASE ~(Len(sendCh[c]) < SendCap)
  <2>1. /\ fanout' = [fanout EXCEPT ![p].to = @ \ {c}, ![p].dropped = @ + 1]
        /\ missed' = [missed EXCEPT ![c] = @ \cup {fanout[p].msg}]
    BY <1>5 DEF PushSend
  <2>2. /\ \A q \in Pushers : fanout'[q].msg = fanout[q].msg /\ fanout'[q].phase = fanout[q].phase
        /\ fanout'[p].to = fanout[p].to \ {c} /\ \A q \in Pushers \ {p} : fanout'[q] = fanout[q]
        /\ fanout'[p].dropped = fanout[p].dropped + 1
    BY <1>0, <2>1
  <2>3. Active' = Active
    BY <2>2 DEF Active
  <2> QED BY <1>1, <1>3, <2>1, <2>2, <2>3
<1> QED BY <1>4, <1>5

\* The beginnings of a fan-out: its message is fresh, and nobody is asked yet.
LEMMA BeginEffect ==
  ASSUME UplinkTypes, UplinkPath, FanoutOnce,
         PushRoom \/ \E w \in Workers : LocalBroadcast(w)
  PROVE  \E p \in Pushers \ Active :
           /\ Active' = Active \cup {p} /\ \A q \in Pushers \ {p} : fanout'[q] = fanout[q]
           /\ fanout'[p].phase = "begin" /\ fanout'[p].dropped = 0 /\ fanout'[p].to = {}
           /\ fanout'[p].msg \notin spread /\ \A q \in Active : fanout'[p].msg # fanout[q].msg
           /\ UNCHANGED <<inRoom, sendCh, got, spread, missed, droppedOut>>
<1>0. /\ fanout \in [Pushers -> [msg : UplinkMsgs \cup {NoMsg}, to : SUBSET Members, dropped : Nat,
                                 phase : {"idle", "begin", "send"}]]
      /\ Workers \subseteq Pushers /\ Job \in Pushers /\ topic \in Seq(UplinkMsgs) /\ Len(topic) \in Nat
      /\ DOMAIN topic = 1..Len(topic) /\ pushed \in 0..Len(topic)
  BY DEF UplinkTypes, Pushers
<1> DEFINE Begins(p, m) ==
             /\ p \notin Active /\ Active' = Active \cup {p} /\ \A q \in Pushers \ {p} : fanout'[q] = fanout[q]
             /\ fanout'[p].phase = "begin" /\ fanout'[p].dropped = 0 /\ fanout'[p].to = {} /\ fanout'[p].msg = m
<1>1. ASSUME NEW p \in Pushers, NEW m, fanout[p].phase = "idle",
             fanout' = [fanout EXCEPT ![p] = [Idle EXCEPT !.msg = m, !.phase = "begin"]]
      PROVE  Begins(p, m)
  <2>1. /\ \A q \in Pushers \ {p} : fanout'[q] = fanout[q]
        /\ fanout'[p].phase = "begin" /\ fanout'[p].dropped = 0 /\ fanout'[p].to = {} /\ fanout'[p].msg = m
    BY <1>0, <1>1 DEF Idle
  <2> QED BY <1>1, <2>1 DEF Active
<1>2. CASE PushRoom
  <2>1. UNCHANGED <<inRoom, sendCh, got, spread, missed, droppedOut>> /\ ~standalone /\ pushed < Len(topic)
    BY <1>2 DEF PushRoom, Quiet
  <2>2. Begins(Job, topic[pushed + 1])
    BY <1>0, <1>1, <1>2 DEF PushRoom
  <2>3. Active = {}
    BY <2>1, <2>2 DEF FanoutOnce, Active, Pushers
  <2>4. pushed + 1 \in DOMAIN topic /\ \A i \in 1..pushed : i \in DOMAIN topic /\ i # pushed + 1
    BY <1>0, <2>1
  <2>5. topic[pushed + 1] \notin spread
    BY <2>1, <2>4, MessagesDistinct DEF FanoutOnce
  <2> QED BY <1>0, <2>1, <2>2, <2>3, <2>5
<1>3. ASSUME NEW w \in Workers, LocalBroadcast(w)
      PROVE  /\ UNCHANGED <<inRoom, sendCh, got, spread, missed, droppedOut>> /\ Begins(w, worker[w])
             /\ worker[w] \notin spread /\ \A q \in Active : worker[w] # fanout[q].msg
  <2>1. UNCHANGED <<inRoom, sendCh, got, spread, missed, droppedOut>>
    BY <1>3 DEF LocalBroadcast, Quiet
  <2>2. Begins(w, worker[w])
    BY <1>0, <1>1, <1>3 DEF LocalBroadcast
  <2>3. w \in Unpublished
    BY <1>3 DEF LocalBroadcast, Unpublished
  <2>4. worker[w] \notin ToSet(topic)
    BY <2>3, MessagesDistinct
  <2> QED BY <2>1, <2>2, <2>4 DEF FanoutOnce
<1> QED BY <1>0, <1>2, <1>3

\* The end of a fan-out.
LEMMA DoneEffect ==
  ASSUME UplinkTypes, NEW p \in Pushers, PushDone(p)
  PROVE  /\ p \in Active /\ fanout[p].phase = "send" /\ fanout[p].to = {} /\ spread' = spread \cup {fanout[p].msg}
         /\ Active' = Active \ {p} /\ \A q \in Active' : fanout'[q] = fanout[q]
         /\ droppedOut' = droppedOut + fanout[p].dropped
         /\ UNCHANGED <<inRoom, sendCh, got, missed>>
<1>0. fanout \in [Pushers -> [msg : UplinkMsgs \cup {NoMsg}, to : SUBSET Members, dropped : Nat,
                              phase : {"idle", "begin", "send"}]]
  BY DEF UplinkTypes
<1>1. /\ fanout[p].phase = "send" /\ fanout[p].to = {} /\ spread' = spread \cup {fanout[p].msg}
      /\ fanout' = [fanout EXCEPT ![p] = Idle] /\ droppedOut' = droppedOut + fanout[p].dropped
      /\ UNCHANGED <<inRoom, sendCh, got, missed>>
  BY DEF PushDone, Quiet
<1>2. fanout'[p].phase = "idle" /\ \A q \in Pushers \ {p} : fanout'[q] = fanout[q]
  BY <1>0, <1>1 DEF Idle
<1> QED BY <1>1, <1>2 DEF Active

\* The steps that take no part in a fan-out.
LEMMA FanoutSteps ==
  ASSUME UplinkTypes, [UplinkNext]_uplinkVars
  PROVE  \/ PushRoom \/ \E w \in Workers : LocalBroadcast(w)
         \/ \E p \in Pushers : GetSubscribers(p) \/ PushDone(p) \/ \E c \in Members : PushSend(p, c)
         \/ /\ UNCHANGED <<fanout, Active, missed, spread, droppedOut>>
            /\ \/ \E c \in Members : ReadPumpLimited(c) \/ WritePump(c) \/ Leave(c)
               \/ UNCHANGED <<inRoom, sendCh, got>>
<1> DEFINE Same == UNCHANGED <<fanout, Active, missed, spread, droppedOut>>
           Still == UNCHANGED <<inRoom, sendCh, got>>
<1>1. ASSUME NEW c \in Members, OnUplink(c) PROVE Same /\ Still
  BY <1>1 DEF OnUplink, Active
<1>2. ASSUME NEW c \in Members, ReadPumpLimited(c) \/ WritePump(c) \/ Leave(c) PROVE Same
  BY <1>2 DEF ReadPumpLimited, WritePump, Leave, Active
<1>3. ASSUME NEW w \in Workers, TakeUplink(w) \/ OnMessage(w) \/ OnMessageFails(w) \/ OnMessageTimeout(w)
      PROVE Same /\ Still
  BY <1>3 DEF TakeUplink, OnMessage, OnMessageFails, OnMessageTimeout, Quiet, Active
<1>4. (CometStop => Same /\ Still) /\ (UNCHANGED uplinkVars => Same /\ Still)
  BY DEF CometStop, uplinkVars, Active
<1>45. ASSUME NEW m \in late, OnMessageLate(m) PROVE Same /\ Still
  BY <1>45 DEF OnMessageLate, Quiet, Active
<1> HIDE DEF Same, Still
<1>5. \/ PushRoom \/ \E w \in Workers : LocalBroadcast(w)
      \/ \E p \in Pushers : GetSubscribers(p) \/ PushDone(p) \/ \E c \in Members : PushSend(p, c)
      \/ Same /\ ((\E c \in Members : ReadPumpLimited(c) \/ WritePump(c) \/ Leave(c)) \/ Still)
  BY <1>1, <1>2, <1>3, <1>4, <1>45 DEF UplinkNext
<1> QED BY <1>5 DEF Same, Still

\* Every step keeps a fan-out's message where it has been put, or its drop recorded.
LEMMA FanoutReachStep ==
  ASSUME UplinkTypes, UplinkPath, FanoutOnce, FanoutReach, [UplinkNext]_uplinkVars
  PROVE  FanoutReach'
<1> DEFINE Has(c) == got[c] \cup ToSet(sendCh[c]) \cup missed[c]
<1>0. /\ fanout \in [Pushers -> [msg : UplinkMsgs \cup {NoMsg}, to : SUBSET Members, dropped : Nat,
                                 phase : {"idle", "begin", "send"}]]
      /\ inRoom \subseteq Members /\ sendCh \in [Members -> Seq(UplinkMsgs \cup {RateLimited})]
      /\ DOMAIN got = Members /\ DOMAIN missed = Members
  BY DEF UplinkTypes
<1>1. /\ \A p \in Active : \A c \in inRoom : fanout[p].phase = "send" => c \in fanout[p].to \/ fanout[p].msg \in Has(c)
      /\ \A m \in spread, c \in inRoom : m \in Has(c)
  BY DEF FanoutReach
<1>2. ASSUME inRoom' \subseteq inRoom, \A c \in inRoom' : Has(c) \subseteq Has(c)',
             \A p \in Active' : fanout'[p].phase = "send" =>
               /\ p \in Active /\ fanout[p].phase = "send" /\ fanout'[p].msg = fanout[p].msg
               /\ \A c \in inRoom' : c \in fanout[p].to => c \in fanout'[p].to \/ fanout[p].msg \in Has(c)',
             spread' = spread
      PROVE  FanoutReach'
  <2>1. \A p \in Active' : \A c \in inRoom' : fanout'[p].phase = "send" => c \in fanout'[p].to \/ fanout'[p].msg \in Has(c)'
    BY <1>1, <1>2
  <2>2. \A m \in spread', c \in inRoom' : m \in Has(c)'
    BY <1>1, <1>2
  <2> QED BY <2>1, <2>2 DEF FanoutReach
<1>3. ASSUME UNCHANGED <<fanout, Active, missed, spread, droppedOut>>,
             inRoom' \subseteq inRoom, \A c \in inRoom' : Has(c) \subseteq Has(c)'
      PROVE  FanoutReach'
  <2> HIDE DEF Has
  <2> QED BY <1>2, <1>3
<1>4. ASSUME UNCHANGED <<fanout, Active, missed, spread, droppedOut>>,
             NEW c \in Members, ReadPumpLimited(c)
      PROVE  FanoutReach'
  <2>1. \A d \in Members : ToSet(sendCh[d]) \subseteq ToSet(sendCh'[d])
    BY <1>4, TrySendGrows DEF ReadPumpLimited
  <2>2. UNCHANGED <<inRoom, got>>
    BY <1>4 DEF ReadPumpLimited
  <2>3. \A d \in inRoom' : Has(d) \subseteq Has(d)'
    BY <1>0, <1>4, <2>1, <2>2
  <2> QED BY <1>3, <1>4, <2>2, <2>3
<1>5. ASSUME UNCHANGED <<fanout, Active, missed, spread, droppedOut>>,
             NEW c \in Members, WritePump(c)
      PROVE  FanoutReach'
  <2>1. /\ sendCh[c] # <<>> /\ sendCh' = [sendCh EXCEPT ![c] = Tail(@)] /\ inRoom' = inRoom
        /\ got' = [got EXCEPT ![c] = @ \cup {Head(sendCh[c])}]
    BY <1>5 DEF WritePump
  <2>2. \A d \in Members \ {c} : sendCh'[d] = sendCh[d] /\ got'[d] = got[d]
    BY <1>0, <2>1
  <2>3. sendCh'[c] = Tail(sendCh[c]) /\ got'[c] = got[c] \cup {Head(sendCh[c])}
    BY <1>0, <2>1
  <2>4. ToSet(sendCh[c]) = ToSet(Tail(sendCh[c])) \cup {Head(sendCh[c])}
    BY <1>0, <2>1, TailToSet
  <2>5. Has(c) \subseteq Has(c)'
    BY <1>5, <2>3, <2>4
  <2>6. \A d \in inRoom' : Has(d) \subseteq Has(d)'
    BY <1>0, <1>5, <2>1, <2>2, <2>5
  <2> QED BY <1>3, <1>5, <2>1, <2>6
<1>6. ASSUME UNCHANGED <<fanout, Active, missed, spread, droppedOut>>,
             (\E c \in Members : Leave(c)) \/ UNCHANGED <<inRoom, sendCh, got>>
      PROVE  FanoutReach'
  <2>1. inRoom' \subseteq inRoom /\ UNCHANGED <<sendCh, got>>
    BY <1>6 DEF Leave
  <2> QED BY <1>3, <1>6, <2>1
<1>7. CASE PushRoom \/ \E w \in Workers : LocalBroadcast(w)
  <2>1. PICK p \in Pushers \ Active :
           /\ Active' = Active \cup {p} /\ \A q \in Pushers \ {p} : fanout'[q] = fanout[q]
           /\ fanout'[p].phase = "begin" /\ fanout'[p].dropped = 0 /\ fanout'[p].to = {}
           /\ UNCHANGED <<inRoom, sendCh, got, spread, missed, droppedOut>>
    BY <1>7, BeginEffect
  <2>2. \A c \in inRoom' : Has(c)' = Has(c)
    BY <2>1
  <2>3. \A q \in Active' : fanout'[q].phase = "send" => q \in Active /\ fanout'[q] = fanout[q]
    BY <2>1 DEF Active
  <2> HIDE DEF Has
  <2> QED BY <1>2, <2>1, <2>2, <2>3
<1>8. ASSUME NEW p \in Pushers, GetSubscribers(p) PROVE FanoutReach'
  <2>1. UNCHANGED <<inRoom, sendCh, got, spread, missed>> /\ fanout' = [fanout EXCEPT ![p].to = inRoom, ![p].phase = "send"]
    BY <1>8 DEF GetSubscribers, Quiet
  <2>2. fanout'[p].to = inRoom /\ \A q \in Pushers \ {p} : fanout'[q] = fanout[q]
    BY <1>0, <2>1
  <2>3. \A q \in Active' : q # p => q \in Active /\ fanout'[q] = fanout[q]
    BY <2>2 DEF Active
  <2>4. \A q \in Active' : \A c \in inRoom : fanout'[q].phase = "send" => c \in fanout'[q].to \/ fanout'[q].msg \in Has(c)
    BY <1>1, <2>2, <2>3
  <2> QED BY <1>1, <2>1, <2>4 DEF FanoutReach
<1>9. ASSUME NEW p \in Pushers, NEW c \in Members, PushSend(p, c) PROVE FanoutReach'
  <2>1. /\ p \in Active /\ Active' = Active /\ fanout'[p].to = fanout[p].to \ {c}
        /\ \A q \in Pushers : fanout'[q].msg = fanout[q].msg /\ fanout'[q].phase = fanout[q].phase
        /\ \A q \in Pushers \ {p} : fanout'[q] = fanout[q]
        /\ UNCHANGED <<inRoom, got, spread, droppedOut>>
        /\ \A d \in Members : ToSet(sendCh[d]) \subseteq ToSet(sendCh'[d])
        /\ \/ fanout[p].msg \in ToSet(sendCh'[c]) /\ missed' = missed
           \/ missed' = [missed EXCEPT ![c] = @ \cup {fanout[p].msg}]
    BY <1>9, SendEffect
  <2>2. \A d \in Members : missed[d] \subseteq missed'[d]
    BY <1>0, <2>1
  <2>3. fanout[p].msg \in Has(c)'
    BY <1>0, <2>1
  <2>4. \A d \in Members : Has(d) \subseteq Has(d)'
    BY <2>1, <2>2
  <2> HIDE DEF Has
  <2>5. \A q \in Active' : q \in Active /\ q \in Pushers /\ fanout'[q].phase = fanout[q].phase /\ fanout'[q].msg = fanout[q].msg
    BY <2>1 DEF Active
  <2>6. \A q \in Active' : \A d \in inRoom' : d \in fanout[q].to => d \in fanout'[q].to \/ fanout[q].msg \in Has(d)'
    BY <2>1, <2>3, <2>5
  <2>7. inRoom' \subseteq inRoom /\ spread' = spread /\ \A d \in inRoom' : Has(d) \subseteq Has(d)'
    BY <1>0, <2>1, <2>4
  <2> QED BY <1>2, <2>5, <2>6, <2>7
<1>10. ASSUME NEW p \in Pushers, PushDone(p) PROVE FanoutReach'
  <2>1. /\ p \in Active /\ fanout[p].phase = "send" /\ fanout[p].to = {} /\ spread' = spread \cup {fanout[p].msg}
        /\ Active' = Active \ {p} /\ \A q \in Active' : fanout'[q] = fanout[q]
        /\ UNCHANGED <<inRoom, sendCh, got, missed>>
    BY <1>10, DoneEffect
  <2>2. \A m \in spread', c \in inRoom : m \in Has(c)
    BY <1>1, <2>1
  <2>3. \A q \in Active' : \A c \in inRoom : fanout'[q].phase = "send" => c \in fanout'[q].to \/ fanout'[q].msg \in Has(c)
    BY <1>1, <2>1
  <2> QED BY <2>1, <2>2, <2>3 DEF FanoutReach
<1> QED BY <1>4, <1>5, <1>6, <1>7, <1>8, <1>9, <1>10, FanoutSteps

\* One more message to count the drops of.
LEMMA PairsAdd ==
  ASSUME NEW A, IsFiniteSet(A), NEW S, IsFiniteSet(S), NEW f, NEW m, m \notin S
  PROVE  Cardinality({x \in A \X (S \cup {m}) : x[2] \in f[x[1]]}) =
           Cardinality({x \in A \X S : x[2] \in f[x[1]]}) + Cardinality({c \in A : m \in f[c]})
<1> DEFINE New == {c \in A : m \in f[c]}
           Old == {x \in A \X S : x[2] \in f[x[1]]}
           All == {x \in A \X (S \cup {m}) : x[2] \in f[x[1]]}
<1>1. IsFiniteSet(New) /\ Cardinality(New) \in Nat
  <2>1. New \in SUBSET A
    OBVIOUS
  <2> HIDE DEF New
  <2> QED BY <2>1, FS_Subset, FS_CardinalityType
<1>2. IsFiniteSet(Old) /\ Cardinality(Old) \in Nat
  <2>1. Old \in SUBSET (A \X S)
    OBVIOUS
  <2> HIDE DEF Old
  <2> QED BY <2>1, FS_Product, FS_Subset, FS_CardinalityType
<1>3. All = Old \cup (New \X {m})
  OBVIOUS
<1>4. Old \cap (New \X {m}) = {}
  OBVIOUS
<1> HIDE DEF New, Old, All
<1>5. IsFiniteSet({m}) /\ Cardinality({m}) = 1
  BY FS_Singleton
<1>6. IsFiniteSet(New \X {m}) /\ Cardinality(New \X {m}) = Cardinality(New) * Cardinality({m})
  BY <1>1, <1>5, FS_Product
<1>7. Cardinality(New \X {m}) = Cardinality(New)
  BY <1>1, <1>5, <1>6
<1>8. Cardinality(All) = Cardinality(Old) + Cardinality(New \X {m}) - Cardinality({})
  BY <1>2, <1>3, <1>4, <1>6, FS_Union
<1>9. Cardinality(All) = Cardinality(Old) + Cardinality(New)
  BY <1>1, <1>2, <1>7, <1>8, FS_EmptySet
<1> QED BY <1>9 DEF New, Old, All

\* Every step keeps the count of drops exact.
LEMMA DropsCountedStep ==
  ASSUME UplinkTypes, UplinkPath, FanoutOnce, DropsCounted, [UplinkNext]_uplinkVars
  PROVE  DropsCounted'
<1>0. /\ fanout \in [Pushers -> [msg : UplinkMsgs \cup {NoMsg}, to : SUBSET Members, dropped : Nat,
                                 phase : {"idle", "begin", "send"}]]
      /\ DOMAIN missed = Members /\ IsFiniteSet(spread) /\ IsFiniteSet(Members) /\ Active \subseteq Pushers
  BY CometUplinkAssumption DEF UplinkTypes, Active
<1> DEFINE Lost == {x \in Members \X spread : x[2] \in missed[x[1]]}
           Counted(p) == /\ Cardinality(Missers(fanout[p].msg)) = fanout[p].dropped
                         /\ fanout[p].phase = "begin" => Missers(fanout[p].msg) = {}
                         /\ fanout[p].to \cap Missers(fanout[p].msg) = {}
<1>1. /\ \A c \in Members : missed[c] \subseteq spread \cup {fanout[p].msg : p \in Active}
      /\ \A p \in Active : Counted(p)
      /\ droppedOut = Cardinality(Lost)
  BY DEF DropsCounted
<1>2. CASE UNCHANGED <<fanout, Active, missed, spread, droppedOut>>
  BY <1>2 DEF DropsCounted, Missers
<1>3. CASE PushRoom \/ \E w \in Workers : LocalBroadcast(w)
  <2>1. PICK p \in Pushers \ Active :
           /\ Active' = Active \cup {p} /\ \A q \in Pushers \ {p} : fanout'[q] = fanout[q]
           /\ fanout'[p].phase = "begin" /\ fanout'[p].dropped = 0 /\ fanout'[p].to = {}
           /\ fanout'[p].msg \notin spread /\ \A q \in Active : fanout'[p].msg # fanout[q].msg
           /\ UNCHANGED <<inRoom, sendCh, got, spread, missed, droppedOut>>
    BY <1>3, BeginEffect
  <2>2. \A q \in Active : q # p /\ fanout'[q] = fanout[q]
    BY <1>0, <2>1
  <2>3. \A c \in Members : missed'[c] \subseteq spread' \cup {fanout'[q].msg : q \in Active'}
    BY <1>1, <2>1, <2>2
  <2>4. {c \in Members : fanout'[p].msg \in missed[c]} = {}
    BY <1>1, <2>1
  <2>5. \A m : Missers(m)' = Missers(m)
    BY <2>1 DEF Missers
  <2>6. Missers(fanout'[p].msg) = {}
    BY <2>4 DEF Missers
  <2>7. \A q \in Active' :
          /\ Cardinality(Missers(fanout'[q].msg)) = fanout'[q].dropped
          /\ fanout'[q].phase = "begin" => Missers(fanout'[q].msg) = {}
          /\ fanout'[q].to \cap Missers(fanout'[q].msg) = {}
    BY <1>1, <2>1, <2>2, <2>6, FS_EmptySet
  <2>8. droppedOut' = Cardinality({x \in Members \X spread' : x[2] \in missed'[x[1]]})
    BY <1>1, <2>1
  <2> QED BY <2>1, <2>3, <2>7, <2>8 DEF DropsCounted, Missers
<1>4. ASSUME NEW p \in Pushers, GetSubscribers(p) PROVE DropsCounted'
  <2>1. /\ UNCHANGED <<spread, missed, droppedOut>> /\ fanout[p].phase = "begin"
        /\ fanout' = [fanout EXCEPT ![p].to = inRoom, ![p].phase = "send"]
    BY <1>4 DEF GetSubscribers, Quiet
  <2>2. /\ \A q \in Pushers \ {p} : fanout'[q] = fanout[q]
        /\ fanout'[p].msg = fanout[p].msg /\ fanout'[p].dropped = fanout[p].dropped /\ fanout'[p].phase = "send"
    BY <1>0, <2>1
  <2>3. Active' = Active /\ p \in Active
    BY <2>1, <2>2 DEF Active
  <2>4. \A q \in Active' :
          /\ Cardinality(Missers(fanout'[q].msg)) = fanout'[q].dropped
          /\ fanout'[q].phase = "begin" => Missers(fanout'[q].msg) = {}
          /\ fanout'[q].to \cap Missers(fanout'[q].msg) = {}
    BY <1>0, <1>1, <2>1, <2>2, <2>3
  <2>5. \A q \in Active : fanout'[q].msg = fanout[q].msg
    BY <1>0, <2>2
  <2>55. {fanout'[q].msg : q \in Active'} = {fanout[q].msg : q \in Active}
    BY <2>3, <2>5
  <2>6. \A c \in Members : missed'[c] \subseteq spread' \cup {fanout'[q].msg : q \in Active'}
    BY <1>1, <2>1, <2>55
  <2>7. droppedOut' = Cardinality({x \in Members \X spread' : x[2] \in missed'[x[1]]})
    BY <1>1, <2>1
  <2> QED BY ZenonT(30), <2>1, <2>4, <2>6, <2>7 DEF DropsCounted, Missers
<1>5. ASSUME NEW p \in Pushers, NEW c \in Members, PushSend(p, c) PROVE DropsCounted'
  <2>1. /\ p \in Active /\ c \in fanout[p].to /\ Active' = Active /\ fanout'[p].to = fanout[p].to \ {c}
        /\ fanout[p].phase = "send" /\ UNCHANGED <<spread, droppedOut>>
        /\ \A q \in Pushers : fanout'[q].msg = fanout[q].msg /\ fanout'[q].phase = fanout[q].phase
        /\ \A q \in Pushers \ {p} : fanout'[q] = fanout[q]
        /\ \/ fanout'[p].dropped = fanout[p].dropped /\ missed' = missed
           \/ fanout'[p].dropped = fanout[p].dropped + 1 /\ missed' = [missed EXCEPT ![c] = @ \cup {fanout[p].msg}]
    BY <1>5, SendEffect
  <2>2. \A q \in Active : fanout'[q].msg = fanout[q].msg
    BY <1>0, <2>1
  <2>3. {fanout'[q].msg : q \in Active'} = {fanout[q].msg : q \in Active} /\ fanout[p].msg \in {fanout[q].msg : q \in Active}
    BY <2>1, <2>2
  <2>4. CASE fanout'[p].dropped = fanout[p].dropped /\ missed' = missed
    <3>1. \A q \in Active' :
            /\ Cardinality(Missers(fanout'[q].msg)) = fanout'[q].dropped
            /\ fanout'[q].phase = "begin" => Missers(fanout'[q].msg) = {}
            /\ fanout'[q].to \cap Missers(fanout'[q].msg) = {}
      BY <1>0, <1>1, <2>1, <2>2, <2>4
    <3>2. \A d \in Members : missed'[d] \subseteq spread' \cup {fanout'[q].msg : q \in Active'}
      BY <1>1, <2>1, <2>3, <2>4
    <3>3. droppedOut' = Cardinality({x \in Members \X spread' : x[2] \in missed'[x[1]]})
      BY <1>1, <2>1, <2>4
    <3> QED BY <2>4, <3>1, <3>2, <3>3 DEF DropsCounted, Missers
  <2>5. CASE fanout'[p].dropped = fanout[p].dropped + 1 /\ missed' = [missed EXCEPT ![c] = @ \cup {fanout[p].msg}]
    <3> DEFINE m == fanout[p].msg
    <3>1. missed'[c] = missed[c] \cup {m} /\ \A d \in Members \ {c} : missed'[d] = missed[d]
      BY <1>0, <2>5
    <3>2. m \notin spread /\ \A q \in Active : q # p => fanout[q].msg # m
      BY <2>1, MessagesDistinct DEF FanoutOnce
    <3> HIDE DEF m
    <3>3. \A k : k # m => {d \in Members : k \in missed'[d]} = {d \in Members : k \in missed[d]}
      BY <3>1
    <3>4. {d \in Members : m \in missed'[d]} = {d \in Members : m \in missed[d]} \cup {c}
      BY <3>1
    <3>5. /\ c \notin {d \in Members : m \in missed[d]} /\ IsFiniteSet({d \in Members : m \in missed[d]})
          /\ Cardinality({d \in Members : m \in missed[d]}) = fanout[p].dropped
          /\ fanout[p].to \cap {d \in Members : m \in missed[d]} = {}
      <4>1. {d \in Members : m \in missed[d]} \in SUBSET Members
        OBVIOUS
      <4>2. IsFiniteSet({d \in Members : m \in missed[d]})
        BY <1>0, <4>1, FS_Subset
      <4>3. Counted(p)
        BY <1>1, <2>1
      <4>4. /\ Cardinality({d \in Members : m \in missed[d]}) = fanout[p].dropped
            /\ fanout[p].to \cap {d \in Members : m \in missed[d]} = {}
        BY <4>3 DEF Missers, m
      <4> QED BY <2>1, <4>2, <4>4
    <3>6. Cardinality({d \in Members : m \in missed'[d]}) = fanout[p].dropped + 1
      BY <3>4, <3>5, FS_AddElement
    <3>7. ASSUME NEW q \in Active
          PROVE  /\ Cardinality({d \in Members : fanout'[q].msg \in missed'[d]}) = fanout'[q].dropped
                 /\ fanout'[q].phase = "begin" => {d \in Members : fanout'[q].msg \in missed'[d]} = {}
                 /\ fanout'[q].to \cap {d \in Members : fanout'[q].msg \in missed'[d]} = {}
      <4>1. CASE q = p
        <5>1. fanout'[p].msg = m /\ fanout'[p].phase # "begin"
          BY <2>1, <2>2 DEF m
        <5>2. fanout'[p].to \cap {d \in Members : m \in missed'[d]} = {}
          BY <2>1, <3>4, <3>5
        <5> QED BY <2>5, <3>6, <4>1, <5>1, <5>2
      <4>2. CASE q # p
        <5>1. fanout'[q] = fanout[q] /\ fanout[q].msg # m
          BY <1>0, <2>1, <3>2, <4>2
        <5>2. {d \in Members : fanout'[q].msg \in missed'[d]} = {d \in Members : fanout[q].msg \in missed[d]}
          BY <3>3, <5>1
        <5>3. Counted(q)
          BY <1>1
        <5> QED BY <5>1, <5>2, <5>3 DEF Missers
      <4> QED BY <4>1, <4>2
    <3>8. \A d \in Members : missed'[d] \subseteq spread' \cup {fanout'[q].msg : q \in Active'}
      <4>1. \A d \in Members : missed'[d] \subseteq missed[d] \cup {m}
        BY <3>1
      <4> QED BY ZenonT(30), <1>1, <2>1, <2>3, <4>1 DEF m
    <3>9. {x \in Members \X spread : x[2] \in missed'[x[1]]} = Lost
      <4>1. \A x \in Members \X spread : x[1] \in Members /\ x[2] # m
        BY <3>2
      <4>2. \A x \in Members \X spread : x[2] \in missed'[x[1]] <=> x[2] \in missed[x[1]]
        BY <3>1, <4>1
      <4> QED BY <4>2
    <3>10. droppedOut' = Cardinality({x \in Members \X spread' : x[2] \in missed'[x[1]]})
      BY <1>1, <2>1, <3>9
    <3> QED BY <2>1, <3>7, <3>8, <3>10 DEF DropsCounted, Missers
  <2> QED BY <2>1, <2>4, <2>5
<1>6. ASSUME NEW p \in Pushers, PushDone(p) PROVE DropsCounted'
  <2> DEFINE m == fanout[p].msg
  <2>1. /\ p \in Active /\ spread' = spread \cup {m}
        /\ Active' = Active \ {p} /\ \A q \in Active' : fanout'[q] = fanout[q]
        /\ droppedOut' = droppedOut + fanout[p].dropped
        /\ UNCHANGED missed
    BY <1>6, DoneEffect
  <2>2. m \notin spread /\ Cardinality({d \in Members : m \in missed[d]}) = fanout[p].dropped
    <3>1. m \notin spread
      BY <2>1 DEF FanoutOnce
    <3>2. Counted(p)
      BY <1>1, <2>1
    <3> QED BY <3>1, <3>2 DEF Missers
  <2>3. \A q \in Active' :
          /\ Cardinality(Missers(fanout'[q].msg)) = fanout'[q].dropped
          /\ fanout'[q].phase = "begin" => Missers(fanout'[q].msg) = {}
          /\ fanout'[q].to \cap Missers(fanout'[q].msg) = {}
    BY <1>1, <2>1
  <2>4. spread \cup {fanout[q].msg : q \in Active} \subseteq spread' \cup {fanout'[q].msg : q \in Active'}
    BY <2>1
  <2>5. \A c \in Members : missed'[c] \subseteq spread' \cup {fanout'[q].msg : q \in Active'}
    BY <1>1, <2>1, <2>4
  <2> HIDE DEF m
  <2>6. Cardinality({x \in Members \X (spread \cup {m}) : x[2] \in missed[x[1]]}) =
           Cardinality(Lost) + Cardinality({d \in Members : m \in missed[d]})
    BY <1>0, <2>2, PairsAdd
  <2>7. droppedOut' = Cardinality({x \in Members \X spread' : x[2] \in missed'[x[1]]})
    BY <1>1, <2>1, <2>2, <2>6
  <2> QED BY <2>1, <2>3, <2>5, <2>7 DEF DropsCounted, Missers
<1> QED BY <1>2, <1>3, <1>4, <1>5, <1>6, FanoutSteps

\* The invariant holds at the start.
LEMMA UplinkInvInit ==
  ASSUME UplinkInit
  PROVE  UplinkInv
<1>0. /\ standalone \in BOOLEAN /\ sent = [c \in Members |-> 0] /\ uplinkCh = <<>> /\ topic = <<>> /\ pushed = 0
      /\ worker = [w \in Workers |-> NoMsg] /\ late = {} /\ fanout = [p \in Pushers |-> Idle] /\ inRoom = Members
      /\ sendCh = [c \in Members |-> <<>>] /\ got = [c \in Members |-> {}] /\ missed = [c \in Members |-> {}]
      /\ spread = {} /\ lostUplink = {} /\ droppedOut = 0
  BY DEF UplinkInit
<1>1. ToSet(uplinkCh) = {} /\ ToSet(topic) = {} /\ DOMAIN uplinkCh = {} /\ DOMAIN topic = {} /\ Len(topic) = 0
  BY <1>0, EmptyToSet
<1>2. Active = {} /\ Unpublished = {}
  BY <1>0 DEF Active, Unpublished, Idle
<1>3. UplinkTypes
  <2>1. Idle \in [msg : UplinkMsgs \cup {NoMsg}, to : SUBSET Members, dropped : Nat, phase : {"idle", "begin", "send"}]
    BY DEF Idle
  <2>2. sent \in [Members -> Nat] /\ worker \in [Workers -> UplinkMsgs \cup {NoMsg}]
    BY <1>0
  <2>3. fanout \in [Pushers -> [msg : UplinkMsgs \cup {NoMsg}, to : SUBSET Members, dropped : Nat,
                                phase : {"idle", "begin", "send"}]]
    BY <1>0, <2>1
  <2>4. <<>> \in Seq(UplinkMsgs \cup {RateLimited}) /\ <<>> \in Seq(UplinkMsgs)
    OBVIOUS
  <2>5. sendCh \in [Members -> Seq(UplinkMsgs \cup {RateLimited})]
    BY <1>0, <2>4
  <2>6. IsFiniteSet(spread) /\ lostUplink \subseteq UplinkMsgs /\ DOMAIN got = Members /\ DOMAIN missed = Members
    BY <1>0, FS_EmptySet
  <2>7. pushed \in 0..Len(topic)
    BY <1>0, <1>1
  <2> QED BY <1>0, <2>2, <2>3, <2>4, <2>5, <2>6, <2>7 DEF UplinkTypes
<1>4. UplinkPath
  <2>1. \A w \in Workers : worker[w] = NoMsg
    BY <1>0
  <2> QED BY <1>0, <1>1, <1>2, <2>1 DEF UplinkPath
<1>5. DropsStayDropped
  <2>1. UnderWay = {}
    BY <1>0 DEF UnderWay
  <2> QED BY <1>0, <1>1, <2>1 DEF DropsStayDropped, OnItsWay
<1>6. FanoutOnce /\ FanoutReach
  BY <1>0, <1>2 DEF FanoutOnce, FanoutReach
<1>7. DropsCounted
  <2>1. {x \in Members \X spread : x[2] \in missed[x[1]]} = {}
    BY <1>0
  <2> QED BY <1>0, <1>2, <2>1, FS_EmptySet DEF DropsCounted
<1> QED BY <1>3, <1>4, <1>5, <1>6, <1>7 DEF UplinkInv

\* A danmu's way through one comet neither doubles it nor loses it uncounted: it is published once,
\* in its sender's order but for pairs that were under way together (with two workers, or one of them in
\* a call given up and executed late), and reaches every queue of the room or is counted as a drop
\* (onUplink, uplinkWorker, handleUplink, OnMessage, PushRoom, PushChannel).
THEOREM UplinkAccountedHolds == UplinkInit /\ [][UplinkNext]_uplinkVars => []UplinkAccounted
<1>1. UplinkInv /\ [UplinkNext]_uplinkVars => UplinkInv'
  BY UplinkTypesStep, UplinkPathStep, FanoutOnceStep, FanoutReachStep, DropsCountedStep DEF UplinkInv
<1>2. UplinkInv => UplinkAccounted
  <2> SUFFICES ASSUME UplinkInv PROVE UplinkAccounted
    OBVIOUS
  <2>1. PublishedOnceInOrder
    BY DEF UplinkInv, DropsStayDropped, OnItsWay, UplinkPath, Precedes, PublishedOnceInOrder
  <2>2. ASSUME \A p \in Pushers : fanout[p].phase = "idle"
        PROVE  droppedOut = Cardinality({x \in Members \X ToSet(topic) : x[2] \in missed[x[1]]})
    <3>1. Active = {}
      BY <2>2 DEF Active
    <3>2. \A c \in Members : missed[c] \subseteq spread
      BY <3>1 DEF UplinkInv, DropsCounted
    <3>3. {x \in Members \X ToSet(topic) : x[2] \in missed[x[1]]} = {x \in Members \X spread : x[2] \in missed[x[1]]}
      BY <3>2 DEF UplinkInv, FanoutOnce
    <3> QED BY <3>3 DEF UplinkInv, DropsCounted
  <2>3. FanoutAccounted
    BY <2>2 DEF UplinkInv, FanoutReach, FanoutAccounted
  <2> QED BY <2>1, <2>3 DEF UplinkAccounted
<1> QED BY UplinkInvInit, <1>1, <1>2, PTL

-----------------------------------------------------------------------------
(* Discovery: an instance that renews a live lease is registered under it,   *)
(* and the job's pool follows the registry.                                  *)

\* Leases are numbered from 1.
LEMMA LeaseNumbers ==
  \E n \in Nat : Leases = 1..n /\ NoLease \notin 1..n
<1>1. Cardinality(Addrs) \in Nat
  BY FS_CardinalityType, DiscoveryAssumption
<1>2. Cardinality(Addrs) + MaxFaults + MaxStops \in Nat
  BY <1>1, DiscoveryAssumption
<1> QED BY <1>2, DiscoveryAssumption DEF Leases

\* What a change of the registry does to the watcher.
LEMMA NotifyTypes ==
  ASSUME TypeOK, Notify
  PROVE  /\ UNCHANGED <<wpc, snap, pool>> /\ events' \in Nat /\ unseen' \in BOOLEAN
         /\ Watching => events' # 0
         /\ ~unseen' => ~unseen /\ wpc \notin {"apply", "open"}
<1>1. events \in Nat /\ unseen \in BOOLEAN
  BY DEF TypeOK
<1>2. events' \in Nat /\ (Watching => events' # 0)
  BY <1>1 DEF Notify
<1>3. unseen' = (unseen \/ wpc \in {"apply", "open"})
  BY DEF Notify
<1> QED BY <1>1, <1>2, <1>3 DEF Notify

-----------------------------------------------------------------------------
(* Steps of the instances that etcd does not see *)

\* The instance's own state through every such step.
LEMMA OwnSteps ==
  ASSUME TypeOK, HeldGranted, NEW a \in Addrs,
         RegisterFails(a) \/ KeepAliveClosed(a) \/ RevokeFails(a) \/ Backoff(a)
           \/ Stop(a) \/ Exit(a) \/ Crash(a) \/ Restart(a)
  PROVE  /\ UNCHANGED <<etcdVars, watchVars>>
         /\ mishaps' \in 0..MaxFaults /\ stops' \in 0..MaxStops
         /\ proc' \in [Addrs -> {"up", "stopping", "exited", "crashed"}]
         /\ \E l \in {"grant", "revoke", "backoff", "returned", pc[a]}, h \in {NoLease, held[a]} :
              /\ pc' = [pc EXCEPT ![a] = l] /\ held' = [held EXCEPT ![a] = h]
              /\ l \in {"put", "serve", "revoke"} <=> h # NoLease
              /\ l = "serve" => pc[a] = "serve" /\ h = held[a]
              /\ h # NoLease => proc'[a] \in {"up", "stopping"}
         /\ \A b \in Addrs \ {a} : proc'[b] = proc[b]
<1> DEFINE Goal ==
         /\ UNCHANGED <<etcdVars, watchVars>>
         /\ mishaps' \in 0..MaxFaults /\ stops' \in 0..MaxStops
         /\ proc' \in [Addrs -> {"up", "stopping", "exited", "crashed"}]
         /\ \E l \in {"grant", "revoke", "backoff", "returned", pc[a]}, h \in {NoLease, held[a]} :
              /\ pc' = [pc EXCEPT ![a] = l] /\ held' = [held EXCEPT ![a] = h]
              /\ l \in {"put", "serve", "revoke"} <=> h # NoLease
              /\ l = "serve" => pc[a] = "serve" /\ h = held[a]
              /\ h # NoLease => proc'[a] \in {"up", "stopping"}
         /\ \A b \in Addrs \ {a} : proc'[b] = proc[b]
<1>0. /\ proc \in [Addrs -> {"up", "stopping", "exited", "crashed"}]
      /\ pc \in [Addrs -> {"grant", "put", "serve", "revoke", "backoff", "returned"}]
      /\ held \in [Addrs -> Leases \cup {NoLease}]
      /\ pc[a] \in {"put", "serve", "revoke"} <=> held[a] # NoLease
      /\ held[a] # NoLease => proc[a] \in {"up", "stopping"}
      /\ held = [held EXCEPT ![a] = held[a]] /\ pc = [pc EXCEPT ![a] = pc[a]]
  BY DEF TypeOK, HeldGranted, Alive
<1>00. mishaps \in 0..MaxFaults /\ stops \in 0..MaxStops /\ MaxFaults \in Nat /\ MaxStops \in Nat
  BY DiscoveryAssumption DEF TypeOK
<1>01. Fault => mishaps' \in 0..MaxFaults
  BY <1>00 DEF Fault
<1>02. CallFails(a) => mishaps' \in 0..MaxFaults
  BY <1>00, <1>01 DEF CallFails
<1>1. CASE RegisterFails(a)
  BY <1>0, <1>00, <1>02, <1>1 DEF RegisterFails, Alive, Goto
<1>2. CASE KeepAliveClosed(a)
  BY <1>0, <1>00, <1>01, <1>2 DEF KeepAliveClosed, Alive, Goto
<1>3. CASE RevokeFails(a)
  BY <1>0, <1>00, <1>02, <1>3 DEF RevokeFails, Alive, Goto, AfterRegister
<1>4. CASE Backoff(a)
  BY <1>0, <1>00, <1>4 DEF Backoff, Alive, Goto, AfterRegister
<1>5. CASE Stop(a)
  <2>1. stops' \in 0..MaxStops
    BY <1>00, <1>5 DEF Stop
  <2> QED BY <1>0, <1>00, <1>5, <2>1 DEF Stop
<1>6. CASE Exit(a)
  BY <1>0, <1>00, <1>6 DEF Exit, Goto
<1>7. CASE Crash(a)
  BY <1>0, <1>00, <1>01, <1>7 DEF Crash, Goto
<1>8. CASE Restart(a)
  BY <1>0, <1>00, <1>8 DEF Restart, Alive, Goto
<1> QED BY <1>1, <1>2, <1>3, <1>4, <1>5, <1>6, <1>7, <1>8

-----------------------------------------------------------------------------
(* One lemma per kind of step *)

\* Steps of the instances that etcd does not see.
LEMMA OwnStepsKeep ==
  ASSUME DirectoryInv, NEW a \in Addrs,
         RegisterFails(a) \/ KeepAliveClosed(a) \/ RevokeFails(a) \/ Backoff(a)
           \/ Stop(a) \/ Exit(a) \/ Crash(a) \/ Restart(a)
  PROVE  DirectoryInv'
<1>0. TypeOK /\ HeldGranted /\ RegistrationStands /\ ListFollows
  BY DEF DirectoryInv
<1>1. /\ UNCHANGED <<etcdVars, watchVars>>
      /\ mishaps' \in 0..MaxFaults /\ stops' \in 0..MaxStops
      /\ proc' \in [Addrs -> {"up", "stopping", "exited", "crashed"}]
      /\ \A b \in Addrs \ {a} : proc'[b] = proc[b]
  BY <1>0, OwnSteps
<1>2. PICK l \in {"grant", "revoke", "backoff", "returned", pc[a]}, h \in {NoLease, held[a]} :
              /\ pc' = [pc EXCEPT ![a] = l] /\ held' = [held EXCEPT ![a] = h]
              /\ l \in {"put", "serve", "revoke"} <=> h # NoLease
              /\ l = "serve" => pc[a] = "serve" /\ h = held[a]
              /\ h # NoLease => proc'[a] \in {"up", "stopping"}
  BY <1>0, OwnSteps
<1>3. UNCHANGED <<leased, alive, key, wpc, snap, events, pool, unseen>>
  BY <1>1 DEF etcdVars, watchVars
<1>4. /\ pc \in [Addrs -> {"grant", "put", "serve", "revoke", "backoff", "returned"}]
      /\ held \in [Addrs -> Leases \cup {NoLease}]
      /\ \A b \in Addrs : pc[b] \in {"put", "serve", "revoke"} <=> held[b] # NoLease
  BY <1>0 DEF TypeOK
<1>5. /\ pc' \in [Addrs -> {"grant", "put", "serve", "revoke", "backoff", "returned"}]
      /\ held' \in [Addrs -> Leases \cup {NoLease}]
  BY <1>2, <1>4
<1>6. pc'[a] = l /\ held'[a] = h /\ \A b \in Addrs \ {a} : pc'[b] = pc[b] /\ held'[b] = held[b]
  BY <1>2, <1>4
<1>7. TypeOK'
  <2>1. \A b \in Addrs : pc'[b] \in {"put", "serve", "revoke"} <=> held'[b] # NoLease
    BY <1>2, <1>4, <1>6
  <2> QED BY <1>0, <1>1, <1>3, <1>5, <2>1 DEF TypeOK
<1>8. HeldGranted'
  <2> SUFFICES ASSUME NEW b \in Addrs, held'[b] # NoLease PROVE Alive(b)' /\ held'[b] <= leased'
    BY DEF HeldGranted
  <2>1. CASE b = a
    BY <1>0, <1>2, <1>3, <1>6, <2>1 DEF HeldGranted, Alive
  <2>2. CASE b # a
    BY <1>0, <1>1, <1>3, <1>6, <2>2 DEF HeldGranted, Alive
  <2> QED BY <2>1, <2>2
<1>9. RegistrationStands'
  BY <1>0, <1>2, <1>3, <1>6 DEF RegistrationStands
<1>10. ListFollows'
  BY <1>0, <1>3 DEF ListFollows, Registered
<1> QED BY <1>7, <1>8, <1>9, <1>10 DEF DirectoryInv

\* A new lease is one nobody works with.
LEMMA GrantKeeps ==
  ASSUME DirectoryInv, NEW a \in Addrs, Grant(a)
  PROVE  DirectoryInv'
<1>0. TypeOK /\ HeldGranted /\ RegistrationStands /\ ListFollows
  BY DEF DirectoryInv
<1>1. /\ pc[a] = "grant" /\ proc[a] \in {"up", "stopping"} /\ leased + 1 \in Leases
      /\ leased' = leased + 1 /\ alive' = alive \cup {leased + 1}
      /\ held' = [held EXCEPT ![a] = leased + 1] /\ pc' = [pc EXCEPT ![a] = "put"]
      /\ UNCHANGED <<key, proc, wpc, snap, events, pool, unseen, mishaps, stops>>
  BY DEF Grant, Alive, Goto, watchVars
<1>2. PICK n \in Nat : Leases = 1..n /\ NoLease \notin 1..n
  BY LeaseNumbers
<1>3. /\ leased \in Nat /\ alive \in SUBSET (1..leased) /\ leased + 1 # NoLease
      /\ pc \in [Addrs -> {"grant", "put", "serve", "revoke", "backoff", "returned"}]
      /\ held \in [Addrs -> Leases \cup {NoLease}]
      /\ \A b \in Addrs : pc[b] \in {"put", "serve", "revoke"} <=> held[b] # NoLease
  BY <1>0, <1>1, <1>2 DEF TypeOK
<1>4. /\ pc'[a] = "put" /\ held'[a] = leased + 1
      /\ \A b \in Addrs \ {a} : pc'[b] = pc[b] /\ held'[b] = held[b]
  BY <1>1, <1>3
<1>5. TypeOK'
  <2>1. leased' \in {0} \cup Leases /\ alive' \in SUBSET (1..leased')
    BY <1>1, <1>3
  <2>2. /\ pc' \in [Addrs -> {"grant", "put", "serve", "revoke", "backoff", "returned"}]
        /\ held' \in [Addrs -> Leases \cup {NoLease}]
    BY <1>1, <1>3
  <2>3. \A b \in Addrs : pc'[b] \in {"put", "serve", "revoke"} <=> held'[b] # NoLease
    BY <1>3, <1>4
  <2>4. key' \in [Addrs -> alive' \cup {NoLease}]
    BY <1>0, <1>1 DEF TypeOK
  <2> QED BY <1>0, <1>1, <2>1, <2>2, <2>3, <2>4 DEF TypeOK
<1>6. \A b \in Addrs : held[b] # NoLease => held[b] \in Nat /\ held[b] <= leased /\ Alive(b)
  BY <1>0, <1>2, <1>3 DEF HeldGranted
<1>7. HeldGranted'
  <2> SUFFICES ASSUME NEW b \in Addrs, held'[b] # NoLease PROVE Alive(b)' /\ held'[b] <= leased'
    BY DEF HeldGranted
  <2>1. CASE b = a
    BY <1>1, <1>3, <1>4, <2>1 DEF Alive
  <2>2. CASE b # a
    BY <1>1, <1>3, <1>4, <1>6, <2>2 DEF Alive
  <2> QED BY <2>1, <2>2
<1>8. RegistrationStands'
  <2> SUFFICES ASSUME NEW b \in Addrs, pc'[b] = "serve", held'[b] \in alive' PROVE key'[b] = held'[b]
    BY DEF RegistrationStands
  <2>1. b # a /\ pc[b] = "serve" /\ held'[b] = held[b] /\ held[b] # NoLease
    BY <1>3, <1>4
  <2>2. held[b] # leased + 1
    BY <1>3, <1>6, <2>1
  <2> QED BY <1>0, <1>1, <2>1, <2>2 DEF RegistrationStands
<1>9. ListFollows'
  BY <1>0, <1>1 DEF ListFollows, Registered
<1> QED BY <1>5, <1>7, <1>8, <1>9 DEF DirectoryInv

\* A change that the watcher is told of, or that is recorded as unseen.
LEMMA NotifyFollows ==
  ASSUME TypeOK, ListFollows, Notify
  PROVE  ListFollows'
  BY NotifyTypes DEF ListFollows, Watching

\* A Put binds the key of its own instance.
LEMMA PutKeeps ==
  ASSUME DirectoryInv, NEW a \in Addrs, Put(a) \/ PutAmbiguous(a)
  PROVE  DirectoryInv'
<1>0. TypeOK /\ HeldGranted /\ RegistrationStands /\ ListFollows
  BY DEF DirectoryInv
<1>1. /\ pc[a] = "put" /\ held[a] \in alive /\ key' = [key EXCEPT ![a] = held[a]] /\ Notify
      /\ UNCHANGED <<leased, alive, proc, stops>>
  BY DEF Put, PutAmbiguous
<1>2. mishaps' \in 0..MaxFaults
  <2>1. mishaps \in 0..MaxFaults /\ MaxFaults \in Nat
    BY <1>0, DiscoveryAssumption DEF TypeOK
  <2> QED BY <2>1 DEF Put, PutAmbiguous, CallFails, Fault
<1>3. \/ pc' = [pc EXCEPT ![a] = "serve"] /\ held' = held
      \/ pc' = [pc EXCEPT ![a] = "backoff"] /\ held' = [held EXCEPT ![a] = NoLease]
  BY DEF Put, PutAmbiguous, Goto
<1>4. /\ pc \in [Addrs -> {"grant", "put", "serve", "revoke", "backoff", "returned"}]
      /\ held \in [Addrs -> Leases \cup {NoLease}] /\ key \in [Addrs -> alive \cup {NoLease}]
      /\ \A b \in Addrs : pc[b] \in {"put", "serve", "revoke"} <=> held[b] # NoLease
  BY <1>0 DEF TypeOK
<1>5. /\ key'[a] = held[a] /\ \A b \in Addrs \ {a} : key'[b] = key[b]
      /\ \A b \in Addrs \ {a} : pc'[b] = pc[b] /\ held'[b] = held[b]
      /\ \/ pc'[a] = "serve" /\ held'[a] = held[a]
         \/ pc'[a] = "backoff" /\ held'[a] = NoLease
  BY <1>1, <1>3, <1>4
<1>6. TypeOK'
  <2>1. /\ pc' \in [Addrs -> {"grant", "put", "serve", "revoke", "backoff", "returned"}]
        /\ held' \in [Addrs -> Leases \cup {NoLease}]
    BY <1>3, <1>4
  <2>2. key' \in [Addrs -> alive' \cup {NoLease}]
    BY <1>1, <1>4
  <2>3. \A b \in Addrs : pc'[b] \in {"put", "serve", "revoke"} <=> held'[b] # NoLease
    BY <1>1, <1>4, <1>5
  <2>4. UNCHANGED <<wpc, snap, pool>> /\ events' \in Nat /\ unseen' \in BOOLEAN
    BY <1>0, <1>1, NotifyTypes
  <2> QED BY <1>0, <1>1, <1>2, <2>1, <2>2, <2>3, <2>4 DEF TypeOK
<1>7. HeldGranted'
  BY <1>0, <1>1, <1>5 DEF HeldGranted, Alive
<1>8. RegistrationStands'
  <2> SUFFICES ASSUME NEW b \in Addrs, pc'[b] = "serve", held'[b] \in alive' PROVE key'[b] = held'[b]
    BY DEF RegistrationStands
  <2>1. CASE b = a
    BY <1>5, <2>1
  <2>2. CASE b # a
    BY <1>0, <1>1, <1>5, <2>2 DEF RegistrationStands
  <2> QED BY <2>1, <2>2
<1>9. ListFollows'
  BY <1>0, <1>1, NotifyFollows
<1> QED BY <1>6, <1>7, <1>8, <1>9 DEF DirectoryInv

\* A lease that lapses or is revoked takes along only the keys bound to it.
LEMMA DropKeeps ==
  ASSUME DirectoryInv, NEW l \in Leases, Drop(l)
  PROVE  /\ leased' = leased /\ alive' \in SUBSET (1..leased) /\ alive' \subseteq alive
         /\ key' \in [Addrs -> alive' \cup {NoLease}]
         /\ \A a \in Addrs : pc[a] = "serve" /\ held[a] \in alive' => key'[a] = held[a]
         /\ wpc' = wpc /\ snap' = snap /\ pool' = pool /\ events' \in Nat /\ unseen' \in BOOLEAN
         /\ ListFollows'
<1>0. TypeOK /\ HeldGranted /\ RegistrationStands /\ ListFollows
  BY DEF DirectoryInv
<1>1. /\ alive' = alive \ {l} /\ leased' = leased
      /\ key' = [a \in Addrs |-> IF key[a] = l THEN NoLease ELSE key[a]]
      /\ IF \E a \in Addrs : key[a] = l THEN Notify ELSE UNCHANGED watchVars
  BY DEF Drop
<1>2. alive \in SUBSET (1..leased) /\ key \in [Addrs -> alive \cup {NoLease}]
  BY <1>0 DEF TypeOK
<1>3. key' \in [Addrs -> alive' \cup {NoLease}]
  BY <1>1, <1>2
<1>4. \A a \in Addrs : pc[a] = "serve" /\ held[a] \in alive' => key'[a] = held[a]
  BY <1>0, <1>1 DEF RegistrationStands
<1>5. wpc' = wpc /\ snap' = snap /\ pool' = pool /\ events' \in Nat /\ unseen' \in BOOLEAN /\ ListFollows'
  <2>1. CASE \E a \in Addrs : key[a] = l
    BY <1>0, <1>1, <2>1, NotifyTypes, NotifyFollows
  <2>2. CASE \A a \in Addrs : key[a] # l
    <3>1. UNCHANGED <<wpc, snap, events, pool, unseen>>
      BY <1>1, <2>2 DEF watchVars
    <3>2. key' = key
      BY <1>1, <1>2, <2>2
    <3> QED BY <1>0, <3>1, <3>2 DEF TypeOK, ListFollows, Registered
  <2> QED BY <2>1, <2>2
<1> QED BY <1>1, <1>2, <1>3, <1>4, <1>5

\* The deferred Revoke.
LEMMA RevokeKeeps ==
  ASSUME DirectoryInv, NEW a \in Addrs, Revoke(a)
  PROVE  DirectoryInv'
<1>0. TypeOK /\ HeldGranted
  BY DEF DirectoryInv
<1>1. /\ pc[a] = "revoke" /\ Drop(held[a]) /\ held' = [held EXCEPT ![a] = NoLease]
      /\ \E p \in {"returned", "grant"} : pc' = [pc EXCEPT ![a] = p]
      /\ UNCHANGED <<proc, mishaps, stops>>
  BY DEF Revoke, Goto, AfterRegister
<1>2. /\ pc \in [Addrs -> {"grant", "put", "serve", "revoke", "backoff", "returned"}]
      /\ held \in [Addrs -> Leases \cup {NoLease}]
      /\ \A b \in Addrs : pc[b] \in {"put", "serve", "revoke"} <=> held[b] # NoLease
  BY <1>0 DEF TypeOK
<1>3. held[a] \in Leases
  BY <1>1, <1>2
<1>4. /\ leased' = leased /\ alive' \in SUBSET (1..leased)
      /\ key' \in [Addrs -> alive' \cup {NoLease}]
      /\ \A b \in Addrs : pc[b] = "serve" /\ held[b] \in alive' => key'[b] = held[b]
      /\ wpc' = wpc /\ snap' = snap /\ pool' = pool /\ events' \in Nat /\ unseen' \in BOOLEAN
      /\ ListFollows'
  BY <1>1, <1>3, DropKeeps
<1>5. /\ pc'[a] \in {"returned", "grant"} /\ held'[a] = NoLease
      /\ \A b \in Addrs \ {a} : pc'[b] = pc[b] /\ held'[b] = held[b]
      /\ pc' \in [Addrs -> {"grant", "put", "serve", "revoke", "backoff", "returned"}]
      /\ held' \in [Addrs -> Leases \cup {NoLease}]
  BY <1>1, <1>2
<1>6. \A b \in Addrs : pc'[b] \in {"put", "serve", "revoke"} <=> held'[b] # NoLease
  BY <1>2, <1>5
<1>7. TypeOK'
  BY <1>0, <1>1, <1>4, <1>5, <1>6 DEF TypeOK
<1>8. HeldGranted'
  BY <1>0, <1>1, <1>4, <1>5 DEF HeldGranted, Alive
<1>9. RegistrationStands'
  BY <1>4, <1>5 DEF RegistrationStands
<1> QED BY <1>4, <1>7, <1>8, <1>9 DEF DirectoryInv

\* A lease lapses at etcd.
LEMMA ExpiryKeeps ==
  ASSUME DirectoryInv, NEW l \in Leases, LeaseExpires(l)
  PROVE  DirectoryInv'
<1>0. TypeOK /\ HeldGranted
  BY DEF DirectoryInv
<1>1. Drop(l) /\ UNCHANGED <<proc, pc, held, stops>>
  BY DEF LeaseExpires, instVars
<1>2. mishaps' \in 0..MaxFaults
  <2>1. mishaps \in 0..MaxFaults /\ MaxFaults \in Nat
    BY <1>0, DiscoveryAssumption DEF TypeOK
  <2> QED BY <2>1 DEF LeaseExpires, Fault
<1>3. /\ leased' = leased /\ alive' \in SUBSET (1..leased)
      /\ key' \in [Addrs -> alive' \cup {NoLease}]
      /\ \A b \in Addrs : pc[b] = "serve" /\ held[b] \in alive' => key'[b] = held[b]
      /\ wpc' = wpc /\ snap' = snap /\ pool' = pool /\ events' \in Nat /\ unseen' \in BOOLEAN
      /\ ListFollows'
  BY <1>1, DropKeeps
<1>4. TypeOK'
  BY <1>0, <1>1, <1>2, <1>3 DEF TypeOK
<1>5. HeldGranted'
  BY <1>0, <1>1, <1>3 DEF HeldGranted, Alive
<1>6. RegistrationStands'
  BY <1>1, <1>3 DEF RegistrationStands
<1> QED BY <1>3, <1>4, <1>5, <1>6 DEF DirectoryInv

\* cometPool.apply leaves exactly the listed instances in the pool.
LEMMA PoolAfterIsList == \A p, addrs : PoolAfter(p, addrs) = addrs
  BY DEF PoolAfter

\* The watcher's own steps.
LEMMA WatcherKeeps ==
  ASSUME DirectoryInv, WatchStep \/ ListFails \/ WatchCloses
  PROVE  DirectoryInv'
<1>0. TypeOK /\ HeldGranted /\ RegistrationStands /\ ListFollows
  BY DEF DirectoryInv
<1>1. UNCHANGED <<etcdVars, instVars, stops>>
  BY DEF WatchStep, List, Apply, OpenWatch, WatchResponse, ListFails, WatchCloses
<1>2. UNCHANGED <<leased, alive, key, proc, pc, held, stops>>
  BY <1>1 DEF etcdVars, instVars
<1>3. Registered' = Registered /\ Registered \in SUBSET Addrs
  BY <1>2 DEF Registered
<1>4. mishaps \in 0..MaxFaults /\ MaxFaults \in Nat /\ events \in Nat /\ unseen \in BOOLEAN
  BY <1>0, DiscoveryAssumption DEF TypeOK
<1>5. /\ wpc' \in {"list", "apply", "open", "watch", "relist", "reapply", "returned"}
      /\ snap' \in SUBSET Addrs /\ pool' \in SUBSET Addrs
      /\ events' \in Nat /\ unseen' \in BOOLEAN /\ mishaps' \in 0..MaxFaults
      /\ ListFollows'
  <2>1. CASE List
    BY <1>0, <1>3, <1>4, <2>1 DEF List, AfterList, ListFollows, TypeOK
  <2>2. CASE ListFails
    BY <1>0, <1>3, <1>4, <2>2 DEF ListFails, AfterApply, ListFollows, TypeOK, Fault
  <2>3. CASE Apply
    <3>1. pool' = snap
      BY <2>3, PoolAfterIsList DEF Apply
    <3> QED BY <1>0, <1>3, <1>4, <2>3, <3>1 DEF Apply, AfterApply, ListFollows, TypeOK
  <2>4. CASE OpenWatch
    BY <1>0, <1>3, <1>4, <2>4 DEF OpenWatch, ListFollows, TypeOK
  <2>5. CASE WatchResponse
    BY <1>0, <1>3, <1>4, <2>5 DEF WatchResponse, ListFollows, TypeOK
  <2>6. CASE WatchCloses
    BY <1>0, <1>3, <1>4, <2>6 DEF WatchCloses, ListFollows, TypeOK, Fault
  <2> QED BY <2>1, <2>2, <2>3, <2>4, <2>5, <2>6 DEF WatchStep
<1>6. TypeOK'
  BY <1>0, <1>2, <1>5 DEF TypeOK
<1>7. HeldGranted' /\ RegistrationStands'
  BY <1>0, <1>2 DEF HeldGranted, Alive, RegistrationStands
<1> QED BY <1>5, <1>6, <1>7 DEF DirectoryInv

\* The invariant holds in every behaviour.
LEMMA DirectoryInvHolds == Spec => []DirectoryInv
<1>1. Init => DirectoryInv
  <2> SUFFICES ASSUME Init PROVE DirectoryInv
    OBVIOUS
  <2>1. TypeOK
    <3>1. 0 \in 0..MaxFaults /\ 0 \in 0..MaxStops
      BY DiscoveryAssumption
    <3>2. \A a \in Addrs : pc[a] = "grant" /\ held[a] = NoLease
      BY DEF Init
    <3>3. key \in [Addrs -> alive \cup {NoLease}] /\ held \in [Addrs -> Leases \cup {NoLease}]
      BY DEF Init
    <3> QED BY <3>1, <3>2, <3>3 DEF Init, TypeOK
  <2>2. HeldGranted /\ RegistrationStands /\ ListFollows
    BY DEF Init, HeldGranted, RegistrationStands, ListFollows
  <2> QED BY <2>1, <2>2 DEF DirectoryInv
<1>2. DirectoryInv /\ [Next]_vars => DirectoryInv'
  <2> SUFFICES ASSUME DirectoryInv, [Next]_vars PROVE DirectoryInv'
    OBVIOUS
  <2>1. CASE UNCHANGED vars
    BY <2>1 DEF vars, etcdVars, instVars, watchVars, DirectoryInv, TypeOK, HeldGranted, Alive,
                RegistrationStands, ListFollows, Registered
  <2>2. ASSUME NEW a \in Addrs, RegisterStep(a) \/ CallFailure(a) PROVE DirectoryInv'
    BY <2>2, OwnStepsKeep, GrantKeeps, PutKeeps, RevokeKeeps DEF RegisterStep, CallFailure
  <2>3. ASSUME NEW a \in Addrs, Stop(a) \/ Exit(a) \/ Crash(a) \/ Restart(a) PROVE DirectoryInv'
    BY <2>3, OwnStepsKeep
  <2> QED BY <2>1, <2>2, <2>3, ExpiryKeeps, WatcherKeeps DEF Next
<1> QED BY <1>1, <1>2, PTL DEF Spec

\* Every variable of the registry, the instances and the watcher has its type (etcdreg.go, job/main.go).
THEOREM DiscoveryTypeCorrect == Spec => []TypeOK
<1>1. DirectoryInv => TypeOK
  BY DEF DirectoryInv
<1> QED BY <1>1, DirectoryInvHolds, PTL

\* An instance that renews a live lease is registered under it, and a pool with no unread response is
\* the registry unless a list failed or a change came before the watch; for any number of instances,
\* leases, crashes and failed calls (etcdreg.go Register, KeepAlive, Watch; job/main.go cometPool.apply).
THEOREM DirectoryCurrentHolds == Spec => []DirectoryCurrent
<1>1. DirectoryInv => DirectoryCurrent
  BY DEF DirectoryInv, DirectoryCurrent, PoolCurrent, ListFollows
<1> QED BY <1>1, DirectoryInvHolds, PTL
=============================================================================
