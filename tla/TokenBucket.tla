---------------------------- MODULE TokenBucket ----------------------------
(***************************************************************************)
(* The lock-free token bucket (core/ratelimit.go, monolith ratelimit.go).  *)
(* Tokens and the time of the last refill are packed into one word that a  *)
(* caller of Allow loads, recomputes from the clock and compares and swaps.*)
(* The stored time is a count that wraps at ClockWrap (2^32 milliseconds   *)
(* in the code). Tokens are fixed point: one token is TokenUnit (1000).    *)
(***************************************************************************)
EXTENDS Integers

CONSTANTS
  Callers,
  Rate, Capacity,   \* rate: fixed-point tokens per tick of the clock
  TokenUnit, ClockWrap,
  MaxTicks          \* bound: how far the clock runs

ASSUME TokenBucketAssumption ==
  /\ Rate \in Nat /\ Capacity \in Nat /\ MaxTicks \in Nat
  /\ TokenUnit \in Nat \ {0} /\ ClockWrap \in Nat \ {0}

VARIABLES
  bucket,     \* state: tokens and the low bits of the time
  clock,      \* milliseconds since createdAt, unwrapped
  allow,      \* per caller: where it is in Allow, what it loaded and when, what it computed
  grants,     \* history: calls that returned true
  granted     \* history: the unwrapped time of the last refill

tokenVars == <<bucket, clock, allow, grants, granted>>

AllowStart == [pc |-> "start", old |-> [tokens |-> 0, ms |-> 0], tokens |-> 0, ms |-> 0, since |-> 0, at |-> 0]

TokenInit ==
  /\ bucket = [tokens |-> Capacity * TokenUnit, ms |-> 0]
  /\ clock = 0
  /\ allow = [c \in Callers |-> AllowStart]
  /\ grants = 0 /\ granted = 0

\* What ratelimit.go:15 takes for granted: calls last, and grants are apart, less than half a wrap of
\* the stored time (24.8 days). Otherwise a swap may meet the same word a wrap later.
Tick ==
  /\ clock < MaxTicks
  /\ \A c \in Callers : allow[c].pc # "start" => 2 * (clock + 1 - allow[c].since) < ClockWrap
  /\ 2 * (clock + 1 - granted) <= ClockWrap
  /\ clock' = clock + 1
  /\ UNCHANGED <<bucket, allow, grants, granted>>

AllowLoad(c) ==
  /\ allow[c].pc = "start"
  /\ allow' = [allow EXCEPT ![c].pc = "loaded", ![c].old = bucket, ![c].since = clock]
  /\ UNCHANGED <<bucket, clock, grants, granted>>

\* Tokens after the refill: the difference of the wrapped times wraps too.
Refilled(old, ms) ==
  LET new == old.tokens + ((ms - old.ms) % ClockWrap) * Rate
  IN IF new > Capacity * TokenUnit THEN Capacity * TokenUnit ELSE new

AllowRefused(c) ==
  /\ allow[c].pc = "loaded" /\ Refilled(allow[c].old, clock % ClockWrap) < TokenUnit
  /\ allow' = [allow EXCEPT ![c] = AllowStart]
  /\ UNCHANGED <<bucket, clock, grants, granted>>

AllowCompute(c) ==
  /\ allow[c].pc = "loaded"
  /\ LET ms == clock % ClockWrap
         new == Refilled(allow[c].old, ms)
     IN /\ new >= TokenUnit
        /\ allow' = [allow EXCEPT ![c].pc = "cas", ![c].tokens = new - TokenUnit, ![c].ms = ms, ![c].at = clock]
  /\ UNCHANGED <<bucket, clock, grants, granted>>

\* Mutant: tokens and time are two words and only the tokens are compared.
SwapTokensOnly(c) ==
  /\ allow[c].pc = "cas" /\ bucket.tokens = allow[c].old.tokens
  /\ bucket' = [tokens |-> allow[c].tokens, ms |-> allow[c].ms]
  /\ grants' = grants + 1 /\ granted' = allow[c].at
  /\ allow' = [allow EXCEPT ![c] = AllowStart]
  /\ UNCHANGED clock

AllowSwap(c) ==
  /\ allow[c].pc = "cas" /\ bucket = allow[c].old
  /\ bucket' = [tokens |-> allow[c].tokens, ms |-> allow[c].ms]
  /\ grants' = grants + 1 /\ granted' = allow[c].at
  /\ allow' = [allow EXCEPT ![c] = AllowStart]
  /\ UNCHANGED clock

AllowRetry(c) ==
  /\ allow[c].pc = "cas" /\ bucket # allow[c].old
  /\ allow' = [allow EXCEPT ![c] = AllowStart]
  /\ UNCHANGED <<bucket, clock, grants, granted>>

TokenNext ==
  \/ Tick
  \/ \E c \in Callers : AllowLoad(c) \/ AllowRefused(c) \/ AllowCompute(c) \/ AllowSwap(c) \/ AllowRetry(c)

TokenSpec == TokenInit /\ [][TokenNext]_tokenVars

----------------------------------------------------------------------------
\* BucketBound: however the calls of Allow interleave and however often the stored time wraps, the
\* calls let through never exceed the capacity and what the rate has refilled since creation.
BucketBound == grants * TokenUnit <= Capacity * TokenUnit + Rate * clock

(* The inductive invariant behind BucketBound. *)

StoredWords == [tokens : Nat, ms : Nat]
Calls == [pc : {"start", "loaded", "cas"}, old : StoredWords, tokens : Nat, ms : Nat, since : Nat, at : Nat]

TokenTypeOK ==
  /\ bucket \in StoredWords /\ clock \in Nat /\ grants \in Nat /\ granted \in Nat
  /\ allow \in [Callers -> Calls]

\* The word's time is that of the last grant, less than a wrap ago, and what it holds was not yet spent.
WordCurrent ==
  /\ granted <= clock /\ 2 * (clock - granted) <= ClockWrap
  /\ bucket.ms = granted % ClockWrap
  /\ bucket.tokens + grants * TokenUnit <= Capacity * TokenUnit + Rate * granted

\* A call under way loaded a word less than a wrap old, and has computed from that word.
CallFresh(c) ==
  LET call == allow[c]
  IN /\ call.since <= clock /\ 2 * (clock - call.since) < ClockWrap
     /\ \E g \in 0..call.since : call.old.ms = g % ClockWrap /\ 2 * (call.since - g) <= ClockWrap
     /\ call.pc = "cas" =>
          /\ call.since <= call.at /\ call.at <= clock
          /\ call.ms = call.at % ClockWrap
          /\ call.tokens = Refilled(call.old, call.ms) - TokenUnit

TokenInv == TokenTypeOK /\ WordCurrent /\ \A c \in Callers : allow[c].pc # "start" => CallFresh(c)
=============================================================================
