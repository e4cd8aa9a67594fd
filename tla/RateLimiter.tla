----------------------------- MODULE RateLimiter -----------------------------
(***************************************************************************)
(* The fixed-window rate limiter in front of the HTTP routes, the MCP tools *)
(* and the bots.  A request computes the number of the current window from  *)
(* the clock and increments a Redis counter named for its caller and that   *)
(* window; the first one sets the counter's time to live, every one reads   *)
(* it and sets it again when it is missing.  A count beyond the limit is    *)
(* answered 429.  Each call to Redis may fail, requests of one caller       *)
(* interleave between the calls, and the client sends a command again when  *)
(* its answer does not come in time: Redis may execute both, the first one  *)
(* at any later moment.                                                     *)
(*                                                                         *)
(* The module is about one caller and one route, tool or workspace: the     *)
(* others have counters of their own.  The processes that serve the caller  *)
(* and Redis are assumed to read one clock.                                 *)
(***************************************************************************)
EXTENDS Naturals, FiniteSets

CONSTANTS
  Requests,   \* the requests the caller makes
  Limit,      \* _scope_limit, mcp_rate_limit_requests, rate_limit_bot_requests
  Length,     \* rate_limit_window_seconds, in ticks of the clock
  MaxWindow,  \* bound: the last window in which a request arrives
  FailClosed, \* rate_limit_redis_failure_mode
  Sends,      \* how often the client sends a command that times out
  MaxLate,    \* bound: late commands of a window at one time
  Faults      \* {"redis"} when calls to Redis may fail or time out

ASSUME RateLimiterAssumption ==
  /\ IsFiniteSet(Requests)
  /\ Limit \in Nat
  /\ Length \in Nat \ {0}
  /\ MaxWindow \in Nat
  /\ FailClosed \in BOOLEAN
  /\ Sends \in Nat \ {0}
  /\ MaxLate \in Nat

VARIABLES
  window,  \* the number of the current window
  tick,    \* ticks since it began
  counter, \* each window's key in Redis
  late,    \* commands Redis is yet to execute, and nobody waits for
  request  \* each request

vars == <<window, tick, counter, late, request>>

Windows == 0..MaxWindow

\* A count of 0 is a key that does not exist, a ttl of 0 a key without one.
Counter == [count: Nat, ttl: 0..Length]
NoKey == [count |-> 0, ttl |-> 0]

Late == {"INCR", "EXPIRE"} \X Windows

\* prompt: whether the request was counted before its window was over; sent: how
\* often its INCR was sent; tries: how often the command it waits for timed out.
Request ==
  [pc: {"none", "incr", "expire", "ttl", "renew", "decide",
        "admitted", "limited", "unlimited", "unavailable"},
   window: Windows, count: Nat, prompt: BOOLEAN, sent: 0..Sends, tries: 0..(Sends - 1)]

TypeOK ==
  /\ window \in 0..(MaxWindow + 1)
  /\ tick \in 0..(Length - 1)
  /\ counter \in [Windows -> Counter]
  /\ late \in [Late -> Nat]
  /\ request \in [Requests -> Request]
  /\ \A w \in Windows : counter[w].count = 0 => counter[w].ttl = 0

Init ==
  /\ window = 0
  /\ tick = 0
  /\ counter = [w \in Windows |-> NoKey]
  /\ late = [c \in Late |-> 0]
  /\ request = [r \in Requests |->
                  [pc |-> "none", window |-> 0, count |-> 0, prompt |-> FALSE,
                   sent |-> 0, tries |-> 0]]

----------------------------------------------------------------------------
(* The Redis commands, on the key of a window.                             *)

INCR(w) == counter' = [counter EXCEPT ![w].count = @ + 1]

\* Mutant: the key lives for less than a window.
EXPIREShort(w) ==
  counter' = [counter EXCEPT ![w].ttl = IF counter[w].count = 0 THEN 0 ELSE Length - 1]

\* Mutant: the time to live of a missing key.
EXPIREMissing(w) == counter' = [counter EXCEPT ![w].ttl = Length]

EXPIRE(w) ==
  counter' = [counter EXCEPT ![w].ttl = IF counter[w].count = 0 THEN 0 ELSE Length]

\* What TTL may answer, 0 for a key that is missing or has none: Redis rounds.
TTL(w) == IF counter[w].ttl = 1 THEN {0, 1} ELSE {counter[w].ttl}

Aged(c) == IF c.ttl = 1 THEN NoKey
           ELSE [c EXCEPT !.ttl = IF @ = 0 THEN 0 ELSE @ - 1]

\* Time passes; after the last window for the keys only.
Tick ==
  /\ counter' = [w \in Windows |-> Aged(counter[w])]
  /\ IF tick + 1 < Length
       THEN tick' = tick + 1 /\ UNCHANGED window
       ELSE IF window \in Windows
              THEN tick' = 0 /\ window' = window + 1
              ELSE UNCHANGED <<tick, window>>
  /\ UNCHANGED <<late, request>>

\* Redis executes a command after its client has given up waiting for the answer.
ExecuteLate(w) ==
  \E name \in {"INCR", "EXPIRE"} :
    /\ late[<<name, w>>] > 0
    /\ late' = [late EXCEPT ![<<name, w>>] = @ - 1]
    /\ IF name = "INCR" THEN INCR(w) ELSE EXPIRE(w)
    /\ UNCHANGED <<window, tick, request>>

----------------------------------------------------------------------------
(* A request.                                                              *)

At(r, pc) == request[r].pc = pc

Key(r) == request[r].window

Goto(r, pc) == request' = [request EXCEPT ![r].pc = pc, ![r].tries = 0]

Arrive(r) ==
  /\ At(r, "none") /\ window \in Windows
  /\ request' = [request EXCEPT ![r].pc = "incr", ![r].window = window]
  /\ UNCHANGED <<window, tick, counter, late>>

\* The INCR whose answer the request gets, n.
Counts(r, n) ==
  request' = [request EXCEPT ![r] =
                [@ EXCEPT !.pc = IF n = 1 THEN "expire" ELSE "ttl", !.count = n,
                          !.prompt = window = Key(r), !.sent = request[r].tries + 1,
                          !.tries = 0]]

\* Mutant: one counter for all windows.
IncrementAcross(r) ==
  /\ At(r, "incr")
  /\ INCR(0)
  /\ Counts(r, counter[0].count + 1)
  /\ UNCHANGED <<window, tick, late>>

Increment(r) ==
  /\ At(r, "incr")
  /\ INCR(Key(r))
  /\ Counts(r, counter[Key(r)].count + 1)
  /\ UNCHANGED <<window, tick, late>>

SetTtl(r) ==
  /\ At(r, "expire")
  /\ EXPIRE(Key(r))
  /\ Goto(r, "ttl")
  /\ UNCHANGED <<window, tick, late>>

\* Mutant: a missing time to live is left missing.
ReadTtlOnly(r) ==
  /\ At(r, "ttl")
  /\ Goto(r, "decide")
  /\ UNCHANGED <<window, tick, counter, late>>

ReadTtl(r) ==
  /\ At(r, "ttl")
  /\ \E t \in TTL(Key(r)) : Goto(r, IF t = 0 THEN "renew" ELSE "decide")
  /\ UNCHANGED <<window, tick, counter, late>>

RenewTtl(r) ==
  /\ At(r, "renew")
  /\ EXPIRE(Key(r))
  /\ Goto(r, "decide")
  /\ UNCHANGED <<window, tick, late>>

\* Mutant: the decision reads the counter again instead of what INCR answered.
DecideAgain(r) ==
  /\ At(r, "decide")
  /\ Goto(r, IF counter[Key(r)].count > Limit THEN "limited" ELSE "admitted")
  /\ UNCHANGED <<window, tick, counter, late>>

Decide(r) ==
  /\ At(r, "decide")
  /\ Goto(r, IF request[r].count > Limit THEN "limited" ELSE "admitted")
  /\ UNCHANGED <<window, tick, counter, late>>

\* The command that a request waits for is lost, or Redis executes it later.
GivesUp(r, name) ==
  /\ \/ UNCHANGED late
     \/ /\ late[<<"INCR", Key(r)>>] + late[<<"EXPIRE", Key(r)>>] < MaxLate
        /\ late' = [late EXCEPT ![<<name, Key(r)>>] = @ + 1]
  /\ UNCHANGED <<window, tick, counter>>

\* The answer is late, and the client sends the command again.
TimesOut(r) ==
  /\ "redis" \in Faults /\ request[r].tries + 1 < Sends
  /\ \/ /\ At(r, "incr")
        /\ request' = [request EXCEPT ![r].tries = @ + 1, ![r].sent = request[r].tries + 1]
        /\ GivesUp(r, "INCR")
     \/ /\ request[r].pc \in {"expire", "renew"}
        /\ request' = [request EXCEPT ![r].tries = @ + 1]
        /\ GivesUp(r, "EXPIRE")

\* A call fails for good, and so it does without a client; a process that dies
\* leaves Redis the same.
RedisFails(r) ==
  /\ "redis" \in Faults
  /\ \/ At(r, "incr") /\ GivesUp(r, "INCR")
     \/ request[r].pc \in {"expire", "renew"} /\ GivesUp(r, "EXPIRE")
     \/ At(r, "ttl") /\ UNCHANGED <<window, tick, counter, late>>
  /\ request' = [request EXCEPT ![r] =
                   [@ EXCEPT !.pc = IF FailClosed THEN "unavailable" ELSE "unlimited",
                             !.count = 0, !.prompt = FALSE, !.tries = 0,
                             !.sent = IF At(r, "incr") THEN request[r].tries + 1
                                      ELSE request[r].sent]]

----------------------------------------------------------------------------
RequestStep(r) == Increment(r) \/ SetTtl(r) \/ ReadTtl(r) \/ RenewTtl(r) \/ Decide(r)

Next ==
  \/ Tick
  \/ \E w \in Windows : ExecuteLate(w)
  \/ \E r \in Requests : Arrive(r) \/ RequestStep(r) \/ TimesOut(r) \/ RedisFails(r)

Spec == Init /\ [][Next]_vars

\* Time passes and the requests that arrive go on.
FairSpec == Spec /\ WF_vars(Tick) /\ \A r \in Requests : WF_vars(RequestStep(r))

----------------------------------------------------------------------------
(* Properties.                                                             *)

\* A key in which requests of the running window are counted exists until the
\* window is over: a counter never starts again within its window.
KeyOutlivesWindow ==
  window \in Windows /\ counter[window].ttl # 0 => counter[window].ttl >= Length - tick

Admitted(w) == {r \in Requests : At(r, "admitted") /\ request[r].prompt /\ Key(r) = w}

\* However the requests' calls interleave and fail, a window admits no more than
\* the limit: of those counted before it was over, and of those Redis answered.
WindowLimit == \A w \in Windows : Cardinality(Admitted(w)) <= Limit

\* The INCRs that the requests of a window sent, those sent again included.
Sent(w) == {c \in Requests \X (1..Sends) : Key(c[1]) = w /\ c[2] <= request[c[1]].sent}

\* A caller is refused only after its requests of that window sent more INCRs than
\* the limit: what is lost, late or repeated counts once for each time it was sent,
\* and nothing is counted in another window's place.
NoEarlyRefusal ==
  \A r \in Requests : At(r, "limited") => Cardinality(Sent(Key(r))) > Limit

\* Once one request of the running window has read or renewed the time to live of
\* its key, the key goes, whatever happened to the request that should have set it.
KeyExpires ==
  \A r \in Requests :
    At(r, "decide") /\ window = Key(r) ~> counter[Key(r)] = NoKey

\* What a request has been told, and what it will be told once it is counted.
ClaimOf(q) ==
  [sent |-> q.sent,
   phase |-> CASE q.pc = "none" -> "none"
               [] q.pc = "incr" -> "asked"
               [] q.pc \in {"expire", "ttl", "renew", "decide"} -> "judged"
               [] q.pc \in {"admitted", "limited"} -> "answered"
               [] OTHER -> "lost",
   window |-> q.window,
   pass |-> CASE q.pc \in {"expire", "ttl", "renew", "decide"} -> q.count <= Limit
              [] OTHER -> q.pc = "admitted"]

Atomic ==
  INSTANCE AtomicLimiter WITH
    used <- [w \in Windows |-> counter[w].count],
    due <- [w \in Windows |-> late[<<"INCR", w>>]],
    claim <- [r \in Requests |-> ClaimOf(request[r])]

\* The calls of a request, with those of others between them and a time to live of
\* whole ticks, do what counting and judging in one step would: the answer rests on
\* the count of the last INCR, each INCR counts once or never, and a count is lost
\* only with its window.
ImplementsAtomicLimiter == Atomic!Spec
=============================================================================
