-------------------------- MODULE RateLimiterProofs --------------------------
(***************************************************************************)
(* What holds of the rate limiter for any number of requests, any limit and *)
(* any window length.  Within a window the counter of the window never      *)
(* starts again, so the counts it hands out are distinct; the requests it   *)
(* admits then have distinct counts between 1 and the limit.                *)
(***************************************************************************)
EXTENDS RateLimiter, FiniteSetTheorems, TLAPS

\* No request is of a window that has not come.
Past == \A r \in Requests : Key(r) <= window

\* No key is of one either, and no command.
Unborn ==
  \A w \in Windows :
    w > window => counter[w] = NoKey /\ late[<<"INCR", w>>] = 0 /\ late[<<"EXPIRE", w>>] = 0

\* Every count was handed out by the counter, whose value it does not exceed as
\* long as the window runs.
Counted ==
  \A r \in Requests :
    request[r].prompt =>
      /\ request[r].count >= 1
      /\ Key(r) = window => request[r].count <= counter[window].count

Distinct ==
  \A r, x \in Requests :
    request[r].prompt /\ request[x].prompt /\ Key(r) = Key(x)
      /\ request[r].count = request[x].count => r = x

WithinLimit == \A r \in Requests : At(r, "admitted") => request[r].count <= Limit

\* Until its INCR is answered, all a request has sent are INCRs.
Fresh ==
  \A r \in Requests :
    /\ request[r].pc \in {"none", "incr"} =>
         ~request[r].prompt /\ request[r].sent = request[r].tries
    /\ At(r, "none") => request[r].sent = 0

Inv ==
  /\ TypeOK /\ KeyOutlivesWindow
  /\ Past /\ Unborn /\ Counted /\ Distinct /\ WithinLimit /\ Fresh

USE RateLimiterAssumption DEF Windows, Counter, Request, Key, At

LEMMA LateKeys == \A w \in Windows : <<"INCR", w>> \in Late /\ <<"EXPIRE", w>> \in Late
BY DEF Late

LEMMA InitInv == Init => Inv
<1> SUFFICES ASSUME Init PROVE Inv
  OBVIOUS
<1>1. NoKey \in Counter
  BY DEF NoKey
<1>2. TypeOK
  BY <1>1 DEF Init, TypeOK, NoKey
<1>3. KeyOutlivesWindow
  BY DEF Init, KeyOutlivesWindow, NoKey
<1>4. Unborn
  BY LateKeys DEF Init, Unborn
<1>5. Past /\ Counted /\ Distinct /\ WithinLimit /\ Fresh
  BY DEF Init, Past, Counted, Distinct, WithinLimit, Fresh
<1> QED BY <1>2, <1>3, <1>4, <1>5 DEF Inv

\* What EXPIRE leaves of a counter.
LEMMA ExpireTyped ==
  ASSUME TypeOK, NEW w \in Windows, EXPIRE(w)
  PROVE  /\ counter' \in [Windows -> Counter]
         /\ \A v \in Windows : counter'[v].count = counter[v].count
         /\ \A v \in Windows : counter'[v].count = 0 => counter'[v].ttl = 0
         /\ \A v \in Windows : counter'[v].ttl \in {counter[v].ttl, Length, 0}
         /\ \A v \in Windows \ {w} : counter'[v] = counter[v]
<1> DEFINE c == [counter[w] EXCEPT !.ttl = IF counter[w].count = 0 THEN 0 ELSE Length]
<1>1. c \in Counter /\ c.count = counter[w].count
      /\ c.ttl = IF counter[w].count = 0 THEN 0 ELSE Length
  BY DEF TypeOK
<1>2. counter' = [counter EXCEPT ![w] = c]
  BY DEF EXPIRE, TypeOK
<1> HIDE DEF c
<1> QED BY <1>1, <1>2 DEF TypeOK

\* What INCR leaves of a counter.
LEMMA IncrTyped ==
  ASSUME TypeOK, NEW w \in Windows, INCR(w)
  PROVE  /\ counter' \in [Windows -> Counter]
         /\ counter'[w].count = counter[w].count + 1
         /\ \A v \in Windows : counter'[v].count >= counter[v].count
         /\ \A v \in Windows : counter'[v].ttl = counter[v].ttl
         /\ \A v \in Windows \ {w} : counter'[v] = counter[v]
<1> DEFINE c == [counter[w] EXCEPT !.count = counter[w].count + 1]
<1>0. counter[w] \in Counter /\ counter[w].count + 1 \in Nat
  BY DEF TypeOK
<1>1. c \in Counter /\ c.count = counter[w].count + 1 /\ c.ttl = counter[w].ttl
  BY <1>0
<1>2. counter' = [counter EXCEPT ![w] = c]
  BY DEF INCR, TypeOK
<1>3. counter \in [Windows -> Counter] /\ \A v \in Windows : counter[v].count \in Nat
  BY DEF TypeOK
<1> HIDE DEF c
<1>4. counter' \in [Windows -> Counter] /\ counter'[w] = c
  BY ONLY <1>1, <1>2, <1>3, w \in Windows
<1>5. \A v \in Windows \ {w} : counter'[v] = counter[v]
  BY ONLY <1>2, <1>3, w \in Windows
<1>6. counter'[w].count = counter[w].count + 1 /\ counter'[w].ttl = counter[w].ttl
  BY ONLY <1>1, <1>4
<1>7. \A v \in Windows : counter'[v].ttl = counter[v].ttl
  BY ONLY <1>5, <1>6
<1>8. ASSUME NEW v \in Windows PROVE counter'[v].count >= counter[v].count
  <2>1. CASE v = w
    BY ONLY <2>1, <1>3, <1>6, w \in Windows
  <2>2. CASE v # w
    BY ONLY <2>2, <1>3, <1>5, v \in Windows
  <2> QED BY ONLY <2>1, <2>2
<1> QED BY ONLY <1>4, <1>5, <1>6, <1>7, <1>8

\* What is left to Redis when a request gives up a command.
LEMMA GivesUpEffect ==
  ASSUME Inv, NEW r \in Requests, NEW name \in {"INCR", "EXPIRE"}, GivesUp(r, name)
  PROVE  /\ late' \in [Late -> Nat]
         /\ \A c \in Late : c # <<name, Key(r)>> => late'[c] = late[c]
         /\ late'[<<name, Key(r)>>] \in {late[<<name, Key(r)>>], late[<<name, Key(r)>>] + 1}
         /\ UNCHANGED late \/ late' = [late EXCEPT ![<<name, Key(r)>>] = @ + 1]
         /\ UNCHANGED <<window, tick>> /\ UNCHANGED counter
<1>1. late \in [Late -> Nat] /\ <<name, Key(r)>> \in Late
  BY DEF Inv, TypeOK, Late
<1>2. CASE UNCHANGED late
  BY <1>1, <1>2 DEF GivesUp
<1>3. CASE late' = [late EXCEPT ![<<name, Key(r)>>] = @ + 1]
  <2>1. late[<<name, Key(r)>>] + 1 \in Nat
    BY <1>1
  <2> QED BY <1>1, <1>3, <2>1 DEF GivesUp
<1> QED BY <1>2, <1>3 DEF GivesUp

\* What becomes of a request whose INCR is answered, ...
LEMMA CountsEffect ==
  ASSUME Inv, NEW r \in Requests, NEW n \in Nat, Counts(r, n)
  PROVE  \E rec \in Request :
           /\ request' = [request EXCEPT ![r] = rec]
           /\ rec.pc = IF n = 1 THEN "expire" ELSE "ttl"
           /\ rec.window = Key(r) /\ rec.count = n /\ rec.prompt = (window = Key(r))
           /\ rec.sent = request[r].tries + 1
<1> DEFINE pc == IF n = 1 THEN "expire" ELSE "ttl"
           rec == [request[r] EXCEPT !.pc = pc, !.count = n, !.prompt = window = Key(r),
                                     !.sent = request[r].tries + 1, !.tries = 0]
<1>1. /\ pc \in {"expire", "ttl"} /\ request[r] \in Request
      /\ request[r].tries + 1 \in 0..Sends /\ 0 \in 0..(Sends - 1)
      /\ (window = Key(r)) \in BOOLEAN
  BY DEF Inv, TypeOK
<1>2. /\ rec \in Request
      /\ rec.pc = pc /\ rec.window = Key(r) /\ rec.count = n /\ rec.prompt = (window = Key(r))
      /\ rec.sent = request[r].tries + 1
  BY <1>1
<1>3. request' = [request EXCEPT ![r] = rec]
  BY DEF Counts, Inv, TypeOK
<1> HIDE DEF rec
<1> QED BY <1>2, <1>3

\* ... that sends its command again, ...
LEMMA TimesOutEffect ==
  ASSUME Inv, NEW r \in Requests, TimesOut(r)
  PROVE  \E rec \in Request :
           /\ request' = [request EXCEPT ![r] = rec]
           /\ rec.pc = request[r].pc /\ rec.window = Key(r) /\ rec.count = request[r].count
           /\ rec.prompt = request[r].prompt
           /\ rec.sent = IF At(r, "incr") THEN request[r].sent + 1 ELSE request[r].sent
           /\ rec.pc = "incr" => rec.sent = rec.tries
<1>1. /\ request[r] \in Request /\ request[r].tries + 1 \in 0..(Sends - 1)
      /\ request[r].tries + 1 \in 0..Sends
      /\ At(r, "incr") => request[r].sent = request[r].tries
  BY DEF Inv, TypeOK, TimesOut, Fresh
<1>2. CASE At(r, "incr")
  <2> DEFINE rec == [request[r] EXCEPT !.tries = request[r].tries + 1,
                                       !.sent = request[r].tries + 1]
  <2>1. /\ rec \in Request
        /\ rec.pc = request[r].pc /\ rec.window = Key(r) /\ rec.count = request[r].count
        /\ rec.prompt = request[r].prompt
        /\ rec.sent = request[r].tries + 1 /\ rec.tries = request[r].tries + 1
    BY <1>1
  <2>2. request' = [request EXCEPT ![r] = rec]
    BY <1>2 DEF TimesOut, Inv, TypeOK
  <2> HIDE DEF rec
  <2> QED BY <1>1, <1>2, <2>1, <2>2
<1>3. CASE ~At(r, "incr")
  <2> DEFINE rec == [request[r] EXCEPT !.tries = request[r].tries + 1]
  <2>1. /\ rec \in Request
        /\ rec.pc = request[r].pc /\ rec.window = Key(r) /\ rec.count = request[r].count
        /\ rec.prompt = request[r].prompt /\ rec.sent = request[r].sent
    BY <1>1
  <2>2. request' = [request EXCEPT ![r] = rec]
    BY <1>3 DEF TimesOut, Inv, TypeOK
  <2> HIDE DEF rec
  <2> QED BY <1>3, <2>1, <2>2
<1> QED BY <1>2, <1>3

\* ... and that gets no answer at all.
LEMMA RedisFailsEffect ==
  ASSUME Inv, NEW r \in Requests, RedisFails(r)
  PROVE  \E rec \in Request :
           /\ request' = [request EXCEPT ![r] = rec]
           /\ rec.pc \in {"unavailable", "unlimited"} /\ rec.window = Key(r)
           /\ rec.count = 0 /\ ~rec.prompt
           /\ rec.sent = IF At(r, "incr") THEN request[r].sent + 1 ELSE request[r].sent
<1> DEFINE pc == IF FailClosed THEN "unavailable" ELSE "unlimited"
           n == IF At(r, "incr") THEN request[r].tries + 1 ELSE request[r].sent
           rec == [request[r] EXCEPT !.pc = pc, !.count = 0, !.prompt = FALSE, !.tries = 0,
                                     !.sent = n]
<1>1. /\ request[r] \in Request /\ 0 \in Nat /\ 0 \in 0..(Sends - 1)
      /\ At(r, "incr") => request[r].sent = request[r].tries
  BY DEF Inv, TypeOK, Fresh
<1>2. pc \in {"unavailable", "unlimited"} /\ n \in 0..Sends
  BY <1>1
<1>3. n = IF At(r, "incr") THEN request[r].sent + 1 ELSE request[r].sent
  BY <1>1
<1>4. request' = [request EXCEPT ![r] = rec]
  BY DEF RedisFails
<1> HIDE DEF pc, n
<1>5. /\ rec \in Request
      /\ rec.pc = pc /\ rec.window = Key(r) /\ rec.count = 0 /\ ~rec.prompt /\ rec.sent = n
  BY <1>1, <1>2
<1> HIDE DEF rec
<1> QED BY <1>2, <1>3, <1>4, <1>5

\* A step that leaves the clock alone and loses no count keeps what is said of the
\* counters, and requests that are not counted keep the rest.
LEMMA QuietRequests ==
  ASSUME Inv, UNCHANGED <<window, tick>>, TypeOK',
         \A v \in Windows : counter'[v].count >= counter[v].count,
         \A v \in Windows : counter'[v].ttl \in {counter[v].ttl, Length, 0},
         \A v \in Windows :
           v > window => /\ counter'[v] = NoKey
                         /\ late'[<<"INCR", v>>] = 0 /\ late'[<<"EXPIRE", v>>] = 0,
         \A x \in Requests :
           /\ request'[x].window <= window
           /\ request'[x].prompt => /\ request[x].prompt
                                    /\ request'[x].count = request[x].count
                                    /\ request'[x].window = request[x].window
           /\ request'[x].pc = "admitted" => request'[x].count <= Limit
           /\ request'[x].pc \in {"none", "incr"} =>
                ~request'[x].prompt /\ request'[x].sent = request'[x].tries
           /\ request'[x].pc = "none" => request'[x].sent = 0
  PROVE  Inv'
<1>1. KeyOutlivesWindow'
  <2> SUFFICES ASSUME window \in Windows, counter'[window].ttl # 0
               PROVE  counter'[window].ttl >= Length - tick
    BY DEF KeyOutlivesWindow
  <2>1. tick \in 0..(Length - 1)
    BY DEF Inv, TypeOK
  <2>2. CASE counter'[window].ttl = Length
    BY <2>1, <2>2
  <2>3. CASE counter'[window].ttl = counter[window].ttl
    BY <2>3 DEF Inv, KeyOutlivesWindow
  <2> QED BY <2>2, <2>3
<1>3. Past'
  BY DEF Past
<1>4. Counted'
  <2> SUFFICES ASSUME NEW x \in Requests, request'[x].prompt
               PROVE  /\ request'[x].count >= 1
                      /\ Key(x)' = window' => request'[x].count <= counter'[window'].count
    BY DEF Counted
  <2>1. /\ request[x].prompt
        /\ request'[x].count = request[x].count
        /\ request'[x].window = request[x].window
    OBVIOUS
  <2>2. request[x].window \in Windows /\ request[x].count \in Nat
    BY DEF Inv, TypeOK
  <2>3. counter[request[x].window].count \in Nat /\ counter'[request[x].window].count \in Nat
    BY <2>2 DEF Inv, TypeOK
  <2> QED BY <2>1, <2>2, <2>3 DEF Inv, Counted
<1>5. Distinct'
  <2> SUFFICES ASSUME NEW x \in Requests, NEW y \in Requests,
                      request'[x].prompt, request'[y].prompt, Key(x)' = Key(y)',
                      request'[x].count = request'[y].count
               PROVE  x = y
    BY DEF Distinct
  <2>1. \A z \in {x, y} : /\ request[z].prompt
                          /\ request'[z].count = request[z].count
                          /\ request'[z].window = request[z].window
    OBVIOUS
  <2> QED BY <2>1 DEF Inv, Distinct
<1>6. WithinLimit' /\ Fresh'
  BY DEF WithinLimit, Fresh
<1>7. Unborn'
  BY DEF Unborn
<1> QED BY <1>1, <1>3, <1>4, <1>5, <1>6, <1>7 DEF Inv

LEMMA QuietStep ==
  ASSUME Inv, UNCHANGED <<window, tick>>, TypeOK',
         \A v \in Windows : counter'[v].count >= counter[v].count,
         \A v \in Windows : counter'[v].ttl \in {counter[v].ttl, Length, 0},
         \A v \in Windows : v > window => counter'[v] = counter[v],
         \A v \in Windows :
           v > window => late'[<<"INCR", v>>] = late[<<"INCR", v>>]
                           /\ late'[<<"EXPIRE", v>>] = late[<<"EXPIRE", v>>],
         NEW r \in Requests, NEW rec \in Request,
         request' = [request EXCEPT ![r] = rec],
         rec.window <= window,
         rec.prompt => /\ request[r].prompt
                       /\ rec.count = request[r].count
                       /\ rec.window = Key(r),
         rec.pc = "admitted" => rec.count <= Limit,
         rec.pc # "none", rec.pc = "incr" => ~rec.prompt /\ rec.sent = rec.tries
  PROVE  Inv'
<1>1. \A v \in Windows :
        v > window => /\ counter'[v] = NoKey
                      /\ late'[<<"INCR", v>>] = 0 /\ late'[<<"EXPIRE", v>>] = 0
  BY DEF Inv, Unborn
<1>2. \A x \in Requests : request'[x] = IF x = r THEN rec ELSE request[x]
  BY DEF Inv, TypeOK
<1>3. ASSUME NEW x \in Requests
      PROVE  /\ request'[x].window <= window
             /\ request'[x].prompt => /\ request[x].prompt
                                      /\ request'[x].count = request[x].count
                                      /\ request'[x].window = request[x].window
             /\ request'[x].pc = "admitted" => request'[x].count <= Limit
             /\ request'[x].pc \in {"none", "incr"} =>
                  ~request'[x].prompt /\ request'[x].sent = request'[x].tries
             /\ request'[x].pc = "none" => request'[x].sent = 0
  <2>1. CASE x = r
    BY <1>2, <2>1
  <2>2. CASE x # r
    BY <1>2, <2>2 DEF Inv, Past, WithinLimit, Fresh
  <2> QED BY <2>1, <2>2
<1> QED BY <1>1, <1>3, QuietRequests

\* A request that moves and nothing else.
LEMMA GotoStep ==
  ASSUME Inv, UNCHANGED <<window, tick>>, NEW r \in Requests,
         NEW pc \in {"expire", "ttl", "renew", "decide",
                     "admitted", "limited", "unlimited", "unavailable"},
         pc = "admitted" => request[r].count <= Limit,
         Goto(r, pc), UNCHANGED late,
         (UNCHANGED counter) \/ EXPIRE(Key(r))
  PROVE  Inv'
<1>0. Key(r) \in Windows
  BY DEF Inv, TypeOK
<1> DEFINE rec == [request[r] EXCEPT !.pc = pc, !.tries = 0]
<1>1. /\ rec \in Request /\ rec.window = Key(r) /\ rec.count = request[r].count
      /\ rec.prompt = request[r].prompt /\ rec.pc = pc
  <2>1. request[r] \in Request /\ 0 \in 0..(Sends - 1)
    BY DEF Inv, TypeOK
  <2> QED BY <2>1
<1>2. request' = [request EXCEPT ![r] = rec]
  BY DEF Goto, Inv, TypeOK
<1> HIDE DEF rec
<1>3. /\ counter' \in [Windows -> Counter]
      /\ \A v \in Windows : counter'[v].count = counter[v].count
      /\ \A v \in Windows : counter'[v].count = 0 => counter'[v].ttl = 0
      /\ \A v \in Windows : counter'[v].ttl \in {counter[v].ttl, Length, 0}
      /\ \A v \in Windows \ {Key(r)} : counter'[v] = counter[v]
  <2>1. CASE UNCHANGED counter
    BY <2>1 DEF Inv, TypeOK
  <2>2. CASE EXPIRE(Key(r))
    BY <2>2, <1>0, ExpireTyped DEF Inv
  <2> QED BY <2>1, <2>2
<1>4. request' \in [Requests -> Request]
  BY <1>1, <1>2 DEF Inv, TypeOK
<1>5. TypeOK'
  BY <1>3, <1>4 DEF Inv, TypeOK
<1>6. \A v \in Windows : counter'[v].count >= counter[v].count
  BY <1>3 DEF Inv, TypeOK
<1>7. Key(r) <= window
  BY DEF Inv, Past
<1>8. \A v \in Windows : v > window => counter'[v] = counter[v]
  BY <1>0, <1>3, <1>7 DEF Inv, TypeOK
<1> QED BY <1>1, <1>2, <1>3, <1>5, <1>6, <1>7, <1>8, QuietStep

LEMMA ArriveInv ==
  ASSUME Inv, NEW r \in Requests, Arrive(r)
  PROVE  Inv'
<1> DEFINE rec == [request[r] EXCEPT !.pc = "incr", !.window = window]
<1>0. /\ request[r] \in Request /\ window \in Windows /\ ~request[r].prompt
      /\ request[r].sent = request[r].tries
  BY DEF Inv, TypeOK, Arrive, Fresh
<1>1. /\ rec.pc = "incr" /\ rec.window = window /\ rec.count = request[r].count
      /\ rec.prompt = request[r].prompt /\ rec \in Request
      /\ rec.sent = request[r].sent /\ rec.tries = request[r].tries
  BY <1>0
<1>2. request' = [request EXCEPT ![r] = rec]
  BY DEF Arrive, Inv, TypeOK
<1> HIDE DEF rec
<1>3. TypeOK'
  <2>1. request' \in [Requests -> Request]
    BY <1>1, <1>2 DEF Inv, TypeOK
  <2> QED BY <2>1 DEF Arrive, Inv, TypeOK
<1>4. UNCHANGED <<window, tick>> /\ UNCHANGED counter /\ UNCHANGED late
  BY DEF Arrive
<1>5. \A v \in Windows : counter'[v].count >= counter[v].count
  BY <1>4 DEF Inv, TypeOK
<1>6. \A v \in Windows : counter'[v].ttl \in {counter[v].ttl, Length, 0}
  BY <1>4
<1>7. rec.window <= window
  BY <1>1, <1>0
<1> QED BY <1>0, <1>1, <1>2, <1>3, <1>4, <1>5, <1>6, <1>7, QuietStep

LEMMA IncrementInv ==
  ASSUME Inv, NEW r \in Requests, Increment(r)
  PROVE  Inv'
<1> DEFINE w == Key(r)
           n == counter[w].count + 1
<1>0. w \in Windows /\ w <= window /\ n \in Nat /\ n >= 1 /\ UNCHANGED late
  BY DEF Inv, TypeOK, Past, Increment
<1>1. Counts(r, n)
  BY DEF Increment
<1>2. PICK rec \in Request :
        /\ request' = [request EXCEPT ![r] = rec]
        /\ rec.pc = IF n = 1 THEN "expire" ELSE "ttl"
        /\ rec.window = w /\ rec.count = n /\ rec.prompt = (window = w)
  BY <1>0, <1>1, CountsEffect
<1>3. rec.pc \in {"expire", "ttl"}
  BY <1>2
<1>4. /\ request'[r] = rec
      /\ \A x \in Requests \ {r} : request'[x] = request[x]
      /\ request' \in [Requests -> Request]
  BY <1>2 DEF Inv, TypeOK
<1>5. /\ counter' \in [Windows -> Counter]
      /\ counter'[w].count = n
      /\ \A v \in Windows : counter'[v].count >= counter[v].count
      /\ \A v \in Windows : counter'[v].ttl = counter[v].ttl
      /\ \A v \in Windows \ {w} : counter'[v] = counter[v]
  BY <1>0, IncrTyped DEF Increment, Inv
<1>6. UNCHANGED <<window, tick>>
  BY DEF Increment
<1>7. \A v \in Windows : counter'[v].count = 0 => counter'[v].ttl = 0
  <2> SUFFICES ASSUME NEW v \in Windows, counter'[v].count = 0 PROVE counter'[v].ttl = 0
    OBVIOUS
  <2>1. counter[v].count \in Nat /\ counter'[v].count >= counter[v].count
    BY <1>5 DEF Inv, TypeOK
  <2>2. counter[v].count = 0
    BY ONLY <2>1, counter'[v].count = 0
  <2> QED BY <1>5, <2>2 DEF Inv, TypeOK
<1>8. TypeOK'
  BY <1>0, <1>4, <1>5, <1>6, <1>7 DEF Inv, TypeOK
<1>9. KeyOutlivesWindow'
  BY <1>5, <1>6 DEF Inv, KeyOutlivesWindow
<1>10. Past'
  BY <1>0, <1>2, <1>4, <1>6 DEF Inv, Past
<1>11. \A x \in Requests \ {r} :
          request[x].prompt /\ Key(x) = window /\ window = w => request[x].count < n
  <2> SUFFICES ASSUME NEW x \in Requests, request[x].prompt, Key(x) = window, window = w
               PROVE  request[x].count < n
    OBVIOUS
  <2>1. request[x].count <= counter[w].count
    BY DEF Inv, Counted
  <2>2. request[x].count \in Nat /\ counter[w].count \in Nat
    BY <1>0 DEF Inv, TypeOK
  <2> QED BY <2>1, <2>2
<1>12. Counted'
  <2> SUFFICES ASSUME NEW x \in Requests, request'[x].prompt
               PROVE  /\ request'[x].count >= 1
                      /\ Key(x)' = window' => request'[x].count <= counter'[window'].count
    BY DEF Counted
  <2>1. CASE x = r
    BY <2>1, <1>0, <1>2, <1>4, <1>5, <1>6
  <2>2. CASE x # r
    <3>1. request'[x] = request[x]
      BY <2>2, <1>4
    <3>2. request[x].count >= 1 /\ request[x].count \in Nat /\ request[x].window \in Windows
      BY <3>1 DEF Inv, Counted, TypeOK
    <3>3. ASSUME Key(x) = window
          PROVE  request[x].count <= counter'[window].count
      <4>1. request[x].count <= counter[window].count
        BY <3>1, <3>3 DEF Inv, Counted
      <4>2. window \in Windows
        BY <3>2, <3>3
      <4>3. counter[window].count \in Nat /\ counter'[window].count \in Nat
        BY <4>2, <1>5 DEF Inv, TypeOK
      <4>4. counter'[window].count >= counter[window].count
        BY <4>2, <1>5
      <4> QED BY <4>1, <4>3, <4>4, <3>2
    <3> QED BY <3>1, <3>2, <3>3, <1>6
  <2> QED BY <2>1, <2>2
<1>13. Distinct'
  <2> SUFFICES ASSUME NEW x \in Requests, NEW y \in Requests,
                      request'[x].prompt, request'[y].prompt, Key(x)' = Key(y)',
                      request'[x].count = request'[y].count, x # y
               PROVE  FALSE
    BY DEF Distinct
  <2>1. CASE x # r /\ y # r
    BY <2>1, <1>4 DEF Inv, Distinct
  <2>2. CASE x = r
    <3>1. request'[y] = request[y] /\ request'[x] = rec
      BY <2>2, <1>4
    <3>2. window = w /\ Key(y) = window /\ request[y].prompt /\ request[y].count = n
      BY <3>1, <1>2
    <3> QED BY <3>2, <1>11, <1>0, <2>2
  <2>3. CASE y = r
    <3>1. request'[x] = request[x] /\ request'[y] = rec
      BY <2>3, <1>4
    <3>2. window = w /\ Key(x) = window /\ request[x].prompt /\ request[x].count = n
      BY <3>1, <1>2
    <3> QED BY <3>2, <1>11, <1>0, <2>3
  <2> QED BY <2>1, <2>2, <2>3
<1>14. WithinLimit'
  BY <1>3, <1>4 DEF Inv, WithinLimit
<1>15. Fresh'
  BY <1>3, <1>4 DEF Inv, Fresh
<1>16. Unborn'
  <2> SUFFICES ASSUME NEW v \in Windows, v > window
               PROVE  /\ counter'[v] = NoKey
                      /\ late[<<"INCR", v>>] = 0 /\ late[<<"EXPIRE", v>>] = 0
    BY <1>0, <1>6 DEF Unborn
  <2>1. v # w
    <3>1. window \in Int /\ v \in Int
      BY DEF Inv, TypeOK
    <3> QED BY <1>0, <3>1
  <2> QED BY <1>5, <2>1 DEF Inv, Unborn
<1> QED BY <1>8, <1>9, <1>10, <1>12, <1>13, <1>14, <1>15, <1>16 DEF Inv

LEMMA RequestStepInv ==
  ASSUME Inv, NEW r \in Requests, RequestStep(r)
  PROVE  Inv'
<1>1. CASE Increment(r)
  BY <1>1, IncrementInv
<1>2. CASE SetTtl(r)
  BY <1>2, GotoStep DEF SetTtl
<1>3. CASE ReadTtl(r)
  <2>1. PICK t \in TTL(Key(r)) : Goto(r, IF t = 0 THEN "renew" ELSE "decide")
    BY <1>3 DEF ReadTtl
  <2> DEFINE pc == IF t = 0 THEN "renew" ELSE "decide"
  <2>2. pc \in {"renew", "decide"}
    OBVIOUS
  <2> HIDE DEF pc
  <2>3. Goto(r, pc)
    BY <2>1 DEF pc
  <2> QED BY <1>3, <2>2, <2>3, GotoStep DEF ReadTtl
<1>4. CASE RenewTtl(r)
  BY <1>4, GotoStep DEF RenewTtl
<1>5. CASE Decide(r)
  <2> DEFINE pc == IF request[r].count > Limit THEN "limited" ELSE "admitted"
  <2>0. request[r].count \in Nat
    BY DEF Inv, TypeOK
  <2>1. pc \in {"limited", "admitted"} /\ (pc = "admitted" => request[r].count <= Limit)
    BY <2>0
  <2>2. Goto(r, pc)
    BY <1>5 DEF Decide
  <2> HIDE DEF pc
  <2> QED BY <1>5, <2>1, <2>2, GotoStep DEF Decide
<1> QED BY <1>1, <1>2, <1>3, <1>4, <1>5 DEF RequestStep

\* A request that gives its command up, for good or not.
LEMMA GivingUpInv ==
  ASSUME Inv, NEW r \in Requests, NEW rec \in Request,
         request' = [request EXCEPT ![r] = rec], rec.window = Key(r),
         \/ GivesUp(r, "INCR") \/ GivesUp(r, "EXPIRE")
         \/ UNCHANGED <<window, tick, counter, late>>,
         rec.prompt => request[r].prompt /\ rec.count = request[r].count,
         rec.pc \notin {"none", "admitted"}, rec.pc = "incr" => ~rec.prompt /\ rec.sent = rec.tries
  PROVE  Inv'
<1>1. Key(r) \in Windows /\ Key(r) <= window /\ window \in 0..(MaxWindow + 1)
  BY DEF Inv, TypeOK, Past
<1>2. /\ late' \in [Late -> Nat]
      /\ \A c \in Late : c[2] # Key(r) => late'[c] = late[c]
      /\ UNCHANGED <<window, tick>> /\ UNCHANGED counter
  <2>1. CASE UNCHANGED <<window, tick, counter, late>>
    BY <2>1 DEF Inv, TypeOK
  <2>2. ASSUME NEW name \in {"INCR", "EXPIRE"}, GivesUp(r, name)
        PROVE  /\ late' \in [Late -> Nat]
               /\ \A c \in Late : c[2] # Key(r) => late'[c] = late[c]
               /\ UNCHANGED <<window, tick>> /\ UNCHANGED counter
    <3>1. /\ late' \in [Late -> Nat]
          /\ \A c \in Late : c # <<name, Key(r)>> => late'[c] = late[c]
          /\ UNCHANGED <<window, tick>> /\ UNCHANGED counter
      BY <2>2, GivesUpEffect
    <3>2. \A c \in Late : c[2] # Key(r) => c # <<name, Key(r)>>
      OBVIOUS
    <3> QED BY <3>1, <3>2
  <2> QED BY <2>1, <2>2
<1>3. \A v \in Windows :
        v > window => late'[<<"INCR", v>>] = late[<<"INCR", v>>]
                        /\ late'[<<"EXPIRE", v>>] = late[<<"EXPIRE", v>>]
  <2> SUFFICES ASSUME NEW v \in Windows, v > window
               PROVE  late'[<<"INCR", v>>] = late[<<"INCR", v>>]
                        /\ late'[<<"EXPIRE", v>>] = late[<<"EXPIRE", v>>]
    OBVIOUS
  <2>1. v # Key(r) /\ <<"INCR", v>> \in Late /\ <<"EXPIRE", v>> \in Late
    BY <1>1, LateKeys
  <2> QED BY <1>2, <2>1
<1>4. \A v \in Windows : counter'[v].count >= counter[v].count
  BY <1>2 DEF Inv, TypeOK
<1>5. TypeOK'
  BY <1>2 DEF Inv, TypeOK
<1>6. \A v \in Windows : counter'[v].ttl \in {counter[v].ttl, Length, 0}
  BY <1>2
<1> QED BY <1>1, <1>2, <1>3, <1>4, <1>5, <1>6, QuietStep

LEMMA RedisFailsInv ==
  ASSUME Inv, NEW r \in Requests, RedisFails(r)
  PROVE  Inv'
<1>1. PICK rec \in Request :
        /\ request' = [request EXCEPT ![r] = rec]
        /\ rec.pc \in {"unavailable", "unlimited"} /\ rec.window = Key(r) /\ ~rec.prompt
  BY RedisFailsEffect
<1> QED BY <1>1, GivingUpInv DEF RedisFails

LEMMA TimesOutInv ==
  ASSUME Inv, NEW r \in Requests, TimesOut(r)
  PROVE  Inv'
<1>1. PICK rec \in Request :
        /\ request' = [request EXCEPT ![r] = rec]
        /\ rec.pc = request[r].pc /\ rec.window = Key(r) /\ rec.count = request[r].count
        /\ rec.prompt = request[r].prompt
        /\ rec.pc = "incr" => rec.sent = rec.tries
  BY TimesOutEffect
<1>2. rec.pc \in {"incr", "expire", "renew"} /\ (GivesUp(r, "INCR") \/ GivesUp(r, "EXPIRE"))
  BY <1>1 DEF TimesOut
<1>3. rec.pc = "incr" => ~rec.prompt
  BY <1>1 DEF Inv, Fresh
<1> QED BY <1>1, <1>2, <1>3, GivingUpInv

\* A command that Redis executes late does what it would have done in time.
LEMMA ExecuteLateEffect ==
  ASSUME Inv, NEW w \in Windows, ExecuteLate(w)
  PROVE  /\ UNCHANGED <<window, tick>> /\ UNCHANGED request
         /\ late' \in [Late -> Nat] /\ w <= window
         /\ \/ /\ INCR(w) /\ late[<<"INCR", w>>] > 0
               /\ late' = [late EXCEPT ![<<"INCR", w>>] = @ - 1]
            \/ EXPIRE(w) /\ late' = [late EXCEPT ![<<"EXPIRE", w>>] = @ - 1]
<1>1. PICK name \in {"INCR", "EXPIRE"} :
        /\ late[<<name, w>>] > 0
        /\ late' = [late EXCEPT ![<<name, w>>] = @ - 1]
        /\ IF name = "INCR" THEN INCR(w) ELSE EXPIRE(w)
        /\ UNCHANGED <<window, tick, request>>
  BY DEF ExecuteLate
<1>2. late \in [Late -> Nat] /\ <<name, w>> \in Late /\ window \in 0..(MaxWindow + 1)
  BY LateKeys DEF Inv, TypeOK
<1>3. late[<<name, w>>] - 1 \in Nat
  BY <1>1, <1>2
<1>4. late' \in [Late -> Nat]
  BY <1>1, <1>2, <1>3
<1>5. ~(w > window)
  <2> SUFFICES ASSUME w > window PROVE FALSE
    OBVIOUS
  <2>1. late[<<"INCR", w>>] = 0 /\ late[<<"EXPIRE", w>>] = 0
    BY DEF Inv, Unborn
  <2> QED BY <1>1, <2>1
<1>6. w <= window
  BY <1>2, <1>5
<1>7. CASE name = "INCR"
  BY <1>1, <1>4, <1>6, <1>7
<1>8. CASE name = "EXPIRE"
  BY <1>1, <1>4, <1>6, <1>8
<1> QED BY <1>7, <1>8

LEMMA ExecuteLateInv ==
  ASSUME Inv, NEW w \in Windows, ExecuteLate(w)
  PROVE  Inv'
<1>0. window \in 0..(MaxWindow + 1) /\ \A v \in Windows : counter[v].count \in Nat
  BY DEF Inv, TypeOK
<1>1. /\ counter' \in [Windows -> Counter]
      /\ \A v \in Windows : counter'[v].count >= counter[v].count
      /\ \A v \in Windows : counter'[v].count = 0 => counter'[v].ttl = 0
      /\ \A v \in Windows : counter'[v].ttl \in {counter[v].ttl, Length, 0}
      /\ \A v \in Windows \ {w} : counter'[v] = counter[v]
  <2>1. CASE INCR(w)
    <3>1. /\ counter' \in [Windows -> Counter]
          /\ \A v \in Windows : counter'[v].count >= counter[v].count
          /\ \A v \in Windows : counter'[v].ttl = counter[v].ttl
          /\ \A v \in Windows \ {w} : counter'[v] = counter[v]
      BY <2>1, IncrTyped DEF Inv
    <3>2. \A v \in Windows : counter'[v].count = 0 => counter[v].count = 0
      BY <3>1, <1>0
    <3>3. \A v \in Windows : counter[v].count = 0 => counter[v].ttl = 0
      BY DEF Inv, TypeOK
    <3> QED BY <3>1, <3>2, <3>3
  <2>2. CASE EXPIRE(w)
    BY <1>0, <2>2, ExpireTyped DEF Inv
  <2> QED BY <2>1, <2>2, ExecuteLateEffect
<1>2. /\ UNCHANGED <<window, tick>> /\ UNCHANGED request /\ late' \in [Late -> Nat]
      /\ \A c \in Late : c[2] # w => late'[c] = late[c]
  <2>1. late \in [Late -> Nat]
    BY DEF Inv, TypeOK
  <2>2. ASSUME NEW name, late' = [late EXCEPT ![<<name, w>>] = @ - 1],
               NEW c \in Late, c[2] # w
        PROVE  late'[c] = late[c]
    <3>1. c # <<name, w>>
      BY <2>2
    <3> QED BY <2>1, <2>2, <3>1
  <2> QED BY <2>1, <2>2, ExecuteLateEffect
<1>3. TypeOK'
  BY <1>1, <1>2 DEF Inv, TypeOK
<1>4. \A v \in Windows :
        v > window => /\ counter'[v] = NoKey
                      /\ late'[<<"INCR", v>>] = 0 /\ late'[<<"EXPIRE", v>>] = 0
  <2> SUFFICES ASSUME NEW v \in Windows, v > window
               PROVE  /\ counter'[v] = NoKey
                      /\ late'[<<"INCR", v>>] = 0 /\ late'[<<"EXPIRE", v>>] = 0
    OBVIOUS
  <2>1. v # w /\ <<"INCR", v>> \in Late /\ <<"EXPIRE", v>> \in Late
    BY <1>0, LateKeys, ExecuteLateEffect
  <2> QED BY <1>1, <1>2, <2>1 DEF Inv, Unborn
<1>5. \A x \in Requests :
        /\ request'[x].window <= window
        /\ request'[x].pc = "admitted" => request'[x].count <= Limit
        /\ request'[x].pc \in {"none", "incr"} =>
             ~request'[x].prompt /\ request'[x].sent = request'[x].tries
        /\ request'[x].pc = "none" => request'[x].sent = 0
  BY <1>2 DEF Inv, Past, WithinLimit, Fresh
<1> QED BY <1>1, <1>2, <1>3, <1>4, <1>5, QuietRequests

\* Time takes a tick from every time to live, and the counts of a window only when
\* it is over.
LEMMA TickEffect ==
  ASSUME Inv, Tick
  PROVE  /\ UNCHANGED request /\ UNCHANGED late
         /\ counter' \in [Windows -> Counter]
         /\ \A v \in Windows : counter'[v].count = 0 => counter'[v].ttl = 0
         /\ \A v \in Windows : counter'[v].count \in {counter[v].count, 0}
         /\ \A v \in Windows :
              counter'[v].ttl = IF counter[v].ttl = 0 THEN 0 ELSE counter[v].ttl - 1
         /\ window' \in 0..(MaxWindow + 1) /\ tick' \in 0..(Length - 1)
         /\ window' = window \/ (window \in Windows /\ window' = window + 1 /\ tick' = 0)
         /\ window' = window /\ window \in Windows =>
              /\ tick' = tick + 1
              /\ counter'[window].count = counter[window].count
              /\ counter'[window].ttl # 0 => counter'[window].ttl >= Length - tick'
         /\ \A v \in Windows : v > window => counter'[v] = NoKey
<1>0. /\ window \in 0..(MaxWindow + 1) /\ tick \in 0..(Length - 1)
      /\ counter \in [Windows -> Counter]
      /\ \A v \in Windows : counter[v].count = 0 => counter[v].ttl = 0
  BY DEF Inv, TypeOK
<1>1. ASSUME NEW v \in Windows
      PROVE  /\ Aged(counter[v]) \in Counter
             /\ Aged(counter[v]).count = 0 => Aged(counter[v]).ttl = 0
             /\ counter[v].ttl # 1 => Aged(counter[v]).count = counter[v].count
             /\ Aged(counter[v]).count \in {counter[v].count, 0}
             /\ Aged(counter[v]).ttl = IF counter[v].ttl = 0 THEN 0 ELSE counter[v].ttl - 1
  <2> DEFINE c == counter[v]
  <2>1. c \in Counter /\ c.count \in Nat /\ c.ttl \in 0..Length /\ (c.count = 0 => c.ttl = 0)
    BY <1>0
  <2>2. CASE c.ttl = 1
    <3>1. Aged(c) = NoKey
      BY <2>2 DEF Aged
    <3> QED BY <3>1, <2>1, <2>2 DEF NoKey
  <2>3. CASE c.ttl # 1
    <3> DEFINE t == IF c.ttl = 0 THEN 0 ELSE c.ttl - 1
    <3>1. t \in 0..Length
      BY <2>1, <2>3
    <3>2. Aged(c) = [c EXCEPT !.ttl = t]
      BY <2>3 DEF Aged
    <3> HIDE DEF t
    <3>3. /\ [c EXCEPT !.ttl = t] \in Counter
          /\ [c EXCEPT !.ttl = t].count = c.count /\ [c EXCEPT !.ttl = t].ttl = t
      BY <2>1, <3>1
    <3> QED BY <2>1, <2>3, <3>2, <3>3 DEF t
  <2> QED BY <2>2, <2>3
<1>2. counter' = [v \in Windows |-> Aged(counter[v])] /\ UNCHANGED <<late, request>>
  BY DEF Tick
<1>3. /\ counter' \in [Windows -> Counter]
      /\ \A v \in Windows : counter'[v].count = 0 => counter'[v].ttl = 0
      /\ \A v \in Windows : counter[v].ttl # 1 => counter'[v].count = counter[v].count
      /\ \A v \in Windows : counter'[v].count \in {counter[v].count, 0}
      /\ \A v \in Windows :
           counter'[v].ttl = IF counter[v].ttl = 0 THEN 0 ELSE counter[v].ttl - 1
  BY <1>1, <1>2
<1>4. /\ window' \in 0..(MaxWindow + 1) /\ tick' \in 0..(Length - 1)
      /\ window' >= window
      /\ window' = window => window' \notin Windows \/ (tick' = tick + 1 /\ tick' < Length)
      /\ window' # window => window \in Windows /\ window' = window + 1 /\ tick' = 0
  <2>1. CASE tick + 1 < Length
    BY <2>1, <1>0 DEF Tick
  <2>2. CASE ~(tick + 1 < Length) /\ window \in Windows
    BY <2>2, <1>0 DEF Tick
  <2>3. CASE ~(tick + 1 < Length) /\ window \notin Windows
    BY <2>3, <1>0 DEF Tick
  <2> QED BY <2>1, <2>2, <2>3
<1>5. ASSUME window \in Windows, window' = window
      PROVE  /\ tick' = tick + 1
             /\ counter'[window].count = counter[window].count
             /\ counter'[window].ttl # 0 => counter'[window].ttl >= Length - tick'
  <2>1. tick' = tick + 1 /\ tick + 1 < Length
    BY <1>4, <1>5, <1>0
  <2>2. counter[window].ttl \in 0..Length /\ counter'[window].ttl \in 0..Length
    BY <1>0, <1>3, <1>5
  <2>3. counter[window].ttl # 0 => counter[window].ttl >= Length - tick
    BY <1>5 DEF Inv, KeyOutlivesWindow
  <2>4. counter[window].ttl # 1
    BY <2>1, <2>2, <2>3, <1>0
  <2>5. counter'[window].ttl = IF counter[window].ttl = 0 THEN 0 ELSE counter[window].ttl - 1
    BY <1>3, <1>5
  <2>6. counter'[window].count = counter[window].count
    BY <1>3, <1>5, <2>4
  <2>7. tick \in Nat /\ Length \in Nat /\ counter[window].ttl \in Nat
    BY <1>0, <2>2
  <2> QED BY ONLY <2>1, <2>3, <2>5, <2>6, <2>7
<1>6. ASSUME NEW v \in Windows, v > window PROVE counter'[v] = NoKey
  <2>1. counter[v] = NoKey
    BY <1>6 DEF Inv, Unborn
  <2>2. Aged(NoKey) = NoKey
    BY DEF Aged, NoKey
  <2> QED BY <2>1, <2>2, <1>2
<1>7. window' = window \/ (window \in Windows /\ window' = window + 1 /\ tick' = 0)
  BY <1>4
<1> QED BY <1>2, <1>3, <1>4, <1>5, <1>6, <1>7

LEMMA TickInv ==
  ASSUME Inv, Tick
  PROVE  Inv'
<1>0. window \in 0..(MaxWindow + 1)
  BY DEF Inv, TypeOK
<1>1. /\ UNCHANGED request /\ UNCHANGED late /\ window' >= window
      /\ window' # window => window' = window + 1
  BY <1>0, TickEffect
<1>2. TypeOK'
  BY TickEffect DEF Inv, TypeOK
<1>3. Unborn'
  <2> SUFFICES ASSUME NEW v \in Windows, v > window'
               PROVE  /\ counter'[v] = NoKey
                      /\ late[<<"INCR", v>>] = 0 /\ late[<<"EXPIRE", v>>] = 0
    BY <1>1 DEF Unborn
  <2>1. v > window
    <3>1. window \in Int /\ window' \in Int /\ v \in Int
      BY <1>0, TickEffect
    <3> QED BY <1>1, <3>1
  <2> QED BY <2>1, TickEffect DEF Inv, Unborn
<1>4. KeyOutlivesWindow'
  <2>1. CASE window' = window
    BY <2>1, TickEffect DEF KeyOutlivesWindow
  <2>2. ASSUME window' # window, window' \in Windows PROVE counter'[window'].ttl = 0
    <3>1. counter'[window'] = NoKey
      BY <1>0, <1>1, <2>2, TickEffect
    <3> QED BY <3>1 DEF NoKey
  <2> QED BY <2>1, <2>2 DEF KeyOutlivesWindow
<1>5. Past'
  BY <1>0, <1>1 DEF Inv, Past, TypeOK
<1>6. Counted'
  <2> SUFFICES ASSUME NEW x \in Requests, request'[x].prompt
               PROVE  /\ request'[x].count >= 1
                      /\ Key(x)' = window' => request'[x].count <= counter'[window'].count
    BY DEF Counted
  <2>1. /\ request'[x] = request[x] /\ Key(x) \in Windows /\ Key(x) <= window
        /\ request[x].count >= 1
        /\ Key(x) = window => request[x].count <= counter[window].count
    BY <1>1 DEF Inv, TypeOK, Past, Counted
  <2>2. Key(x) = window' => window' = window
    BY <2>1, <1>0, <1>1
  <2> QED BY <2>1, <2>2, TickEffect
<1>7. Distinct' /\ WithinLimit' /\ Fresh'
  BY <1>1 DEF Inv, Distinct, WithinLimit, Fresh
<1> QED BY <1>2, <1>3, <1>4, <1>5, <1>6, <1>7 DEF Inv

LEMMA StutterInv ==
  ASSUME Inv, UNCHANGED vars
  PROVE  Inv'
BY DEF vars, Inv, TypeOK, KeyOutlivesWindow, Past, Unborn, Counted, Distinct, WithinLimit, Fresh

\* The inductive invariant.
LEMMA SpecInv == Spec => []Inv
<1>1. ASSUME Inv, [Next]_vars PROVE Inv'
  <2>1. CASE Tick
    BY <1>1, <2>1, TickInv
  <2>2. ASSUME NEW r \in Requests, Arrive(r) PROVE Inv'
    BY <1>1, <2>2, ArriveInv
  <2>3. ASSUME NEW r \in Requests, RequestStep(r) PROVE Inv'
    BY <1>1, <2>3, RequestStepInv
  <2>4. ASSUME NEW r \in Requests, RedisFails(r) PROVE Inv'
    BY <1>1, <2>4, RedisFailsInv
  <2>5. ASSUME NEW r \in Requests, TimesOut(r) PROVE Inv'
    BY <1>1, <2>5, TimesOutInv
  <2>6. ASSUME NEW w \in Windows, ExecuteLate(w) PROVE Inv'
    BY <1>1, <2>6, ExecuteLateInv
  <2>7. CASE UNCHANGED vars
    BY <1>1, <2>7, StutterInv
  <2> QED BY <1>1, <2>1, <2>2, <2>3, <2>4, <2>5, <2>6, <2>7 DEF Next
<1> QED BY InitInv, <1>1, PTL DEF Spec

\* The variables keep their types: a counter is never negative, a key that does not
\* exist has no time to live, and every request is at one of its calls.
THEOREM TypeCorrect == Spec => []TypeOK
<1>1. Inv => TypeOK
  BY DEF Inv
<1> QED BY <1>1, SpecInv, PTL

\* For any window length: a key whose time to live is set outlives its window, so
\* that its counter does not start again within it.
THEOREM KeyOutlives == Spec => []KeyOutlivesWindow
<1>1. Inv => KeyOutlivesWindow
  BY DEF Inv
<1> QED BY <1>1, SpecInv, PTL

\* The requests a window admits have distinct counts from 1 to the limit.
LEMMA AdmittedCounts == Inv => WindowLimit
<1> SUFFICES ASSUME Inv, NEW w \in Windows
             PROVE  Cardinality(Admitted(w)) <= Limit
  BY DEF WindowLimit
<1> DEFINE f == [r \in Admitted(w) |-> request[r].count]
<1>1. \A r \in Admitted(w) :
        r \in Requests /\ request[r].prompt /\ Key(r) = w
        /\ request[r].count \in Nat
        /\ request[r].count >= 1 /\ request[r].count <= Limit
  BY DEF Admitted, Inv, TypeOK, Counted, WithinLimit
<1>2. \A r \in Admitted(w) : request[r].count \in 1..Limit
  BY <1>1
<1>3. \A r, x \in Admitted(w) : request[r].count = request[x].count => r = x
  BY <1>1 DEF Inv, Distinct
<1>4. f \in [Admitted(w) -> 1..Limit] /\ \A r, x \in Admitted(w) : f[r] = f[x] => r = x
  BY <1>2, <1>3
<1>5. f \in Injection(Admitted(w), 1..Limit)
  BY <1>4 DEF Injection, IsInjective
<1>6. IsFiniteSet(1..Limit) /\ Cardinality(1..Limit) = Limit
  <2>1. 1 \in Int /\ Limit \in Int
    OBVIOUS
  <2> QED BY <2>1, FS_Interval
<1> QED BY <1>5, <1>6, FS_Injection

\* For any number of requests, any limit and any window length, whatever calls to
\* Redis fail: a window admits no more of the requests Redis answered than the limit.
THEOREM LimitHolds == Spec => []WindowLimit
BY SpecInv, AdmittedCounts, PTL

----------------------------------------------------------------------------
(* No early refusal: what a counter holds and what Redis is yet to add to it *)
(* never exceed the INCRs that the requests of its window sent.             *)

SentIn(req, w) ==
  {c \in Requests \X (1..Sends) : req[c[1]].window = w /\ c[2] <= req[c[1]].sent}

Bounded ==
  /\ \A w \in Windows : counter[w].count + late[<<"INCR", w>>] <= Cardinality(SentIn(request, w))
  /\ \A r \in Requests :
       ~At(r, "none") /\ ~At(r, "incr") =>
         request[r].count <= Cardinality(SentIn(request, Key(r)))
  /\ \A r \in Requests : At(r, "limited") => request[r].count > Limit

LEMMA SentFinite ==
  ASSUME NEW req, NEW w
  PROVE  IsFiniteSet(SentIn(req, w)) /\ Cardinality(SentIn(req, w)) \in Nat
<1>1. IsFiniteSet(1..Sends)
  <2>1. 1 \in Int /\ Sends \in Int
    OBVIOUS
  <2> QED BY <2>1, FS_Interval
<1>2. IsFiniteSet(Requests \X (1..Sends))
  BY <1>1, FS_Product
<1>3. SentIn(req, w) \subseteq Requests \X (1..Sends)
  BY DEF SentIn
<1> QED BY <1>2, <1>3, FS_Subset, FS_CardinalityType

\* A request that sends its INCR adds one to what its window's requests sent.
LEMMA SentGrows ==
  ASSUME TypeOK, NEW r \in Requests, NEW rec, request' = [request EXCEPT ![r] = rec],
         rec.window = Key(r), rec.sent = request[r].sent + 1, rec.sent <= Sends
  PROVE  /\ Cardinality(SentIn(request', Key(r))) = Cardinality(SentIn(request, Key(r))) + 1
         /\ \A w \in Windows : w # Key(r) => SentIn(request', w) = SentIn(request, w)
<1>1. /\ request'[r] = rec
      /\ \A x \in Requests \ {r} : request'[x] = request[x]
      /\ request[r].sent \in Nat
  BY DEF TypeOK
<1> DEFINE n == request[r].sent + 1
<1>2. n \in 1..Sends /\ rec.sent = n /\ <<r, n>> \in Requests \X (1..Sends)
  BY <1>1
<1>3. ASSUME NEW c \in Requests \X (1..Sends)
      PROVE  c \in SentIn(request', Key(r)) <=> c \in SentIn(request, Key(r)) \/ c = <<r, n>>
  <2>1. c = <<c[1], c[2]>> /\ c[1] \in Requests /\ c[2] \in 1..Sends
    OBVIOUS
  <2>2. CASE c[1] = r
    <3>1. c[2] <= n <=> c[2] <= request[r].sent \/ c[2] = n
      BY <1>1, <2>1
    <3>2. c = <<r, n>> <=> c[2] = n
      BY <2>1, <2>2
    <3> QED BY <1>1, <1>2, <2>2, <3>1, <3>2 DEF SentIn
  <2>3. CASE c[1] # r
    BY <1>1, <2>1, <2>3 DEF SentIn
  <2> QED BY <2>2, <2>3
<1>4. SentIn(request', Key(r)) = SentIn(request, Key(r)) \cup {<<r, n>>}
  <2>1. /\ SentIn(request', Key(r)) \subseteq Requests \X (1..Sends)
        /\ SentIn(request, Key(r)) \subseteq Requests \X (1..Sends)
    BY DEF SentIn
  <2> QED BY <1>2, <1>3, <2>1
<1>5. <<r, n>> \notin SentIn(request, Key(r))
  BY <1>1 DEF SentIn
<1>6. ASSUME NEW w \in Windows, w # Key(r)
      PROVE  SentIn(request', w) = SentIn(request, w)
  <2>1. \A x \in Requests : /\ request'[x].window = request[x].window
                            /\ x # r => request'[x].sent = request[x].sent
    BY <1>1
  <2> QED BY <1>6, <2>1 DEF SentIn
<1>7. Cardinality(SentIn(request', Key(r))) = Cardinality(SentIn(request, Key(r))) + 1
  <2>1. IsFiniteSet(SentIn(request, Key(r)))
    BY SentFinite
  <2>2. Cardinality(SentIn(request, Key(r)) \cup {<<r, n>>})
          = Cardinality(SentIn(request, Key(r))) + 1
    BY <1>5, <2>1, FS_AddElement
  <2> QED BY <1>4, <2>2
<1> QED BY <1>6, <1>7

LEMMA SentSame ==
  ASSUME TypeOK, NEW r \in Requests, NEW rec, request' = [request EXCEPT ![r] = rec],
         rec.sent = request[r].sent, rec.window = Key(r) \/ rec.sent = 0
  PROVE  \A w \in Windows : SentIn(request', w) = SentIn(request, w)
<1>1. /\ request'[r] = rec
      /\ \A x \in Requests \ {r} : request'[x] = request[x]
  BY DEF TypeOK
<1>2. ASSUME NEW w \in Windows, NEW c \in Requests \X (1..Sends)
      PROVE  (request'[c[1]].window = w /\ c[2] <= request'[c[1]].sent)
               <=> (request[c[1]].window = w /\ c[2] <= request[c[1]].sent)
  <2>1. c[1] \in Requests /\ c[2] \in 1..Sends
    OBVIOUS
  <2> QED BY <1>1, <2>1
<1> QED BY <1>2 DEF SentIn

LEMMA BoundedInit == Init => Bounded
<1> SUFFICES ASSUME Init PROVE Bounded
  OBVIOUS
<1>1. \A w \in Windows : /\ counter[w].count = 0 /\ late[<<"INCR", w>>] = 0
                         /\ Cardinality(SentIn(request, w)) \in Nat
  BY LateKeys, SentFinite DEF Init, NoKey
<1>2. \A w \in Windows :
        counter[w].count + late[<<"INCR", w>>] <= Cardinality(SentIn(request, w))
  <2> SUFFICES ASSUME NEW w \in Windows
               PROVE  counter[w].count + late[<<"INCR", w>>] <= Cardinality(SentIn(request, w))
    OBVIOUS
  <2>1. /\ counter[w].count = 0 /\ late[<<"INCR", w>>] = 0
        /\ Cardinality(SentIn(request, w)) \in Nat
    BY <1>1
  <2> QED BY <2>1
<1>3. \A r \in Requests : At(r, "none")
  BY DEF Init
<1> QED BY <1>2, <1>3 DEF Bounded

\* A request that sends an INCR, counted now, later or never.
LEMMA BoundedGrow ==
  ASSUME Inv, Bounded, NEW r \in Requests, NEW rec \in Request,
         request' = [request EXCEPT ![r] = rec],
         rec.window = Key(r), rec.sent = request[r].sent + 1, rec.pc # "limited",
         counter' \in [Windows -> Counter], late' \in [Late -> Nat],
         counter'[Key(r)].count + late'[<<"INCR", Key(r)>>]
           <= counter[Key(r)].count + late[<<"INCR", Key(r)>>] + 1,
         \A v \in Windows \ {Key(r)} : /\ counter'[v] = counter[v]
                                       /\ late'[<<"INCR", v>>] = late[<<"INCR", v>>],
         rec.pc \in {"none", "incr"} \/ rec.count <= counter[Key(r)].count + 1
  PROVE  Bounded'
<1> DEFINE n(w) == Cardinality(SentIn(request, w))
           m(w) == Cardinality(SentIn(request', w))
           total(w) == counter[w].count + late[<<"INCR", w>>]
<1>0. Inv => TypeOK
  BY DEF Inv
<1>1. /\ request'[r] = rec
      /\ \A x \in Requests \ {r} : request'[x] = request[x]
      /\ \A x \in Requests : request[x].window \in Windows /\ request[x].count \in Nat
      /\ \A v \in Windows : /\ counter[v].count \in Nat /\ counter'[v].count \in Nat
                            /\ late[<<"INCR", v>>] \in Nat /\ late'[<<"INCR", v>>] \in Nat
  BY LateKeys DEF Inv, TypeOK
<1>2. /\ \A w \in Windows : n(w) \in Nat /\ m(w) \in Nat
      /\ m(Key(r)) = n(Key(r)) + 1
      /\ \A w \in Windows : w # Key(r) => m(w) = n(w)
  <2>1. \A w \in Windows : n(w) \in Nat /\ m(w) \in Nat
    BY SentFinite
  <2>2. rec.sent <= Sends
    OBVIOUS
  <2>3. /\ Cardinality(SentIn(request', Key(r))) = Cardinality(SentIn(request, Key(r))) + 1
        /\ \A w \in Windows : w # Key(r) => SentIn(request', w) = SentIn(request, w)
    BY <1>0, <2>2, SentGrows
  <2> QED BY <2>1, <2>3
<1>3. /\ \A w \in Windows : counter[w].count + late[<<"INCR", w>>] <= n(w)
      /\ \A x \in Requests : ~At(x, "none") /\ ~At(x, "incr") => request[x].count <= n(Key(x))
  BY DEF Bounded
<1> HIDE DEF n, m
<1>4. ASSUME NEW w \in Windows PROVE counter'[w].count + late'[<<"INCR", w>>] <= m(w)
  <2>1. CASE w = Key(r)
    <3>1. /\ counter'[w].count + late'[<<"INCR", w>>] <= counter[w].count + late[<<"INCR", w>>] + 1
          /\ counter[w].count + late[<<"INCR", w>>] <= n(w) /\ m(w) = n(w) + 1
      BY <2>1, <1>2, <1>3
    <3>2. /\ counter[w].count \in Nat /\ counter'[w].count \in Nat /\ n(w) \in Nat
          /\ late[<<"INCR", w>>] \in Nat /\ late'[<<"INCR", w>>] \in Nat
      BY <1>1, <1>2
    <3> QED BY ONLY <3>1, <3>2
  <2>2. CASE w # Key(r)
    <3>1. counter'[w] = counter[w] /\ late'[<<"INCR", w>>] = late[<<"INCR", w>>] /\ m(w) = n(w)
      BY <2>2, <1>2
    <3> QED BY <3>1, <1>3
  <2> QED BY <2>1, <2>2
<1>5. ASSUME NEW x \in Requests, request'[x].pc \notin {"none", "incr"}
      PROVE  request'[x].count <= m(request'[x].window)
  <2>1. CASE x = r
    <3>1. /\ Key(r) \in Windows /\ counter[Key(r)].count \in Nat
          /\ late[<<"INCR", Key(r)>>] \in Nat /\ n(Key(r)) \in Nat /\ rec.count \in Nat
      BY <1>1, <1>2
    <3>2. /\ counter[Key(r)].count + late[<<"INCR", Key(r)>>] <= n(Key(r))
          /\ m(Key(r)) = n(Key(r)) + 1
      BY <3>1, <1>2, <1>3
    <3>3. rec.count <= counter[Key(r)].count + 1
      BY <1>1, <1>5, <2>1
    <3>4. rec.count <= m(Key(r))
      BY ONLY <3>1, <3>2, <3>3
    <3> QED BY <2>1, <3>4, <1>1
  <2>2. CASE x # r
    <3>1. request'[x] = request[x] /\ request[x].count <= n(Key(x)) /\ Key(x) \in Windows
      BY <2>2, <1>1, <1>3, <1>5
    <3>2. n(Key(x)) \in Nat /\ (m(Key(x)) = n(Key(x)) \/ m(Key(x)) = n(Key(x)) + 1)
      <4>1. CASE Key(x) = Key(r)
        BY <3>1, <4>1, <1>2
      <4>2. CASE Key(x) # Key(r)
        BY <3>1, <4>2, <1>2
      <4> QED BY <4>1, <4>2
    <3>3. request[x].count \in Nat
      BY <1>1
    <3>4. request[x].count <= m(Key(x))
      BY ONLY <3>1, <3>2, <3>3
    <3> QED BY <3>1, <3>4
  <2> QED BY <2>1, <2>2
<1>6. \A x \in Requests : At(x, "limited")' => request'[x].count > Limit
  BY <1>1 DEF Bounded
<1> QED BY <1>4, <1>5, <1>6 DEF Bounded, m

\* Any other step of a request, which sends no INCR.
LEMMA BoundedSame ==
  ASSUME Inv, Bounded, NEW r \in Requests, NEW rec,
         request' = [request EXCEPT ![r] = rec],
         rec.sent = request[r].sent, rec.window = Key(r) \/ rec.sent = 0,
         rec.pc \in {"none", "incr"}
           \/ (rec.window = Key(r) /\ request[r].pc \notin {"none", "incr"}),
         \A v \in Windows : /\ counter'[v].count = counter[v].count
                            /\ late'[<<"INCR", v>>] = late[<<"INCR", v>>],
         rec.count = request[r].count \/ rec.count = 0,
         rec.pc = "limited" => rec.count > Limit
  PROVE  Bounded'
<1>0. Inv => TypeOK
  BY DEF Inv
<1>1. /\ request'[r] = rec
      /\ \A x \in Requests \ {r} : request'[x] = request[x]
      /\ \A x \in Requests : request[x].window \in Windows
  BY DEF Inv, TypeOK
<1>2. \A w \in Windows : SentIn(request', w) = SentIn(request, w)
  BY <1>0, SentSame
<1>3. \A w \in Windows :
        counter'[w].count + late'[<<"INCR", w>>] <= Cardinality(SentIn(request', w))
  BY <1>2 DEF Bounded
<1>4. ASSUME NEW x \in Requests, request'[x].pc \notin {"none", "incr"}
      PROVE  request'[x].count <= Cardinality(SentIn(request', request'[x].window))
  <2>1. CASE x = r
    <3>1. request[r].pc \notin {"none", "incr"} /\ rec.window = Key(r) /\ Key(r) \in Windows
      BY <2>1, <1>1, <1>4
    <3>2. request[r].count <= Cardinality(SentIn(request, Key(r)))
      BY <3>1 DEF Bounded
    <3>3. Cardinality(SentIn(request, Key(r))) \in Nat
      BY SentFinite
    <3>4. rec.count <= Cardinality(SentIn(request, Key(r)))
      BY <3>2, <3>3
    <3> QED BY <2>1, <3>1, <3>4, <1>1, <1>2
  <2>2. CASE x # r
    <3>1. request'[x] = request[x] /\ Key(x) \in Windows
      BY <2>2, <1>1
    <3>2. request[x].count <= Cardinality(SentIn(request, Key(x)))
      BY <3>1, <1>4 DEF Bounded
    <3> QED BY <3>1, <3>2, <1>2
  <2> QED BY <2>1, <2>2
<1>5. \A x \in Requests : At(x, "limited")' => request'[x].count > Limit
  BY <1>1 DEF Bounded
<1> QED BY <1>3, <1>4, <1>5 DEF Bounded

LEMMA BoundedIncrement ==
  ASSUME Inv, Bounded, NEW r \in Requests, Increment(r)
  PROVE  Bounded'
<1> DEFINE n == counter[Key(r)].count + 1
<1>1. /\ Key(r) \in Windows /\ n \in Nat /\ Counts(r, n) /\ INCR(Key(r)) /\ UNCHANGED late
      /\ request[r].tries = request[r].sent /\ counter[Key(r)].count \in Nat
      /\ late \in [Late -> Nat]
  BY DEF Inv, TypeOK, Increment, Fresh
<1>2. PICK rec \in Request :
        /\ request' = [request EXCEPT ![r] = rec]
        /\ rec.pc = IF n = 1 THEN "expire" ELSE "ttl"
        /\ rec.window = Key(r) /\ rec.count = n /\ rec.sent = request[r].tries + 1
  BY <1>1, CountsEffect
<1>3. /\ counter' \in [Windows -> Counter]
      /\ counter'[Key(r)].count = counter[Key(r)].count + 1
      /\ \A v \in Windows \ {Key(r)} : counter'[v] = counter[v]
  BY <1>1, IncrTyped DEF Inv
<1>4. rec.pc # "limited" /\ rec.sent = request[r].sent + 1
  BY <1>1, <1>2
<1>5. /\ late' \in [Late -> Nat] /\ late'[<<"INCR", Key(r)>>] = late[<<"INCR", Key(r)>>]
      /\ late[<<"INCR", Key(r)>>] \in Nat
      /\ \A v \in Windows : late'[<<"INCR", v>>] = late[<<"INCR", v>>]
  BY <1>1, LateKeys
<1>6. counter'[Key(r)].count + late'[<<"INCR", Key(r)>>]
        <= counter[Key(r)].count + late[<<"INCR", Key(r)>>] + 1
  <2> DEFINE c == counter[Key(r)].count
             l == late[<<"INCR", Key(r)>>]
             c1 == counter'[Key(r)].count
             l1 == late'[<<"INCR", Key(r)>>]
  <2>1. c \in Nat /\ l \in Nat /\ c1 = c + 1 /\ l1 = l
    BY <1>1, <1>3, <1>5
  <2> HIDE DEF c, l, c1, l1
  <2>2. c1 + l1 <= c + l + 1
    BY ONLY <2>1
  <2> QED BY <2>2 DEF c, l, c1, l1
<1>7. rec.count <= counter[Key(r)].count + 1
  BY <1>1, <1>2
<1> QED BY <1>2, <1>3, <1>4, <1>5, <1>6, <1>7, BoundedGrow

LEMMA BoundedStep ==
  ASSUME Inv, Bounded, NEW r \in Requests, RequestStep(r)
  PROVE  Bounded'
<1>0. /\ request[r] \in Request /\ Key(r) \in Windows
      /\ \A v \in Windows : counter[v].count \in Nat
  BY DEF Inv, TypeOK
<1>1. CASE Increment(r)
  BY <1>1, BoundedIncrement
<1>2. ASSUME ~Increment(r)
      PROVE  Bounded'
  <2>1. PICK pc \in {"ttl", "renew", "decide", "limited", "admitted"} :
          /\ Goto(r, pc)
          /\ pc = "limited" => request[r].count > Limit
          /\ request[r].pc \notin {"none", "incr"}
          /\ (UNCHANGED counter) \/ EXPIRE(Key(r))
          /\ UNCHANGED late
    BY <1>2 DEF RequestStep, SetTtl, ReadTtl, RenewTtl, Decide
  <2> DEFINE rec == [request[r] EXCEPT !.pc = pc, !.tries = 0]
  <2>2. /\ rec.window = Key(r) /\ rec.count = request[r].count /\ rec.pc = pc
        /\ rec.sent = request[r].sent
    BY <1>0
  <2>3. request' = [request EXCEPT ![r] = rec]
    BY <2>1 DEF Goto, Inv, TypeOK
  <2> HIDE DEF rec
  <2>4. \A v \in Windows : counter'[v].count = counter[v].count
    <3>1. CASE UNCHANGED counter
      BY <3>1
    <3>2. CASE EXPIRE(Key(r))
      BY <3>2, <1>0, ExpireTyped DEF Inv
    <3> QED BY <2>1, <3>1, <3>2
  <2>5. rec.pc \notin {"none", "incr"} /\ (rec.pc = "limited" => rec.count > Limit)
    BY <2>1, <2>2
  <2>6. \A v \in Windows : late'[<<"INCR", v>>] = late[<<"INCR", v>>]
    BY <2>1
  <2> QED BY <2>1, <2>2, <2>3, <2>4, <2>5, <2>6, BoundedSame
<1> QED BY <1>1, <1>2

LEMMA BoundedArrive ==
  ASSUME Inv, Bounded, NEW r \in Requests, Arrive(r)
  PROVE  Bounded'
<1> DEFINE rec == [request[r] EXCEPT !.pc = "incr", !.window = window]
<1>1. /\ request[r] \in Request /\ At(r, "none") /\ counter' = counter /\ late' = late
      /\ request[r].sent = 0
  BY DEF Inv, TypeOK, Arrive, Fresh
<1>2. rec.pc = "incr" /\ rec.count = request[r].count /\ rec.sent = request[r].sent
  BY <1>1
<1>3. request' = [request EXCEPT ![r] = rec]
  BY DEF Arrive, Inv, TypeOK
<1> HIDE DEF rec
<1> QED BY <1>1, <1>2, <1>3, BoundedSame

\* What a request gives up before its INCR is answered adds to what Redis is yet to
\* count, and afterwards to nothing that counts.
LEMMA BoundedGivesUp ==
  ASSUME Inv, Bounded, NEW r \in Requests, NEW rec \in Request,
         request' = [request EXCEPT ![r] = rec], rec.window = Key(r),
         rec.sent = IF At(r, "incr") THEN request[r].sent + 1 ELSE request[r].sent,
         IF At(r, "incr") THEN GivesUp(r, "INCR")
           ELSE GivesUp(r, "EXPIRE") \/ UNCHANGED <<window, tick, counter, late>>,
         ~At(r, "none"), rec.pc # "limited",
         At(r, "incr") => rec.pc = "incr" \/ rec.count = 0,
         rec.count = request[r].count \/ rec.count = 0
  PROVE  Bounded'
<1>0. /\ Key(r) \in Windows /\ counter[Key(r)].count \in Nat /\ late \in [Late -> Nat]
      /\ late[<<"INCR", Key(r)>>] \in Nat /\ counter \in [Windows -> Counter]
      /\ \A v \in Windows : <<"INCR", v>> \in Late
  BY LateKeys DEF Inv, TypeOK
<1>1. CASE At(r, "incr")
  <2>1. /\ late' \in [Late -> Nat] /\ UNCHANGED counter
        /\ \A c \in Late : c # <<"INCR", Key(r)>> => late'[c] = late[c]
        /\ late'[<<"INCR", Key(r)>>]
             \in {late[<<"INCR", Key(r)>>], late[<<"INCR", Key(r)>>] + 1}
    BY <1>1, GivesUpEffect
  <2>2. \A v \in Windows \ {Key(r)} : /\ counter'[v] = counter[v]
                                      /\ late'[<<"INCR", v>>] = late[<<"INCR", v>>]
    <3> SUFFICES ASSUME NEW v \in Windows, v # Key(r)
                 PROVE  late'[<<"INCR", v>>] = late[<<"INCR", v>>]
      BY <2>1
    <3>1. <<"INCR", v>> # <<"INCR", Key(r)>>
      OBVIOUS
    <3> QED BY <1>0, <2>1, <3>1
  <2>3. counter'[Key(r)].count + late'[<<"INCR", Key(r)>>]
          <= counter[Key(r)].count + late[<<"INCR", Key(r)>>] + 1
    <3> DEFINE c == counter[Key(r)].count
               l == late[<<"INCR", Key(r)>>]
               c1 == counter'[Key(r)].count
               l1 == late'[<<"INCR", Key(r)>>]
    <3>1. c \in Nat /\ l \in Nat /\ c1 = c /\ (l1 = l \/ l1 = l + 1)
      BY <1>0, <2>1
    <3> HIDE DEF c, l, c1, l1
    <3>2. c1 + l1 <= c + l + 1
      BY ONLY <3>1
    <3> QED BY <3>2 DEF c, l, c1, l1
  <2>4. rec.pc \in {"none", "incr"} \/ rec.count <= counter[Key(r)].count + 1
    BY <1>0, <1>1
  <2> QED BY <1>0, <1>1, <2>1, <2>2, <2>3, <2>4, BoundedGrow
<1>2. CASE ~At(r, "incr")
  <2>1. \A v \in Windows : /\ counter'[v].count = counter[v].count
                           /\ late'[<<"INCR", v>>] = late[<<"INCR", v>>]
    <3>1. CASE UNCHANGED <<window, tick, counter, late>>
      BY <3>1
    <3>2. CASE GivesUp(r, "EXPIRE")
      <4>1. /\ UNCHANGED counter
            /\ \A c \in Late : c # <<"EXPIRE", Key(r)>> => late'[c] = late[c]
        BY <3>2, GivesUpEffect
      <4> QED BY <1>0, <4>1
    <3> QED BY <1>2, <3>1, <3>2
  <2>2. request[r].pc \notin {"none", "incr"}
    BY <1>2
  <2> QED BY <1>2, <2>1, <2>2, BoundedSame
<1> QED BY <1>1, <1>2

LEMMA BoundedFails ==
  ASSUME Inv, Bounded, NEW r \in Requests, RedisFails(r) \/ TimesOut(r)
  PROVE  Bounded'
<1>1. PICK rec \in Request :
        /\ request' = [request EXCEPT ![r] = rec]
        /\ rec.window = Key(r)
        /\ rec.sent = IF At(r, "incr") THEN request[r].sent + 1 ELSE request[r].sent
        /\ rec.pc \in {request[r].pc, "unavailable", "unlimited"}
        /\ At(r, "incr") => rec.pc = "incr" \/ rec.count = 0
        /\ rec.count = request[r].count \/ rec.count = 0
  <2>1. CASE RedisFails(r)
    BY <2>1, RedisFailsEffect
  <2>2. CASE TimesOut(r)
    BY <2>2, TimesOutEffect
  <2> QED BY <2>1, <2>2
<1>2. request[r].pc \in {"incr", "expire", "renew", "ttl"}
  BY DEF RedisFails, TimesOut
<1>3. IF At(r, "incr") THEN GivesUp(r, "INCR")
        ELSE GivesUp(r, "EXPIRE") \/ UNCHANGED <<window, tick, counter, late>>
  BY DEF RedisFails, TimesOut
<1> QED BY <1>1, <1>2, <1>3, BoundedGivesUp

LEMMA BoundedLate ==
  ASSUME Inv, Bounded, NEW w \in Windows, ExecuteLate(w)
  PROVE  Bounded'
<1>0. /\ late \in [Late -> Nat] /\ \A v \in Windows : <<"INCR", v>> \in Late
      /\ \A v \in Windows : counter[v].count \in Nat /\ late[<<"INCR", v>>] \in Nat
  BY LateKeys DEF Inv, TypeOK
<1>1. ASSUME NEW v \in Windows
      PROVE  counter'[v].count + late'[<<"INCR", v>>] = counter[v].count + late[<<"INCR", v>>]
  <2>1. CASE INCR(w) /\ late' = [late EXCEPT ![<<"INCR", w>>] = @ - 1]
    <3>1. /\ counter'[w].count = counter[w].count + 1
          /\ \A u \in Windows \ {w} : counter'[u] = counter[u]
      BY <2>1, IncrTyped DEF Inv
    <3>2. late'[<<"INCR", v>>] = IF v = w THEN late[<<"INCR", v>>] - 1 ELSE late[<<"INCR", v>>]
      BY <1>0, <2>1
    <3> QED BY <1>0, <3>1, <3>2
  <2>2. CASE EXPIRE(w) /\ late' = [late EXCEPT ![<<"EXPIRE", w>>] = @ - 1]
    <3>1. counter'[v].count = counter[v].count
      BY <2>2, ExpireTyped DEF Inv
    <3>2. late'[<<"INCR", v>>] = late[<<"INCR", v>>]
      BY <1>0, <2>2
    <3> QED BY <3>1, <3>2
  <2> QED BY <2>1, <2>2, ExecuteLateEffect
<1>2. UNCHANGED request
  BY ExecuteLateEffect
<1>3. \A v \in Windows :
        counter'[v].count + late'[<<"INCR", v>>] <= Cardinality(SentIn(request', v))
  BY <1>1, <1>2 DEF Bounded
<1> QED BY <1>2, <1>3 DEF Bounded

LEMMA BoundedTick ==
  ASSUME Inv, Bounded, Tick
  PROVE  Bounded'
<1>1. request' = request /\ late' = late
  BY TickEffect
<1>2. \A v \in Windows : /\ counter'[v].count = counter[v].count \/ counter'[v].count = 0
                         /\ counter[v].count \in Nat /\ late[<<"INCR", v>>] \in Nat
  BY LateKeys, TickEffect DEF Inv, TypeOK
<1>3. \A w \in Windows : Cardinality(SentIn(request, w)) \in Nat
  BY SentFinite
<1>4. \A w \in Windows :
        counter'[w].count + late'[<<"INCR", w>>] <= Cardinality(SentIn(request', w))
  <2> SUFFICES ASSUME NEW w \in Windows
               PROVE  counter'[w].count + late[<<"INCR", w>>] <= Cardinality(SentIn(request, w))
    BY <1>1
  <2>1. counter[w].count + late[<<"INCR", w>>] <= Cardinality(SentIn(request, w))
    BY DEF Bounded
  <2>2. /\ counter'[w].count = counter[w].count \/ counter'[w].count = 0
        /\ counter[w].count \in Nat /\ late[<<"INCR", w>>] \in Nat
        /\ Cardinality(SentIn(request, w)) \in Nat
    BY <1>2, <1>3
  <2> QED BY ONLY <2>1, <2>2
<1> QED BY <1>1, <1>4 DEF Bounded

LEMMA BoundedHolds == Spec => []Bounded
<1>1. ASSUME Inv, Bounded, [Next]_vars PROVE Bounded'
  <2>1. CASE UNCHANGED vars
    BY <1>1, <2>1 DEF vars, Bounded
  <2> QED BY <1>1, <2>1, BoundedTick, BoundedArrive, BoundedStep, BoundedFails, BoundedLate
          DEF Next
<1> QED BY BoundedInit, SpecInv, <1>1, PTL DEF Spec

\* For any number of requests, any limit and any number of times the client sends a
\* command: a caller is refused only after the requests of the same window sent more
\* INCRs than the limit, failed and repeated ones included.
THEOREM RefusalIsEarned == Spec => []NoEarlyRefusal
<1>1. Inv /\ Bounded => NoEarlyRefusal
  <2> SUFFICES ASSUME Inv, Bounded, NEW r \in Requests, At(r, "limited")
               PROVE  Cardinality(Sent(Key(r))) > Limit
    BY DEF NoEarlyRefusal
  <2>1. Sent(Key(r)) = SentIn(request, Key(r))
    BY DEF Sent, SentIn
  <2>2. request[r].count \in Nat /\ Cardinality(SentIn(request, Key(r))) \in Nat
    BY SentFinite DEF Inv, TypeOK
  <2>3. request[r].count > Limit /\ request[r].count <= Cardinality(SentIn(request, Key(r)))
    BY DEF Bounded
  <2>4. Cardinality(SentIn(request, Key(r))) > Limit
    BY <2>2, <2>3
  <2> QED BY <2>1, <2>4
<1> QED BY <1>1, SpecInv, BoundedHolds, PTL

----------------------------------------------------------------------------
(* The atomic limiter.                                                     *)

Used == [w \in Windows |-> counter[w].count]

Due == [w \in Windows |-> late[<<"INCR", w>>]]

Claims == [r \in Requests |-> ClaimOf(request[r])]

AtomicStep == [Atomic!Next]_<<window, Used, Due, Claims>>

Judged == {"expire", "ttl", "renew", "decide"}

LEMMA ClaimFields ==
  ASSUME NEW q
  PROVE  /\ q.pc = "none" => ClaimOf(q).phase = "none"
         /\ q.pc = "incr" => ClaimOf(q).phase = "asked"
         /\ q.pc \in Judged =>
              ClaimOf(q).phase = "judged" /\ ClaimOf(q).pass = (q.count <= Limit)
         /\ q.pc \in {"admitted", "limited"} =>
              ClaimOf(q).phase = "answered" /\ ClaimOf(q).pass = (q.pc = "admitted")
         /\ q.pc \in {"unlimited", "unavailable"} =>
              ClaimOf(q).phase = "lost" /\ ClaimOf(q).pass = FALSE
         /\ q.pc \in {"none", "incr"} => ClaimOf(q).pass = FALSE
         /\ ClaimOf(q).window = q.window /\ ClaimOf(q).sent = q.sent
         /\ ClaimOf(q) = [sent |-> ClaimOf(q).sent, phase |-> ClaimOf(q).phase,
                          window |-> ClaimOf(q).window, pass |-> ClaimOf(q).pass]
BY DEF ClaimOf, Judged

\* A request that moves, moves its claim.
LEMMA ClaimsMove ==
  ASSUME Inv, NEW r \in Requests, NEW q, request' = [request EXCEPT ![r] = q]
  PROVE  /\ Claims' = [Claims EXCEPT ![r] = ClaimOf(q)]
         /\ Claims[r] = ClaimOf(request[r])
<1>1. \A x \in Requests : request'[x] = IF x = r THEN q ELSE request[x]
  BY DEF Inv, TypeOK
<1>2. Claims' = [x \in Requests |-> ClaimOf(request'[x])]
  BY DEF Claims
<1>3. \A x \in Requests : ClaimOf(request'[x]) = IF x = r THEN ClaimOf(q) ELSE ClaimOf(request[x])
  BY <1>1
<1>4. Claims = [x \in Requests |-> ClaimOf(request[x])]
  BY DEF Claims
<1> QED BY <1>2, <1>3, <1>4

\* The move of a claim that keeps its window.
LEMMA BecomesStep ==
  ASSUME Inv, NEW r \in Requests, NEW q, request' = [request EXCEPT ![r] = q],
         q.window = Key(r)
  PROVE  Claims' = [Claims EXCEPT ![r] = [sent |-> q.sent, phase |-> ClaimOf(q).phase,
                                          window |-> @.window, pass |-> ClaimOf(q).pass]]
<1>1. ClaimOf(q).window = Key(r) /\ ClaimOf(request[r]).window = Key(r) /\ ClaimOf(q).sent = q.sent
  <2>1. ClaimOf(q).window = q.window /\ ClaimOf(q).sent = q.sent
    BY ClaimFields
  <2>2. ClaimOf(request[r]).window = request[r].window
    BY ClaimFields
  <2> QED BY <2>1, <2>2
<1>2. ClaimOf(q) = [sent |-> q.sent, phase |-> ClaimOf(q).phase, window |-> Key(r),
                    pass |-> ClaimOf(q).pass]
  BY <1>1, ClaimFields
<1>3. Claims' = [Claims EXCEPT ![r] = ClaimOf(q)] /\ Claims[r] = ClaimOf(request[r])
  BY ClaimsMove
<1> QED BY <1>1, <1>2, <1>3 DEF Claims

LEMMA CountStep ==
  ASSUME Inv, NEW w \in Windows, INCR(w)
  PROVE  Used' = [Used EXCEPT ![w] = @ + 1]
<1>1. \A v \in Windows :
        counter'[v].count = IF v = w THEN counter[w].count + 1 ELSE counter[v].count
  BY IncrTyped DEF Inv
<1>2. Used' = [v \in Windows |-> counter'[v].count]
  BY DEF Used
<1> QED BY <1>1, <1>2 DEF Used

LEMMA ExpireUsed ==
  ASSUME Inv, NEW w \in Windows, EXPIRE(w)
  PROVE  UNCHANGED Used
BY ExpireTyped DEF Inv, Used

\* What is due after a command is given up, and after a late one is executed.
LEMMA GivesUpDue ==
  ASSUME Inv, NEW r \in Requests, NEW name \in {"INCR", "EXPIRE"}, GivesUp(r, name)
  PROVE  /\ name = "INCR" => UNCHANGED Due \/ Due' = [Due EXCEPT ![Key(r)] = @ + 1]
         /\ name = "EXPIRE" => UNCHANGED Due
         /\ UNCHANGED <<window, Used>>
<1>1. /\ late \in [Late -> Nat] /\ \A v \in Windows : <<"INCR", v>> \in Late
      /\ Key(r) \in Windows
  BY LateKeys DEF Inv, TypeOK
<1>2. /\ UNCHANGED window /\ UNCHANGED counter
      /\ UNCHANGED late \/ late' = [late EXCEPT ![<<name, Key(r)>>] = @ + 1]
  BY GivesUpEffect
<1>3. Due' = [v \in Windows |-> late'[<<"INCR", v>>]]
  BY DEF Due
<1>4. CASE UNCHANGED late
  BY <1>2, <1>3, <1>4 DEF Due, Used
<1>5. CASE name = "INCR" /\ late' = [late EXCEPT ![<<"INCR", Key(r)>>] = @ + 1]
  <2>1. \A v \in Windows :
          late'[<<"INCR", v>>]
            = IF v = Key(r) THEN late[<<"INCR", v>>] + 1 ELSE late[<<"INCR", v>>]
    BY <1>1, <1>5
  <2>2. Due' = [Due EXCEPT ![Key(r)] = @ + 1]
    BY <1>1, <1>3, <2>1 DEF Due
  <2> QED BY <1>2, <1>5, <2>2 DEF Used
<1>6. CASE name = "EXPIRE" /\ late' = [late EXCEPT ![<<"EXPIRE", Key(r)>>] = @ + 1]
  <2>1. \A v \in Windows : late'[<<"INCR", v>>] = late[<<"INCR", v>>]
    BY <1>1, <1>6
  <2> QED BY <1>2, <1>3, <1>6, <2>1 DEF Due, Used
<1> QED BY <1>2, <1>4, <1>5, <1>6

LEMMA ExecuteLateClaim ==
  ASSUME Inv, NEW w \in Windows, ExecuteLate(w)
  PROVE  AtomicStep
<1>1. late \in [Late -> Nat] /\ \A v \in Windows : <<"INCR", v>> \in Late
  BY LateKeys DEF Inv, TypeOK
<1>2. UNCHANGED window /\ UNCHANGED Claims
  BY ExecuteLateEffect DEF Claims
<1>3. Due' = [v \in Windows |-> late'[<<"INCR", v>>]]
  BY DEF Due
<1>4. CASE /\ INCR(w) /\ late[<<"INCR", w>>] > 0
           /\ late' = [late EXCEPT ![<<"INCR", w>>] = @ - 1]
  <2>1. \A v \in Windows :
          late'[<<"INCR", v>>] = IF v = w THEN late[<<"INCR", v>>] - 1 ELSE late[<<"INCR", v>>]
    BY <1>1, <1>4
  <2>2. Due' = [Due EXCEPT ![w] = @ - 1] /\ Due[w] > 0
    BY <1>3, <1>4, <2>1 DEF Due
  <2>3. Used' = [Used EXCEPT ![w] = @ + 1]
    BY <1>4, CountStep
  <2>4. Atomic!CountLate(w)
    BY <1>2, <2>2, <2>3 DEF Atomic!CountLate, Atomic!Count, Used, Due, Claims
  <2> QED BY <2>4 DEF AtomicStep, Atomic!Next
<1>5. CASE EXPIRE(w) /\ late' = [late EXCEPT ![<<"EXPIRE", w>>] = @ - 1]
  <2>1. \A v \in Windows : late'[<<"INCR", v>>] = late[<<"INCR", v>>]
    BY <1>1, <1>5
  <2>2. UNCHANGED Due
    BY <1>3, <2>1 DEF Due
  <2> QED BY <1>2, <1>5, <2>2, ExpireUsed DEF AtomicStep
<1> QED BY <1>4, <1>5, ExecuteLateEffect

\* A request that goes on between its count and its answer.
LEMMA SameClaim ==
  ASSUME Inv, NEW r \in Requests, NEW q, request' = [request EXCEPT ![r] = q],
         q.pc \in Judged, request[r].pc \in Judged,
         q.window = Key(r), q.count = request[r].count, q.sent = request[r].sent,
         UNCHANGED <<window, Used, Due>>
  PROVE  AtomicStep
<1>1. ClaimOf(q).phase = "judged" /\ ClaimOf(q).pass = (q.count <= Limit)
  BY ClaimFields
<1>2. /\ ClaimOf(request[r]).phase = "judged"
      /\ ClaimOf(request[r]).pass = (request[r].count <= Limit)
  BY ClaimFields
<1>3. /\ ClaimOf(q).window = q.window /\ ClaimOf(request[r]).window = Key(r)
      /\ ClaimOf(q).sent = q.sent /\ ClaimOf(request[r]).sent = request[r].sent
  BY ClaimFields
<1>4. ClaimOf(q) = ClaimOf(request[r])
  <2>1. /\ ClaimOf(q).phase = ClaimOf(request[r]).phase
        /\ ClaimOf(q).window = ClaimOf(request[r]).window
        /\ ClaimOf(q).pass = ClaimOf(request[r]).pass
        /\ ClaimOf(q).sent = ClaimOf(request[r]).sent
    BY <1>1, <1>2, <1>3
  <2> QED BY <2>1, ClaimFields
<1>5. Claims' = Claims
  BY <1>4, ClaimsMove DEF Claims
<1> QED BY <1>5 DEF AtomicStep

LEMMA GotoClaim ==
  ASSUME Inv, NEW r \in Requests, NEW pc \in Judged, request[r].pc \in Judged,
         Goto(r, pc), UNCHANGED window, UNCHANGED late, UNCHANGED Used
  PROVE  AtomicStep
<1> DEFINE q == [request[r] EXCEPT !.pc = pc, !.tries = 0]
<1>1. /\ q.pc = pc /\ q.window = Key(r) /\ q.count = request[r].count
      /\ q.sent = request[r].sent
  BY DEF Inv, TypeOK
<1>2. request' = [request EXCEPT ![r] = q]
  BY DEF Goto, Inv, TypeOK
<1>3. UNCHANGED Due
  BY DEF Due
<1> HIDE DEF q
<1> QED BY <1>1, <1>2, <1>3, SameClaim

LEMMA ArriveClaim ==
  ASSUME Inv, NEW r \in Requests, Arrive(r)
  PROVE  AtomicStep
<1> DEFINE q == [request[r] EXCEPT !.pc = "incr", !.window = window]
<1>1. q.pc = "incr" /\ q.window = window /\ q.sent = 0
  BY DEF Inv, TypeOK, Arrive, Fresh
<1>2. request' = [request EXCEPT ![r] = q]
  BY DEF Arrive, Inv, TypeOK
<1> HIDE DEF q
<1>3. ClaimOf(q) = [sent |-> 0, phase |-> "asked", window |-> window, pass |-> FALSE]
  BY <1>1, ClaimFields
<1>4. ClaimOf(request[r]).phase = "none"
  BY ClaimFields DEF Arrive
<1>5. window \in Windows /\ UNCHANGED <<window, Used, Due>>
  BY DEF Arrive, Used, Due
<1>6. /\ Claims[r].phase = "none"
      /\ Claims' = [Claims EXCEPT ![r] = [sent |-> 0, phase |-> "asked", window |-> window,
                                        pass |-> FALSE]]
  <2>1. Claims' = [Claims EXCEPT ![r] = ClaimOf(q)] /\ Claims[r] = ClaimOf(request[r])
    BY <1>2, ClaimsMove
  <2> QED BY <1>3, <1>4, <2>1
<1>7. Atomic!Arrive(r)
  BY <1>5, <1>6 DEF Atomic!Arrive, Claims, Used, Due
<1> QED BY <1>7 DEF AtomicStep, Atomic!Next

\* A request at its INCR is a claim that may ask.
LEMMA AskedClaim ==
  ASSUME Inv, NEW r \in Requests, At(r, "incr")
  PROVE  /\ Claims[r].phase = "asked" /\ Claims[r].window = Key(r) /\ Key(r) \in Windows
         /\ Claims[r].sent = request[r].sent /\ request[r].sent < Sends
         /\ request[r].tries = request[r].sent
<1>1. /\ request[r].tries = request[r].sent /\ request[r].tries \in 0..(Sends - 1)
      /\ Key(r) \in Windows
  BY DEF Inv, TypeOK, Fresh
<1>2. /\ ClaimOf(request[r]).phase = "asked" /\ ClaimOf(request[r]).window = Key(r)
      /\ ClaimOf(request[r]).sent = request[r].sent
  BY ClaimFields
<1> QED BY <1>1, <1>2 DEF Claims

LEMMA IncrementClaim ==
  ASSUME Inv, NEW r \in Requests, Increment(r)
  PROVE  AtomicStep
<1> DEFINE w == Key(r)
           n == counter[w].count + 1
<1>1. w \in Windows /\ counter[w].count \in Nat /\ n \in Nat /\ Counts(r, n) /\ INCR(w)
  BY DEF Inv, TypeOK, Increment
<1>2. PICK q \in Request :
        /\ request' = [request EXCEPT ![r] = q]
        /\ q.pc = IF n = 1 THEN "expire" ELSE "ttl"
        /\ q.window = w /\ q.count = n /\ q.sent = request[r].tries + 1
  BY <1>1, CountsEffect
<1>3. /\ Claims[r].phase = "asked" /\ Claims[r].window = w
      /\ Claims[r].sent < Sends /\ q.sent = Claims[r].sent + 1
  BY <1>2, AskedClaim DEF Increment
<1>4. q.pc \in Judged
  BY <1>2 DEF Judged
<1>5. ClaimOf(q).phase = "judged" /\ ClaimOf(q).pass = (counter[w].count < Limit)
  <2>1. (n <= Limit) = (counter[w].count < Limit)
    BY <1>1
  <2> QED BY <1>2, <1>4, <2>1, ClaimFields
<1>6. Claims' = [Claims EXCEPT ![r] = [sent |-> q.sent, phase |-> "judged", window |-> @.window,
                                      pass |-> counter[w].count < Limit]]
  <2> DEFINE pass == counter[w].count < Limit
  <2>1. ClaimOf(q).pass = pass
    BY <1>5
  <2>2. Claims' = [Claims EXCEPT ![r] = [sent |-> q.sent, phase |-> ClaimOf(q).phase,
                                         window |-> @.window, pass |-> ClaimOf(q).pass]]
    BY <1>2, BecomesStep
  <2> HIDE DEF pass
  <2>3. Claims' = [Claims EXCEPT ![r] = [sent |-> q.sent, phase |-> "judged",
                                         window |-> @.window, pass |-> pass]]
    BY ONLY <1>5, <2>1, <2>2
  <2> QED BY <2>3 DEF pass
<1>7. Used' = [Used EXCEPT ![w] = @ + 1] /\ Used[w] = counter[w].count
  BY <1>1, CountStep DEF Used
<1>8. UNCHANGED <<window, Due>>
  BY DEF Increment, Due
<1>9. Atomic!Judge(r)
  BY <1>3, <1>6, <1>7, <1>8
     DEF Atomic!Judge, Atomic!Asked, Atomic!Becomes, Atomic!Count, Claims, Used, Due
<1> QED BY <1>9 DEF AtomicStep, Atomic!Next

LEMMA DecideClaim ==
  ASSUME Inv, NEW r \in Requests, Decide(r)
  PROVE  AtomicStep
<1> DEFINE pc == IF request[r].count > Limit THEN "limited" ELSE "admitted"
           q == [request[r] EXCEPT !.pc = pc, !.tries = 0]
<1>0. request[r].count \in Nat
  BY DEF Inv, TypeOK
<1>1. pc \in {"admitted", "limited"} /\ (pc = "admitted") = (request[r].count <= Limit)
  BY <1>0
<1>2. q.pc = pc /\ q.window = Key(r) /\ q.sent = request[r].sent
  BY DEF Inv, TypeOK
<1>3. request' = [request EXCEPT ![r] = q]
  BY DEF Decide, Goto, Inv, TypeOK
<1> HIDE DEF q, pc
<1>4. /\ ClaimOf(request[r]).phase = "judged" /\ ClaimOf(request[r]).sent = q.sent
      /\ ClaimOf(request[r]).pass = (request[r].count <= Limit)
  BY <1>2, ClaimFields DEF Decide, Judged
<1>5. ClaimOf(q).phase = "answered" /\ ClaimOf(q).pass = ClaimOf(request[r]).pass
  BY <1>1, <1>2, <1>4, ClaimFields
<1>6. Claims' = [Claims EXCEPT ![r] = [sent |-> q.sent, phase |-> "answered", window |-> @.window,
                                      pass |-> ClaimOf(request[r]).pass]]
  BY <1>2, <1>3, <1>5, BecomesStep
<1>7. UNCHANGED <<window, Used, Due>>
  BY DEF Decide, Used, Due
<1>8. Atomic!Answer(r)
  BY <1>4, <1>6, <1>7 DEF Atomic!Answer, Atomic!Becomes, Claims, Used, Due
<1> QED BY <1>8 DEF AtomicStep, Atomic!Next

LEMMA RequestStepClaim ==
  ASSUME Inv, NEW r \in Requests, RequestStep(r)
  PROVE  AtomicStep
<1>0. Key(r) \in Windows
  BY DEF Inv, TypeOK
<1>1. CASE Increment(r)
  BY <1>1, IncrementClaim
<1>2. CASE SetTtl(r)
  BY <1>0, <1>2, ExpireUsed, GotoClaim DEF SetTtl, Judged
<1>3. CASE ReadTtl(r)
  <2>1. PICK pc \in {"renew", "decide"} : Goto(r, pc)
    BY <1>3 DEF ReadTtl
  <2>2. UNCHANGED Used
    BY <1>3 DEF ReadTtl, Used
  <2> QED BY <1>3, <2>1, <2>2, GotoClaim DEF ReadTtl, Judged
<1>4. CASE RenewTtl(r)
  BY <1>0, <1>4, ExpireUsed, GotoClaim DEF RenewTtl, Judged
<1>5. CASE Decide(r)
  BY <1>5, DecideClaim
<1> QED BY <1>1, <1>2, <1>3, <1>4, <1>5 DEF RequestStep

LEMMA TimesOutClaim ==
  ASSUME Inv, NEW r \in Requests, TimesOut(r)
  PROVE  AtomicStep
<1>1. PICK q \in Request :
        /\ request' = [request EXCEPT ![r] = q]
        /\ q.pc = request[r].pc /\ q.window = Key(r) /\ q.count = request[r].count
        /\ q.sent = IF At(r, "incr") THEN request[r].sent + 1 ELSE request[r].sent
  BY TimesOutEffect
<1>2. CASE At(r, "incr")
  <2>1. /\ Claims[r].phase = "asked" /\ Claims[r].window = Key(r)
        /\ Claims[r].sent < Sends /\ q.sent = Claims[r].sent + 1
    BY <1>1, <1>2, AskedClaim
  <2>2. ClaimOf(q).phase = "asked" /\ ClaimOf(q).pass = FALSE
    BY <1>1, <1>2, ClaimFields
  <2>3. Claims' = [Claims EXCEPT ![r] = [sent |-> q.sent, phase |-> "asked",
                                         window |-> @.window, pass |-> FALSE]]
    <3>1. Claims' = [Claims EXCEPT ![r] = [sent |-> q.sent, phase |-> ClaimOf(q).phase,
                                           window |-> @.window, pass |-> ClaimOf(q).pass]]
      BY <1>1, BecomesStep
    <3> QED BY ONLY <2>2, <3>1
  <2>4. /\ UNCHANGED <<window, Used>>
        /\ UNCHANGED Due \/ Due' = [Due EXCEPT ![Key(r)] = @ + 1]
    BY <1>2, GivesUpDue DEF TimesOut
  <2>5. Atomic!AskAgain(r)
    BY <2>1, <2>3, <2>4
       DEF Atomic!AskAgain, Atomic!Asked, Atomic!Becomes, Atomic!Unanswered, Claims, Used, Due
  <2> QED BY <2>5 DEF AtomicStep, Atomic!Next
<1>3. CASE ~At(r, "incr")
  <2>1. UNCHANGED <<window, Used, Due>>
    BY <1>3, GivesUpDue DEF TimesOut
  <2>2. request[r].pc \in Judged
    BY <1>3 DEF TimesOut, Judged
  <2> QED BY <1>1, <1>3, <2>1, <2>2, SameClaim
<1> QED BY <1>2, <1>3

LEMMA RedisFailsClaim ==
  ASSUME Inv, NEW r \in Requests, RedisFails(r)
  PROVE  AtomicStep
<1>1. PICK q \in Request :
        /\ request' = [request EXCEPT ![r] = q]
        /\ q.pc \in {"unavailable", "unlimited"} /\ q.window = Key(r)
        /\ q.sent = IF At(r, "incr") THEN request[r].sent + 1 ELSE request[r].sent
  BY RedisFailsEffect
<1>2. ClaimOf(q).phase = "lost" /\ ClaimOf(q).pass = FALSE
  BY <1>1, ClaimFields
<1>3. Claims' = [Claims EXCEPT ![r] = [sent |-> q.sent, phase |-> "lost",
                                      window |-> @.window, pass |-> FALSE]]
  BY <1>1, <1>2, BecomesStep
<1>4. CASE At(r, "incr")
  <2>1. /\ Claims[r].phase = "asked" /\ Claims[r].window = Key(r)
        /\ Claims[r].sent < Sends /\ q.sent = Claims[r].sent + 1
    BY <1>1, <1>4, AskedClaim
  <2>2. /\ UNCHANGED <<window, Used>>
        /\ UNCHANGED Due \/ Due' = [Due EXCEPT ![Key(r)] = @ + 1]
    BY <1>4, GivesUpDue DEF RedisFails
  <2>3. Atomic!Lose(r)
    BY <1>3, <2>1, <2>2
       DEF Atomic!Lose, Atomic!Asked, Atomic!Becomes, Atomic!Unanswered, Claims, Used, Due
  <2> QED BY <2>3 DEF AtomicStep, Atomic!Next
<1>5. CASE ~At(r, "incr")
  <2>1. UNCHANGED <<window, Used, Due>>
    <3>1. CASE UNCHANGED <<window, tick, counter, late>>
      BY <3>1 DEF Used, Due
    <3>2. CASE GivesUp(r, "EXPIRE")
      BY <3>2, GivesUpDue
    <3> QED BY <1>5, <3>1, <3>2 DEF RedisFails
  <2>2. Claims[r].phase = "judged" /\ Claims[r].sent = request[r].sent
    <3>1. request[r].pc \in Judged
      BY <1>5 DEF RedisFails, Judged
    <3>2. ClaimOf(request[r]).phase = "judged" /\ ClaimOf(request[r]).sent = request[r].sent
      BY <3>1, ClaimFields
    <3> QED BY <3>2 DEF Claims
  <2>3. q.sent = Claims[r].sent
    BY <1>1, <1>5, <2>2
  <2>4. Atomic!Lose(r)
    BY <1>3, <2>1, <2>2, <2>3 DEF Atomic!Lose, Atomic!Becomes, Claims, Used, Due
  <2> QED BY <2>4 DEF AtomicStep, Atomic!Next
<1> QED BY <1>4, <1>5

\* The counts that a tick loses are of windows that are over.
LEMMA TickClaim ==
  ASSUME Inv, Tick
  PROVE  AtomicStep
<1>0. window \in 0..(MaxWindow + 1)
  BY DEF Inv, TypeOK
<1> DEFINE over == {w \in Windows : w < window' /\ counter'[w].count = 0}
<1>1. window' = window \/ (window \in Windows /\ window' = window + 1)
  BY TickEffect
<1>2. ASSUME NEW w \in Windows
      PROVE  counter'[w].count = IF w \in over THEN 0 ELSE counter[w].count
  <2>1. counter'[w].count \in {counter[w].count, 0}
    BY TickEffect
  <2>2. CASE w < window'
    BY <2>1, <2>2
  <2>3. CASE w = window /\ window' = window
    BY <2>3, TickEffect
  <2>4. CASE w > window
    <3>1. counter[w] = NoKey /\ counter'[w] = NoKey
      BY <2>4, TickEffect DEF Inv, Unborn
    <3> QED BY <3>1 DEF NoKey
  <2> QED BY <1>0, <1>1, <2>2, <2>3, <2>4
<1>3. over \in SUBSET {w \in Windows : w < window'}
  OBVIOUS
<1>4. UNCHANGED Claims /\ UNCHANGED Due
  BY TickEffect DEF Claims, Due
<1> HIDE DEF over
<1>5. [w \in Windows |-> counter'[w].count]
        = [w \in Windows |-> IF w \in over THEN 0 ELSE Used[w]]
  BY <1>2 DEF Used
<1>6. Atomic!Pass
  BY <1>1, <1>3, <1>4, <1>5 DEF Atomic!Pass, Claims, Used, Due
<1> QED BY <1>6 DEF AtomicStep, Atomic!Next

\* The calls of a request implement one atomic count and judgement: whatever calls
\* of others come between, however time passes, whatever Redis fails to do and
\* however often the client asks again, a request is answered by what was counted
\* in its window before the INCR it was told of; an INCR it was not told of counts
\* at most once; and no window's count is lost before the window is over.
THEOREM ImplementsAtomicLimiterHolds == Spec => ImplementsAtomicLimiter
<1>1. Init => Atomic!Init
  <2> SUFFICES ASSUME Init PROVE Atomic!Init
    OBVIOUS
  <2>1. \A r \in Requests : ClaimOf(request[r]) = Atomic!NoClaim
    BY DEF Init, ClaimOf, Atomic!NoClaim
  <2>2. \A w \in Windows : late[<<"INCR", w>>] = 0
    BY LateKeys DEF Init
  <2> QED BY <2>1, <2>2 DEF Init, Atomic!Init, NoKey
<1>2. Inv /\ [Next]_vars => [Atomic!Next]_<<window, Used, Due, Claims>>
  <2> SUFFICES ASSUME Inv, [Next]_vars PROVE AtomicStep
    BY DEF AtomicStep
  <2>1. CASE Tick
    BY <2>1, TickClaim
  <2>2. ASSUME NEW w \in Windows, ExecuteLate(w) PROVE AtomicStep
    BY <2>2, ExecuteLateClaim
  <2>3. ASSUME NEW r \in Requests, Arrive(r) PROVE AtomicStep
    BY <2>3, ArriveClaim
  <2>4. ASSUME NEW r \in Requests, RequestStep(r) PROVE AtomicStep
    BY <2>4, RequestStepClaim
  <2>5. ASSUME NEW r \in Requests, TimesOut(r) PROVE AtomicStep
    BY <2>5, TimesOutClaim
  <2>6. ASSUME NEW r \in Requests, RedisFails(r) PROVE AtomicStep
    BY <2>6, RedisFailsClaim
  <2>7. CASE UNCHANGED vars
    BY <2>7 DEF vars, AtomicStep, Used, Due, Claims
  <2> QED BY <2>1, <2>2, <2>3, <2>4, <2>5, <2>6, <2>7 DEF Next
<1>3. Inv /\ [Next]_vars =>
        [Atomic!Next]_<<window, [w \in Windows |-> counter[w].count],
                        [w \in Windows |-> late[<<"INCR", w>>]],
                        [r \in Requests |-> ClaimOf(request[r])]>>
  BY <1>2 DEF Used, Due, Claims
<1> QED BY <1>1, <1>3, SpecInv, PTL DEF Spec, ImplementsAtomicLimiter, Atomic!Spec
=============================================================================
