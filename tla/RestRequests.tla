---------------------------- MODULE RestRequests ----------------------------
(***************************************************************************)
(* Calls of the REST clients from the moment their request is signed until *)
(* the caller has a result: the attempts of the session and of             *)
(* async_retry_decorator, the waits between them, requests that are        *)
(* executed although their answer is lost or comes too late, rate limits,  *)
(* and the event loop that one rate-limited coroutine blocks for all.      *)
(* Time is counted in waits of the decorator (RETRY_INTERVAL, 5 s), which  *)
(* is also the timeout of an asynchronous request.  The exchange and the   *)
(* network are external.                                                   *)
(***************************************************************************)
EXTENDS Naturals, RestClients

CONSTANTS
  Calls,        \* calls in progress at the same time
  Menu,         \* Menu[k]: the shapes call k may have
  RecvWindow,   \* age at which a signed request is still accepted
  RetryTimes,   \* retries of async_retry_decorator
  Resends,      \* total of the session's Retry
  RetryAfter    \* a rate limit's Retry-After

ConstantsAssumption ==
  /\ Menu \in [Calls -> SUBSET [op : Operations, by : Senders]]
  /\ RecvWindow \in Nat /\ RetryTimes \in Nat /\ Resends \in Nat
  /\ RetryAfter \in Nat \ {0}
ASSUME ConstantsAssumption

\* What every row of the tables has in common: a GET and a public request
\* change nothing, and answers keep apart what was done and what was not.
MenuAssumption ==
  \A k \in Calls : \A r \in Menu[k] :
    /\ r.op.kind # "read" => r.op.http # "GET" /\ r.op.signed # "public"
    /\ r.op.http # "GET" => r.op.after # "rate"
    /\ "data" \notin r.by.refused
    /\ r.by.good \cap {"refused", "body", "none"} = {}
ASSUME MenuAssumption

HashkeyTries == 3          \* RETRY_FREQUENCY of the HashKey client
MaxAge == RecvWindow + 1   \* bound: any older request is as old as this
MaxTimer == MaxAge + RetryAfter

VARIABLES
  row,       \* row[k]: the shape of call k
  pc,        \* pc[k]: "idle", "ready", "wait", "sleep", "limited" or "done"
  leg,       \* leg[k]: 1 while a request goes before the one it is about
  amiss,     \* amiss[k]: the first request brought nothing
  age,       \* age[k]: time since its parameters were signed
  timer,     \* timer[k]: what is left of its sleep or timeout
  tries,     \* tries[k]: attempts that the client has repeated
  resent,    \* resent[k]: attempts that the session has repeated
  reply,     \* reply[k]: "none", "out" (on its way), or the exchange's answer
  stale,     \* stale[k]: earlier requests of it that are still on their way
  executed,  \* executed[k]: how often the exchange has executed it
  resting,   \* resting[k]: an order with its client id is in the book
  result,    \* result[k]: what its caller got
  loop       \* how long time.sleep still blocks the event loop

vars == <<row, pc, leg, amiss, age, timer, tries, resent, reply, stale,
          executed, resting, result, loop>>
exchange == <<executed, resting>>

Op0 == Op("GET", "public", "read")
Init ==
  /\ row = [k \in Calls |-> [op |-> Op0, by |-> BinanceSync]]
  /\ pc = [k \in Calls |-> "idle"]
  /\ leg = [k \in Calls |-> 2]
  /\ amiss = [k \in Calls |-> FALSE]
  /\ age = [k \in Calls |-> 0]
  /\ timer = [k \in Calls |-> 0]
  /\ tries = [k \in Calls |-> 0]
  /\ resent = [k \in Calls |-> 0]
  /\ reply = [k \in Calls |-> "none"]
  /\ stale = [k \in Calls |-> 0]
  /\ executed = [k \in Calls |-> 0]
  /\ resting = [k \in Calls |-> FALSE]
  /\ result = [k \in Calls |-> "none"]
  /\ loop = 0

O(k) == row[k].op
By(k) == row[k].by
Async(k) == By(k).failed = "retry"
Http(k) == IF leg[k] = 1 THEN "GET" ELSE O(k).http
\* A coroutine runs only while nobody blocks the event loop.
Runs(k) == Async(k) => loop = 0
Set(f, k, v) == [f EXCEPT ![k] = v]
Older(n) == IF n < MaxAge THEN n + 1 ELSE n
Less(n) == IF n > 0 THEN n - 1 ELSE 0

-----------------------------------------------------------------------------
\* The caller's side.

\* An operation is called: _make_private_url signs its parameters, once.
Invoke(k) ==
  /\ pc[k] = "idle"
  /\ \E r \in Menu[k] :
       /\ r.by.failed = "retry" => loop = 0
       /\ row' = Set(row, k, r)
       /\ \E l \in CASE r.op.before = "nothing" -> {2}
                     [] r.op.before = "cached" -> {1, 2}
                     [] OTHER -> {1} :
            leg' = Set(leg, k, l)
  /\ pc' = Set(pc, k, "ready")
  /\ age' = Set(age, k, 0)
  /\ UNCHANGED <<amiss, timer, tries, resent, reply, stale, exchange, result, loop>>

\* What the method makes of the way its last request ended.
Outcome(k, e) ==
  CASE O(k).after = "filter" /\ e \in {"none", "value", "body"} -> "empty"
    [] O(k).after = "swallow" /\ e = "raised" -> "empty"
    [] O(k).after = "rate" /\ e # "data" -> "none"
    [] O(k).after = "index" /\ e # "data" -> "raised"
    [] OTHER -> e

Return(k, e) ==
  /\ pc' = Set(pc, k, "done")
  /\ result' = Set(result, k, e)
  /\ UNCHANGED <<leg, amiss, age, timer, tries, resent>>

\* The first of two requests has ended: the second is signed now.
NextLeg(k, missing) ==
  /\ pc' = Set(pc, k, "ready")
  /\ leg' = Set(leg, k, 2)
  /\ amiss' = Set(amiss, k, missing)
  /\ age' = Set(age, k, 0)
  /\ tries' = Set(tries, k, 0)
  /\ resent' = Set(resent, k, 0)
  /\ UNCHANGED <<timer, result>>

\* The first of two requests must bring what the second one needs: None, an
\* exception or a body without it makes the method raise.  But
\* get_transfer_history_sub only adds up its two results at the end, and an
\* order is placed even if the answer held no account.
Enough(k, e) ==
  \/ e = "data"
  \/ O(k).before = "both" /\ e # "raised"
  \/ O(k).before = "cached" /\ e = "body"

\* A request has ended in e.
Finish(k, e) ==
  \/ /\ leg[k] = 2
     /\ Return(k, IF O(k).before = "both" /\ (amiss[k] \/ e = "none")
                  THEN "raised" ELSE Outcome(k, e))
  \/ /\ leg[k] = 1 /\ Enough(k, e)
     /\ NextLeg(k, e # "data" /\ (O(k).before = "cached" \/ e = "none"))
  \/ /\ leg[k] = 1 /\ ~Enough(k, e)
     /\ Return(k, Outcome(k, "raised"))

Pause(k, units) ==
  /\ pc' = Set(pc, k, "sleep")
  /\ timer' = Set(timer, k, units)
  /\ UNCHANGED <<leg, amiss, age, tries, resent, result>>

\* Mutant of Fail: an exception is swallowed, as get_transfer_history does.
FailQuietly(k) ==
  IF Async(k) /\ tries[k] < RetryTimes
  THEN Pause(k, 1)
  ELSE Finish(k, "none")

\* An attempt has failed with an exception.
Fail(k) ==
  IF Async(k) /\ tries[k] < RetryTimes
  THEN Pause(k, 1)
  ELSE Finish(k, IF Async(k) THEN "raised" ELSE By(k).failed)

Resend(k) ==
  /\ pc' = Set(pc, k, "ready")
  /\ resent' = Set(resent, k, resent[k] + 1)
  /\ UNCHANGED <<leg, amiss, age, timer, tries, result>>

\* No connection: nothing was sent, and the session tries any method again.
Refuse(k) ==
  /\ pc[k] = "ready" /\ Runs(k)
  /\ IF By(k).resends /\ resent[k] < Resends THEN Resend(k) ELSE Fail(k)
  /\ UNCHANGED <<row, reply, stale, exchange, loop>>

Send(k) ==
  /\ pc[k] = "ready" /\ Runs(k)
  /\ pc' = Set(pc, k, "wait")
  /\ reply' = Set(reply, k, "out")
  /\ timer' = Set(timer, k, IF By(k).waits = "short" THEN 1 ELSE MaxAge)
  /\ UNCHANGED <<row, leg, amiss, age, tries, resent, stale, exchange, result, loop>>

\* Mutants of GiveUp: the session repeats every method, or once too often.
GiveUpAnyMethod(k) ==
  /\ IF By(k).resends /\ resent[k] < Resends THEN Resend(k) ELSE Fail(k)
  /\ reply' = Set(reply, k, "none")
  /\ \E left \in {0, 1} :
       /\ left = 1 => reply[k] = "out" /\ Http(k) # "GET"
       /\ stale' = Set(stale, k, stale[k] + left)
  /\ UNCHANGED <<row, exchange, loop>>
GiveUpLate(k) ==
  /\ IF By(k).resends /\ Http(k) = "GET" /\ resent[k] <= Resends THEN Resend(k) ELSE Fail(k)
  /\ reply' = Set(reply, k, "none")
  /\ UNCHANGED <<row, stale, exchange, loop>>

\* An attempt ends without an answer that can be used.  Its request may still
\* be on its way; the session sends only a GET again.
GiveUp(k) ==
  /\ IF By(k).resends /\ Http(k) = "GET" /\ resent[k] < Resends THEN Resend(k) ELSE Fail(k)
  /\ reply' = Set(reply, k, "none")
  /\ \E left \in {0, 1} :
       /\ left = 1 => reply[k] = "out" /\ Http(k) # "GET"
       /\ stale' = Set(stale, k, stale[k] + left)
  /\ UNCHANGED <<row, exchange, loop>>

\* The connection is lost, or the answer is a gateway's error or no JSON.
Break(k) == pc[k] = "wait" /\ Runs(k) /\ GiveUp(k)

TimeOut(k) ==
  /\ pc[k] = "wait" /\ Runs(k)
  /\ By(k).waits # "ever" /\ timer[k] = 0
  /\ GiveUp(k)

\* An answer is read.
Take(k) ==
  /\ pc[k] = "wait" /\ Runs(k)
  /\ reply[k] \in {"data", "refused"}
  /\ \E e \in IF reply[k] = "data" THEN By(k).good ELSE By(k).refused : Finish(k, e)
  /\ reply' = Set(reply, k, "none")
  /\ UNCHANGED <<row, stale, exchange, loop>>

\* What a client makes of a rate limit.  A coroutine sleeps with time.sleep:
\* the whole loop does.
Limited(k) ==
  CASE By(k).limited \in {"none", "block"} ->
         /\ pc' = Set(pc, k, "limited")
         /\ timer' = Set(timer, k, RetryAfter)
         /\ loop' = IF By(k).limited = "block" THEN RetryAfter ELSE loop
         /\ UNCHANGED <<leg, amiss, age, tries, resent, result>>
    [] By(k).limited = "again" ->
         /\ IF tries[k] + 1 < HashkeyTries THEN Pause(k, MaxTimer) ELSE Finish(k, "none")
         /\ UNCHANGED loop
    [] OTHER -> (\E e \in By(k).refused : Finish(k, e)) /\ UNCHANGED loop

\* Too many requests.  The session repeats a GET whose answer carries a
\* Retry-After by itself (urllib3 respects the header), and the client sees
\* the answer only when it does not, or when no resend is left.
TakeLimited(k) ==
  /\ pc[k] = "wait" /\ Runs(k)
  /\ reply[k] = "limited"
  /\ reply' = Set(reply, k, "none")
  /\ \/ Limited(k)
     \/ /\ By(k).resends /\ Http(k) = "GET" /\ resent[k] < Resends
        /\ Resend(k)
        /\ UNCHANGED loop
  /\ UNCHANGED <<row, stale, exchange>>

\* The Retry-After is over: None, or a status that is not 200.  The coroutine
\* reads the body only now, and one that is no JSON is a failed attempt.
AfterLimit(k) ==
  /\ pc[k] = "limited" /\ timer[k] = 0 /\ Runs(k)
  /\ \/ Finish(k, IF By(k).limited = "none" THEN "none" ELSE "refused")
     \/ By(k).limited = "block" /\ Fail(k)
  /\ UNCHANGED <<row, reply, stale, exchange, loop>>

\* Mutants of Wake: each attempt is signed anew, or attempts are not counted.
WakeSigned(k) ==
  /\ pc[k] = "sleep" /\ timer[k] = 0 /\ Runs(k)
  /\ pc' = Set(pc, k, "ready")
  /\ tries' = Set(tries, k, tries[k] + 1)
  /\ age' = Set(age, k, 0)
  /\ UNCHANGED <<row, leg, amiss, timer, resent, reply, stale, exchange, result, loop>>
WakeUncounted(k) ==
  /\ pc[k] = "sleep" /\ timer[k] = 0 /\ Runs(k)
  /\ pc' = Set(pc, k, "ready")
  /\ UNCHANGED <<row, leg, amiss, age, timer, tries, resent, reply, stale, exchange,
                 result, loop>>

\* The wait between two attempts is over: the same signed request once more.
Wake(k) ==
  /\ pc[k] = "sleep" /\ timer[k] = 0 /\ Runs(k)
  /\ pc' = Set(pc, k, "ready")
  /\ tries' = Set(tries, k, tries[k] + 1)
  /\ UNCHANGED <<row, leg, amiss, age, timer, resent, reply, stale, exchange, result, loop>>

-----------------------------------------------------------------------------
\* The exchange (external).  It refuses a private request that is not signed
\* or older than recvWindow, a client id that an open order has, and a second
\* cancel; what it executes it executes although an earlier request was the same.
Accepts(k) ==
  /\ O(k).signed # "unsigned"
  /\ O(k).signed = "signed" => age[k] <= RecvWindow
  /\ ~(O(k).before = "cached" /\ amiss[k])
  /\ O(k).kind = "rest" => ~resting[k]
  /\ O(k).kind = "cancel" => executed[k] = 0

Execute(k) ==
  /\ executed' = IF leg[k] = 1 THEN executed
                 ELSE Set(executed, k, IF O(k).kind = "read" THEN 1 ELSE executed[k] + 1)
  /\ resting' = IF leg[k] = 2 /\ O(k).kind = "rest" THEN Set(resting, k, TRUE) ELSE resting

Arrive(k) ==
  /\ reply[k] = "out"
  /\ \/ Accepts(k) /\ Execute(k) /\ reply' = Set(reply, k, "data")
     \/ reply' = Set(reply, k, "refused") /\ UNCHANGED exchange
     \/ reply' = Set(reply, k, "limited") /\ UNCHANGED exchange
  /\ UNCHANGED <<row, pc, leg, amiss, age, timer, tries, resent, stale, result, loop>>

\* A request that its sender has given up arrives after all.
ArriveLate(k) ==
  /\ stale[k] > 0
  /\ stale' = Set(stale, k, stale[k] - 1)
  /\ \/ Accepts(k) /\ Execute(k)
     \/ UNCHANGED exchange
  /\ UNCHANGED <<row, pc, leg, amiss, age, timer, tries, resent, reply, result, loop>>

\* The order is filled: its client id is free again.
Fill(k) ==
  /\ resting[k]
  /\ resting' = Set(resting, k, FALSE)
  /\ UNCHANGED <<row, pc, leg, amiss, age, timer, tries, resent, reply, stale,
                 executed, result, loop>>

Tick ==
  /\ age' = [k \in Calls |-> IF pc[k] = "idle" THEN 0 ELSE Older(age[k])]
  /\ timer' = [k \in Calls |-> Less(timer[k])]
  /\ loop' = Less(loop)
  /\ UNCHANGED <<row, pc, leg, amiss, tries, resent, reply, stale, exchange, result>>

Proceed(k) == Send(k) \/ TimeOut(k) \/ Take(k) \/ TakeLimited(k) \/ AfterLimit(k) \/ Wake(k)

Next ==
  \/ \E k \in Calls :
       \/ Invoke(k) \/ Refuse(k) \/ Break(k) \/ Proceed(k)
       \/ Arrive(k) \/ ArriveLate(k) \/ Fill(k)
  \/ Tick

Spec == Init /\ [][Next]_vars

\* A call that can go on does, and time passes; the network promises nothing.
Fairness == WF_vars(Tick) /\ \A k \in Calls : WF_vars(Proceed(k))
FairSpec == Spec /\ Fairness

-----------------------------------------------------------------------------
TypeOK ==
  /\ row \in [Calls -> [op : Operations, by : Senders]]
  /\ pc \in [Calls -> {"idle", "ready", "wait", "sleep", "limited", "done"}]
  /\ leg \in [Calls -> {1, 2}]
  /\ amiss \in [Calls -> BOOLEAN]
  /\ age \in [Calls -> 0..MaxAge]
  /\ timer \in [Calls -> 0..MaxTimer]
  /\ tries \in [Calls -> Nat]
  /\ resent \in [Calls -> 0..Resends]
  /\ reply \in [Calls -> {"none", "out", "data", "refused", "limited"}]
  /\ stale \in [Calls -> Nat]
  /\ executed \in [Calls -> Nat]
  /\ resting \in [Calls -> BOOLEAN]
  /\ result \in [Calls -> Ends]
  /\ loop \in 0..RetryAfter

\* "Only a GET is repeated automatically, so that a POST or DELETE (placing or
\* cancelling an order) is not executed twice" (binance_restful.py:29): a
\* synchronous call never executes such a request twice, whatever is lost.
SyncOnce == \A k \in Calls : ~Async(k) /\ O(k).http # "GET" => executed[k] <= 1

\* async_retry_decorator repeats orders as well.  All that bounds the number of
\* times one order is executed is that every attempt carries the first one's
\* time stamp and comes at least RETRY_INTERVAL after the one before it.
BoundedDuplicates == \A k \in Calls : executed[k] <= RecvWindow + 1

\* What the caller is told is true of the attempt it is told about.  A result
\* means that the exchange has done what was asked.  A refusal or None means
\* that the last attempt was not executed and never will be: only the attempts
\* before it, which failed and were repeated, may have been, or still may be.
\* Without a retry the order may so be placed again; after n of them up to n
\* of it can be in the book although the caller is told no.
TruthfulResult ==
  \A k \in Calls :
    pc[k] = "done" /\ O(k).http # "GET" =>
      /\ result[k] = "data" => executed[k] > 0
      /\ result[k] \in {"refused", "body", "none"} => executed[k] + stale[k] <= tries[k]

\* A call with a timeout ends, even when the network swallows everything and
\* other coroutines block the event loop.
CallsReturn ==
  \A k \in Calls : (pc[k] = "ready" /\ By(k).waits # "ever") ~> (pc[k] = "done")

\* The comment of binance_restful.py:29 read as a promise to all callers.
PlacedOnce == \A k \in Calls : O(k).http # "GET" => executed[k] <= 1
=============================================================================
