# pytradekit: specifications, model checking and proofs

pytradekit is a Python library for trading programs: websocket managers that
carry market data and account events, REST clients that place orders, a shared
Redis store, a MongoDB archive, and helpers. This directory holds TLA+ models
of the parts whose behaviour over time is hard to get right, TLC
configurations that check them on small instances, and proofs about them for
every size that TLAPS checks. `PROJECT.json` says which definition stands for
which lines, which run checks what, and which hazards no property covers yet.

Contents: [the system](#the-system), [modules](#modules),
[runs and bounds](#runs-and-bounds), [fairness](#fairness),
[disagreements with the code](#what-the-code-does-not-do),
[proofs](#proofs), [limits](#what-is-not-modelled), [plan](#plan).

## The system

### Components

| component | state | operations | interacts with |
|---|---|---|---|
| connection manager (`gateway/websocket/base_ws_manager.py`, `ws_manager.py`) | `status`, `ws`, `_needRecovery`, `_subs`, a semaphore, one monitor thread and one `run_forever` thread per connection attempt | `send`, `connect`, `close`, `reconnect`, `_monitor`, `_recovery`, `_start_stream`, `_reconnect_streams` | websocket-client's threads and callbacks; subclassed by every exchange's manager |
| Binance manager (`ws/binance_ws.py`) | the above, `_listen_key` (of the class), `_url`, `start_end_time_dict` | `post/put_listen_key`, `subscribe`, `_ping`, `_reconnect_with_new_url`, `supplement_orders`, message filters | connection manager, Redis store, REST client, the application's queues |
| WS-API session (`ws/binance_ws_api.py`) | `_running`, `_ws`, `_logged_on`, `_subscribed`, `_reconnect_delay`, `_pending`, counters | `start`, `stop`, `_run`, the callbacks, `is_healthy` | the application's queue |
| Redis store (`utils/redis_operations.py`) | keys with a time to live, one lock with a lease per key, publications | thirty `set_*`, `get_*`, `delete_*` methods | every process of the trading system |
| MongoDB store (`utils/mongodb_operations.py`) | collections; client and index flag at class level | inserts, upserts, queries | every process |
| REST clients (`restful/`) | an HTTP session | requests for orders, accounts, market data, with retries | exchanges |
| backfill (`ws/bn_add_missing_orders.py`, `save_restful_bn_deposit_withdraw.py`) | the time span of an outage | page through trades, transfers | REST client, Redis, MongoDB |
| FIX client (`fix/binance_fix.py`) | a socket, a buffer, `msg_seq_num`, threads | `connect`, `login`, `reconnect`, orders, heartbeats | the application's queue |
| other exchanges' managers (`ws/*.py`) | the connection manager's, authentication | `subscribe`, `_login`, `_ping` | connection manager |
| set-up (`trading_setup/`) | tables of instruments, coins, fees | conversions, fee resolution | |
| helpers (`utils/`), notifiers, process monitor | constants, configuration, running maxima | retry, rounding, time conversions, messages | |

### What is hard

*Threads that share attributes.* A connection manager is used by the
application, by the monitor threads and by websocket-client's threads. Only
`send` takes the semaphore; `_recovery`, `close` and `_reconnect_with_new_url`
change `status` and `ws` without it.

*Failures in the middle.* A connection may be refused, be slow, be lost before
a subscription is sent or after it; the answer to a Redis command, to a
keep-alive or to an order may be lost after the command was executed; a lease
may end under a client at work; a process may die with a lock.

*Things that must happen in the end.* Reconnecting with all subscriptions,
becoming healthy again, ending a thread after `stop()`, not waiting for ever
for a lock.

*Time.* Keep-alives every 30 minutes for a key of 60, renewals every three
hours, leases of five seconds, delays that double.

### What makes each component correct

* Connection manager: whoever sets RECOVERY leaves it; somebody watches an
  ACTIVE connection; no subscription is lost across reconnects; two threads
  never connect at once; once the network behaves it streams everything again.
* WS-API session: healthy means a live subscription; one event once, and once
  more at most for each start that came before an older thread had ended; it
  heals while it runs and ends when it is stopped.
* Listen keys: events without a gap while nothing is lost, a bounded gap
  otherwise; a manager streams its own account, unless another of its kind
  overtakes it between its post and its read of the shared dictionary.
* Redis store: read-modify-write methods lose nothing; a batch is handed out
  once; subscribers can follow the store; no call waits for ever; each call is
  one atomic operation.
* REST calls: nothing but a GET is executed twice by a synchronous client, an
  order of the asynchronous one a bounded number of times; what the caller is
  told is true of the last attempt, and the attempts that failed before it
  account for all else that was executed; a call with a timeout returns.
* Backfill: a fetch that no request breaks off has every trade of the gap,
  wherever its pages end, none of them three times, and it ends.
* FIX client: sequence numbers count in step, but for one place at most for
  each message built while another is not counted yet; on one connection
  reports are queued in order and one by one, and a stream that is cut inside a
  tag costs at most one message for each such cut; a lost connection is
  replaced.
* MongoDB store: the unique index before use, one document per identifier where
  the code promises it, updates that a repeated insert does not undo.
* Exchange managers: after a reconnect the private stream is authenticated,
  subscribed and live without waiting for the next round of a loop.

## Modules

| module | models | 
|---|---|
| `BaseWsManager` | the connection manager and `_reconnect_with_new_url` |
| `MCBaseWsManager` | identities for its threads and connections |
| `BaseWsManagerProofs` | theorems about it |
| `WsApiUserData`, `WsApiUserDataProofs` | the WS-API session |
| `ListenKeyRenewal` | listen keys of Binance managers |
| `MCListenKeyRenewal`, `ListenKeyRenewalProofs` | its instance and its theorems |
| `SharedStore` | the abstract Redis store: what a caller is promised |
| `RedisOperations` | the store command by command, which implements `SharedStore` |
| `MCRedisOperations` | two symbols, prices, and what clients write |
| `RedisOperationsProofs` | theorems about it |
| `RestClients` | the REST clients as tables: ways of sending, operations |
| `RestRequests` | a call from its signature to its result, for every row of the tables |
| `MCRestRequests`, `RestRequestsProofs` | its instance and its theorems |
| `MongoMethods` | the methods of the MongoDB store as a table |
| `MongoStore` | threads that make instances and call the methods, command by command |
| `MCMongoStore`, `MongoStoreProofs` | its instance and its theorems |
| `FixClient`, `MCFixClient`, `FixClientProofs` | the FIX client |
| `OrderBackfill`, `MCOrderBackfill`, `OrderBackfillProofs` | `supplement_orders` and the pages of `get_binance_trade` |
| `PrivateStreams` | login and subscription of the Huobi, OKX, Bybit, KuCoin and Bitfinex managers |

Composition: `PrivateStreams` and `OrderBackfill` sit on the connection
manager and take from it what `BaseWsManager` shows (a lost connection is
replaced; `connect_status` is set with every dial). `RestRequests` has the
retry decorator of `utils/tools.py` and the event loop that all asynchronous
calls share. `RedisOperations` implements `SharedStore`.

### BaseWsManager

The attributes keep their names. `pc[t]` is where a thread is, with one label
per access to a shared attribute: `connect`, `while`, `dial`, `mkws`, `wait`,
`activate` are `connect()` and `_connect()`; `poll`, `watch`, `mark` are
`_monitor`; `rclose`, `rnil`, `resend` are `_recovery` and
`_reconnect_streams`; `acquire`, `sendInit`, `sendWs` are the synchronised
`send`; `close1`, `close2` are `close()`; `rebind...` is the renewal.
`run[c]` is where the thread of WebSocketApp `c` is: in `run_forever`, in the
callbacks that follow the end of the socket, or in the `finally` of
`_run_websocket`, each of which calls `reconnect()`: test the status first
(`Callback`), set the flag later (`SetNeedRecovery`).

`conn[c]` is the socket: dialing, open, dead. A thread or a WebSocketApp whose
work is over returns its identity, and new ones take the smallest free
identity: threads are not distinguishable, so this costs no behaviour and
keeps the state space small.

Two ways of scheduling. With `Preemptive` a thread may be switched between any
two labels. Without it, only where it sleeps, waits, starts a thread or does
I/O, which is what CPython does except once in a very long while. Properties
that hold under both are checked and proved under both (`RecoveryHasOwner`);
liveness and lost subscriptions are checked for the second, because under full
preemption a request for recovery that was decided for an old connection can
hit a new one (`AsksRecovery`, `SetNeedRecovery`), and the model shows two
monitors recovering at once.

`_subs` is a set (a list without duplicates in `_start_stream`), a message is
the stream it subscribes to, and the exchange's side is `listed[c]`.

### WsApiUserData

`pc[t]` follows a run thread through `_run` and `run_forever`; callbacks run in
the thread that dialed, so a connection is named by its thread. `session[t]`
is what the exchange has granted, `pending[t]` the request it owes an answer
to, `inbox[t]` the events on their way. Flags, delay and `_ws` are shared by
all threads, as in the code; a second run thread appears when `stop()` and
`start()` come within the old thread's delay. The code gives the application
nothing to wait for the old thread with, so the model lets it happen at any
time and counts it: `hurried` is a history of the `start()` calls that found an
older thread at work.

### ListenKeyRenewal

One thread per manager: `post` and `bind` are `subscribe`, `put` and `repost`
are `put_listen_key`, `check` and `asleep` are the loop of `_ping`. A key is a
record of the account it was granted to and a number. Time is in minutes and
passes (`Passes`) while all threads sleep, up to the next one that wakes; a
key dies when its minutes are over. The recursion of `subscribe` and `_ping`
is `depth`, with the interpreter's limit as a constant. `stream[m]` is the key
in the URL (perp) or in `_subs` (spot): reconnections underneath
(BaseWsManager) use the same one and do not show. `_listen_key` is one
dictionary of the class with an entry for each kind. `overtaken[m]` is a
history: how often a manager of m's kind has written it (`Write`) while m was
between its `post_listen_key` and its read.

### RedisOperations and SharedStore

All methods follow one course: lock, read, write, expire, publish, release.
The table `Method` gives each method its key and the commands it issues, and
the actions walk through them, so a new method is one line. Contents are sets
of records (field, value) with `merge` for hashes and merged snapshots, `add`
for sets and sorted sets, `set` for plain values. A command can fail before or
after Redis has executed it (`Refused`, `Proceed`), a client can die
(`Crash`), a lease can end (`LeaseEnds`) with its owner gone or, under the
bound `MaxSlow`, still at work, and a key can expire (`KeyExpires`).

`SharedStore` has none of that: an update, a take, a return to the caller, an
expiry. `Atomic == Store!Spec` with `hand` mapped to what a client holds
between removing a batch and returning it is the refinement. An update may
start from what the key held when it expired: SET after a GET that came
before the expiry brings the old content back, and the abstract store says so.

### RestClients and RestRequests

Twenty clients differ in how they send, not in the course of a call. A row of
`RestClients` keeps of an operation what decides its fate: method, signature,
what it does on the exchange (`kind`), which request goes before it and what
becomes of the result; a *sender* says how long an answer is waited for,
whether urllib3's `Retry` repeats it, and what the caller gets for a failure,
an answer, a refusal and a rate limit. `Rows` names the methods of one shape.

`RestRequests` takes any row (`Invoke`) through `ready`, `wait`, `sleep` and
`limited` to `done`. The parameters are signed once, so `age[k]` grows over all
attempts. A request can be refused by the network (`Refuse`), lose its answer
(`Break`), time out (`TimeOut`), and still arrive later (`ArriveLate`); the
exchange executes whatever is signed, young enough and not excluded by an
open order with its client id (`Accepts`). `Limited` with `block` is
`time.sleep` in a coroutine: `loop` stops all asynchronous calls, and the body
read after it may be no JSON, another failed attempt. A rate-limited GET is
first repeated by the session, which respects Retry-After. An operation
with two requests (`get_balances` of Huobi, `get_transfer_history_sub`) has
two legs. A unit of time is one wait of the decorator (5 s).

### MongoMethods and MongoStore

`MongoMethods` gives each of the store's methods its collection and its kind,
the sequence of commands it issues: insert, insert with `_id`, find and insert
(one by one, or all at once), upsert, `$set`, delete, read. A document is the
value of its key; `store[l][k]` counts documents. A list may name some keys
twice (`Repeated`, `again[c]`), since `insert_deposit_withdraw` filters its list
against the store only and nothing else looks for a repetition. Trade records
and shadow trades come as one document, inserted under its `_id`, or as a list,
appended without one; both ways are rows. In `MongoStore` threads run
`__init__` (`FindClient` ... `EnsureDone`: the class attribute without a lock,
then the indexes under one) and calls, with a step for each command, so that
find and insert, and match and insert of an upsert, can be interleaved. Any
command can fail, with what was written so far left behind; `close()` resets
the client for every instance.

### FixClient

Labels follow `connect`, `send_message`, `receive_orders`, `process_buffer`,
`handle_message`, `reconnect` with a step for every access to `buffer`,
`msg_seq_num` and `ssl_sock`, none of which has a lock. A message is three
pieces (half of the tag `8=FIX`, the rest with the body, the trailer), which
is all that `process_buffer` tells apart; `recv` returns any number of them. A
`recv` that ends inside the tag makes `process_buffer` empty the buffer, and
the message is lost: `tears` counts them. A message is a report, a test
request, which is answered, or neither, which is ignored. A socket is new until
it is connected, and `connect` on one that another thread has closed raises.
Each `connect()` starts another receive and heartbeat thread. `races` is a
history: the messages that were built while another one was not counted yet.
The numbers are the client's and run on over its sockets, although each logon
asks the exchange to reset its own (`141=Y`).

### OrderBackfill

`status`, `start`, `end` are `start_end_time_dict`; `Connect` is the
assignment in `_connect`, which comes before the dial has succeeded. A fetch
goes through `Request`, `Turn` and `Publish` for each symbol. The history of a
symbol is any sequence of time stamps in ascending order, so several trades
share one. A trade is its place in that order, so a page, which comes in it, is
a set, and of `result` the model keeps how often each trade is in it. Written from the code, three facts show in the model and no
document denies them: trades of the last time stamp of the gap may be lost, a
fetch that a failed request ended is returned like a complete one, and
repeated calls before the reconnect move `start_time` into the outage. What
`get_binance_trade` returns are dictionaries, so `trade.to_dict()` raises:
`Publish` publishes nothing.

### PrivateStreams

One manager of any kind, its loop, the monitor's hook `_reconnect_streams`,
the callback of an answer and the exchange: each sends on the connection there
is at that moment. `Subscribed` says for which managers a live stream is
promised: not for Bybit, whose loop ends with the first send that raises, and
not for Bitfinex, whose hook sends the old nonce again.

## Runs and bounds

| run | expects | shows |
|---|---|---|
| `conn_heals` | pass | one application thread, a subscription, two faults: no subscription lost, always a watcher, no failed assertion, `Heals` |
| `conn_preempt` | pass | full preemption, `close()` and renewal at any moment, one fault: RECOVERY always has an owner |
| `redis_atomic` | pass | three calls of five methods by two clients, a failure, expiring keys: atomicity, at-most-once, agreement of subscribers, termination |
| `session_heals` | pass | two starts, the second at any time, two lost connections, two rejections: health is true, copies of an event are bounded, heals, stops |
| `renewal` | pass | two spot managers and a perp one, the code's intervals, two lost requests: no gap, or a bounded one, own account unless overtaken |
| `rest_calls` | pass | every row of the tables beside a limit order: executed once, or a bounded number of times, truth about the last attempt, calls return |
| `rest_retried` | violation | `async_retry_decorator` places an order twice |
| `mongo` | pass | two threads make instances, write the same documents, fail and close: the unique index first, unique documents, updates stay |
| `fix` | pass | two connections, an order, a failure, two torn tags: numbers in step but for races, reports in order |
| `fix_eof` | violation | a connection that the exchange closes is never replaced |
| `backfill` | pass | every history of four trades for two symbols, a failed request: complete, no trade three times, ends |
| `streams` | pass | every kind of manager, three losses: streams come back, except for Bybit, Bitfinex and an OKX manager that has not subscribed yet |

Why the bounds are enough.

* `conn_heals`: two faults suffice for a fault during the recovery from
  another; four monitor threads and connections are as many as two faults and
  the first connection can have alive at once. Deadlock is checked.
* `conn_preempt`: two monitors and two connections exist at once, enough for a
  renewal or a close against a recovery. `Streams` is empty: `RECOVERY` does
  not depend on what is sent. The pools of identities are bounded, so a thread
  that needs a third one stops, and the run says `CHECK_DEADLOCK FALSE`. The
  theorem has no bounds.
* `redis_atomic`: one call that reads and writes against two others covers
  every interleaving of a pair, and a third sees the result. The five methods
  are one of each shape that reads or accumulates. Calls are bounded, so the
  run may stop (`CHECK_DEADLOCK FALSE`).
* `session_heals`: an attempt that fails by a lost connection or a rejection
  before, between and after the two acknowledgements, twice each; delays 1, 2,
  3 reach the cap. Two starts give two run threads at once. A stopped client
  may stay so (`CHECK_DEADLOCK FALSE`).
* `renewal`: 60, 30, 180 and 1 minutes are the exchange's and the code's; two
  lost requests are a keep-alive and the answer to what repairs it; two
  nestings of `subscribe` reach the recursion limit, after which the renewal
  is over (`CHECK_DEADLOCK FALSE`). Two spot managers are what it takes for one
  to overtake the other, a third manager of the other kind shows that it does
  not touch them. The managers run independently, so all relative delays of
  their steps occur.
* `rest_calls`, `rest_retried`: a receive window of one wait is shorter than
  the two retries, so that the last attempt comes too late and the bound on
  duplicates is reached; one resend of the session, one unit of Retry-After.
  Calls share nothing but the event loop, so two of them are all there is to
  see, and the second is made only beside an asynchronous one. Every call
  ends, so the system stops (`CHECK_DEADLOCK FALSE`).
* `mongo`: two threads and two keys give every pair of commands on one and on
  different documents; three calls are a write, a conflicting write and a
  repetition; one failure at any command and one `close()`. A list may name
  one of the keys twice. The menus have a method of each kind; trade records
  are inserted under their `_id` by one thread and by find and insert by the
  other. Calls are bounded (`CHECK_DEADLOCK FALSE`).
* `fix`: a test request and two reports on one connection, cut at every place,
  twice inside a tag, so that one report can be lost and the next one is there
  to be kept; with a second socket, and so a second pair of threads that race
  for buffer and numbers, one message less (the constraint `MCBound`).
  `fix_eof`: one failure suffices. Messages and sends are bounded
  (`CHECK_DEADLOCK FALSE`).
* `backfill`: pages of three of four trades over four time stamps give a page
  that ends inside a time stamp, before it and after it, and a last page that
  is full, short or empty; a second symbol, a failed request in any page. One
  gap, since nothing of a fetch outlives it (`CHECK_DEADLOCK FALSE`).
* `streams`: three losses are one during a login, one between login and
  subscription and one after it; three rounds of the loop. Losses and rounds
  are bounded (`CHECK_DEADLOCK FALSE`).

Symmetry is declared for the two spot managers (`renewal`) and for threads
that `connect()` starts (`fix`), in runs that check no liveness.

Every property of a passing run has a mutant in `PROJECT.json`: a plausible
bug in a mapped definition (`...Skipped`, `...NoWait`, kept beside the
definition) under which the property fails.

## Fairness

`BaseWsManager`: strong fairness for each thread, because the interpreter
keeps scheduling threads and semaphores are handed on (`ThreadRuns`), and for
`run_forever` threads except for exceptions out of callbacks; weak fairness
for a dial to come to an end. Nothing forces the application to call or the
network to fail or to stop failing: faults are bounded by `MaxFaults`, which
says "once the network has stopped failing".

`WsApiUserData`: the same for run threads; `Served` says that the exchange
answers. The code has no timeout for an answer, so without it nothing could
be promised; the hazard is listed. No fairness for `start`, `stop`, events.

`RedisOperations`: a client that runs goes on running and gets a lock that
keeps coming free: redis-py polls every 0.1 s without limit
(`blocking_timeout` is not given). A lease ends. Strong fairness for a
client's step covers the polling. Failures, crashes and expiries owe nothing.

`RestRequests`: time passes and a call that can go on does (`Proceed`: what a
client does on its own). Nothing is asked of the network or the exchange: the
timeouts alone make `CallsReturn` true, and for senders without a timeout it
is not claimed.

`FixClient`: threads that run keep running; nobody has to place an order or
send. `OrderBackfill`: a request returns or raises, as requests' timeouts
make it. `PrivateStreams`: the connection manager replaces a lost connection
(`Heals` of `BaseWsManager`), the monitor calls its hook, the exchange answers
what it receives; the loops of three hours are given no fairness, so `Recovers`
does not wait for them.

`ListenKeyRenewal` and `MongoStore` state no liveness.

## What the code does not do

Each "violation" run states what a comment or a docstring says, and TLC shows
what the code does instead; `PROJECT.json` "findings" has the quotations.

1. `rest_retried`: "only a GET is repeated automatically"; the asynchronous
   orders are repeated by `async_retry_decorator` although an earlier attempt
   may have been executed. `BoundedDuplicates` says how often at most.
2. `fix_eof`: "keeps receiving order messages"; after the end of the stream
   `recv` returns nothing for ever and the loop goes on without a connection.

The models show more that a reader of the code should know. These have a
definition in their module and no run:

* `ClosedBeforeConnect`, `OneConnection` (`BaseWsManager`): a dial slower than
  five seconds is dropped and not closed; the renewal and the monitor can both
  connect, and an open connection is left over.
* `SnapshotExpires` (`RedisOperations`): a failed EXPIRE leaves a snapshot
  without a time to live. A lease that ends between GET and SET loses what was
  written in between: `ReadCoversStore` is stated for leases that hold.
* `BacksOff` (`WsApiUserData`): rejected subscriptions never back off, because
  a good logon resets the delay.
* `RecreatedKeyIsUsed` (`ListenKeyRenewal`): a re-created perp key does not
  reach the connection. `_listen_key` is one dictionary for all managers: one
  that is overtaken streams the account of another until its next renewal
  (`OwnEvents` and `DarkIsBounded` say that nothing worse happens).

Stated in no document: a write whose publication failed, or was never
reached because of a redis error, leaves subscribers behind what is stored; a
client that is started again within the delay of its old thread queues each
event twice; two FIX messages built at the same time carry one number, and the
next number is left out or, when an increment is lost, later ones lag behind; a deposit that one
list names twice is stored twice; `close()` during a reconnect is undone, because `_connect` overwrites STOP; failed dials
each leave a monitor thread; under full preemption a stale request for
recovery can leave an ACTIVE manager without connection and monitor; a
`stop()` of the session between `WebSocketApp(...)` and `run_forever` is
lost; the renewal ends with the first failed `post_listen_key` and, after
about two months, with the recursion limit; two writers of deposits can store
one twice; a second pair of FIX threads shares the buffer of the first; the
facts about `OrderBackfill` and `PrivateStreams` above.

## Proofs

All constants are arbitrary under the named assumptions of the modules:
`ConstantsAssumption` (disjoint sets of identities, natural numbers for
bounds), and two about the tables that TLC evaluates for the rows of the
clients: `MenuAssumption` (a request that changes something is signed and is
no GET, and answers keep apart what was done from what was not) and
`FundingAssumption` (funding rates are written by their own method).

**RecoveryAlwaysOwned** (`BaseWsManagerProofs`): `Spec => []RecoveryHasOwner`.
It is not inductive: a thread may leave `connect()` because `ws` is set
(`ConnectWhile`) or because it found ACTIVE, and one has to know that the
status is not RECOVERY then or somebody else is on the path. The
strengthening adds `ConnectionIsSettled`: while `ws` is set and nobody is on
the path, the status is not RECOVERY, together with types. The proof has one
step per action, grouped by who acts; only the actions that leave the path or
set RECOVERY need an argument.

**ConnectsOneAtATime**, **AlwaysWatched**, **SubscriptionsAreKept**
(`BaseWsManagerProofs`): `AssertionHolds`, `NeverUnattended` and
`NoLostSubscription` under `Cooperative` (no `close()`, no second loop, and a
thread is left only where it waits), which is what the code needs: `conn_heals`
checks them there, and Findings says what happens without it. They follow from
one invariant, `CalmInv`. `OrderInv` says who may be on the way to a connection:
while the status is INIT the one sender that holds the semaphore, afterwards the
monitor that marked the loss, and nobody else; the rest of it says what such
a thread has at each label. `Watched` says that an ACTIVE manager, or one that
has just dialed, has a monitor for its connection. `Kept` is the heart of the
third theorem: each
subscription of `subs` is listed by the open connection, or a sender or a
recovery that is under way still owes it.

**NothingLostUnderTheLock**, **PortfoliosAccumulate**
(`RedisOperationsProofs`): `LockInv` says that while no lease has ended under
a client at work (`slow = 0`) a client between its lock and its release is the
lock's owner, hence alone on its key, and that what it has read still covers
the key. Only an owner writes, expiry only removes. The first theorem follows
for all clients, methods, values, failures and crashes; the second, an action
property, from it and from what `setMerged` writes.

**HandedOutOnce** (`RedisOperationsProofs`): `OnePlace` says that, while no
lease has ended under a client at work, an item of a pool is with the one
sender that has still to add it, stored, or given to a caller; what a client
has read and has to give to its caller was given to nobody before and, once it
is deleted, is not stored.
**SubscribersAgree**: with no command failed either, a channel's subscribers
hold all that the key does, or a client has stored and not yet published; what
it publishes makes up for the difference (`MirrorInv`).
**CallsAreAtomic** is the refinement `Spec => Atomic` of `SharedStore`, for
leases that are never too short (`MaxSlow = 0`): the write or delete is the
abstract call, every other step a stutter. It needs that what a client has read
is what the key holds, or what it held when it expired (`ReadFound`).

**HealthNeverLies**, **CopiesArePaidFor** (`WsApiUserDataProofs`):
`HealthInv` ties the two flags to threads (`FlagHasCarrier`: a flag that is up
has a thread with a session that granted it or whose end has not been seen;
`Settled`: what a thread has at each label). It holds for any number of run
threads and under preemption. `DeliveryInv` adds `LoopsCounted` (the run threads
that are not off are at most one more than the starts that found one at work)
and `CopiesCounted` (so are the copies of an event, queued or on their way: a
copy is granted to a thread when the event happens, and a connection that is
lost takes its copies with it).

**OnlyOvertakenGoAstray**, **KeepAliveSuffices** (`ListenKeyRenewalProofs`):
for any number of managers of each kind. The entry of `_listen_key` a manager
reads is the one it wrote unless one of its kind has written in between, which
`overtaken` counts (`OwnKeys`); so `OwnEvents` holds whatever is lost. If
keep-alives are closer than a key's life and no request is lost, `InStep` gives
at each label what the key has left (asleep: its life less one interval plus
what is left of the sleep), so the key of a manager that is not overtaken never
dies and `Uninterrupted` holds. The code prevents no overtaking; a manager that
it has happened to streams the events of the other one until it renews.

**SubscribeRepairs** (`ListenKeyRenewalProofs`): `DarkIsBounded` for any number
of managers, whatever requests and keys are lost, as long as the renewal goes
on. After the renewal a manager streams the key that lives, or it has been
without events for no longer than since `_ping` was called, but for what being
overtaken and the faults have cost it (`Repairs`, `Owed`). The time since that
call, with what is left of a sleep, stays below `Limit(f)`, which only a fault
raises: a retry that does not look at the clock takes one. A failed
`post_listen_key` and the recursion limit end the renewal, and then nothing is
promised.

**OnceCorrect**, **DuplicatesCorrect**, **ToldCorrect** (`RestRequestsProofs`)
share `IInv`, one conjunct per question for each call. `Counted` is the
heart: what was executed and what is still on its way is at most one more than
the tries that were counted, and no more than these when the call is about to
send. `Paced` bounds tries by the age of the signature, since a wait lies
between two tries; what is accepted is at most `RecvWindow` old, so at most
`RecvWindow + 1` attempts are executed, whatever `RetryTimes` is. `Single`
says that a synchronous call has sent such a request once. `Told` takes from
`Counted` what an answer is worth: a refusal answers the last attempt, so what
was executed or still may be is at most the tries that failed before it. A step of one call
leaves the others alone (`Elsewhere`); ending, pausing and repeating an attempt
are treated once (`Over`), for all the actions that do it.

**IndexesBeforeCalls**, **RatesAreUnique**, **DepositsAreStoredOnce**,
**UpdatesAreKept** (`MongoStoreProofs`): an upsert that finds nothing and
inserts may meet another one; the unique index turns it into a replacement, so
uniqueness rests on the invariant that no method runs before `_ensure_indexes`
is through with it (`IndexInv`). For deposits there is no index: `Unseen` says
that what the only writer has not found is stored, with what its list still
names, at most as often as the list named it.

**NumbersKeepStep** (`FixClientProofs`): `msg_seq_num += 1` is a read and a
write, so updates are lost, but each thread between `sendall` and the write has
sent a message that is not counted. `Behind` says that the number, plus those
threads, is at most the number of messages sent plus one; `Near` bounds the
distance from the other side: the messages sent, and those about to be, are
ahead of any number in use by the counted races at most. Without a race the
i-th message carries the number i; with one, a number is doubled and the next
one left out (1, 2, 2, 4), or an increment is lost and later numbers lag behind.

**ReportsComeInOrder** (`FixClientProofs`): `Spec => []Faithful`. While there
is one socket (`Calm`, the condition of `Faithful`), what the exchange has sent
is cut into consecutive parts: the messages done with, the one in hand, the
buffer, what the thread has received and not appended yet, what is on its way.
`Progress(r, n, a, lost)` says so for a thread that is done with `n` messages,
of which it has handled all but `lost`, label by label; `Nth(k)` names the k-th
piece of the stream, so that a part is told by where it begins, and the buffer
may begin with the rest of a message that was lost. A message is lost only with
a tag torn off by a `recv`, and `Torn` counts the one that is torn and not lost
yet. It rests on `Alone`: one
thread receives, since only a connection that is made anew starts another.
Each step moves pieces from one part to the next (`StreamReceiving`) or adds a
message at the far end (`StreamNet`). `TypeCorrect` of this module has no such
condition and needs to know that a thread that cuts has found a message, though
another may have cut it away since (`ParseType`).

**FetchesAreComplete**, **OnlyTiesAreDoubled** (`OrderBackfillProofs`):
`CountInv` says what has been collected when a fetch has come as far as
`cursor`: each trade inside the span before it, and at it the first; of those at
it, none twice, and after it, none. `PageInv` says that a page leaves nothing
out up to its last trade and ends after `cursor`. For the end of the loop: an
answer that leaves something out is full (`AnswerIsFull`), so one that ends at
`cursor` although trades come after it is a page full of ties (`EndInv`).

**FetchesRunDown** (`OrderBackfillProofs`) and **CallsRunDown**
(`RestRequestsProofs`) are the safety half of `Ends` and `CallsReturn`: each
step of a fetch, or of a call, makes `Left`, a natural number bounded by the
constants, smaller, or leaves alone what it is made of. For a fetch it is two
steps for each time stamp the cursor can still pass, because a page that does
not move the cursor is the last; for a call the requests, tries and resends it
has left, and the stage of the attempt. So neither loop goes round for ever
whatever the exchange answers; that a step is taken at all is the fairness
under which TLC checks the two properties.

**TypeCorrect** of each module is the first lemma of all others.

Every invariant, every action property and the refinement that a passing run
checks is a theorem. Only model-checked is liveness (`Heals` of `BaseWsManager`
and `WsApiUserData`, `CallsFinish`, `Stops`, `CallsReturn`, `Ends` and
`Recovers` of `PrivateStreams`): fairness and ENABLED are out of the prover's
reach.

## What is not modelled

* Market-data parsing and the message filters, signing, query building and
  conversion to data frames, the wording of logs: pure functions of their
  input or layout.
* `new_binance_ws.py`, the former Binance manager, which nothing imports: its
  `_on_open` takes no argument where websocket-client passes one.
* `save_restful_bn_deposit_withdraw.py` and `ceshi.py`: scripts around the
  REST client and the store, without state of their own.
* `trading_setup/`, `time_handler.py` and the numeric helpers of `tools.py`:
  pure conversions without interleaving or failure; unit tests reach them.
* notifiers, logging, configuration and deployment: pure I/O.

websocket-client, urllib3, Redis, MongoDB and the exchanges are external: they
are modelled from how the code uses them, and `map` marks them so.
`push_book_ticker` and the pub/sub handles of the Redis store change no stored
state. `__init__` of a REST client (creating a session) is not a step.

## Plan

Built: `BaseWsManager`, `RedisOperations` with `SharedStore`, `WsApiUserData`,
`ListenKeyRenewal`, `RestRequests`, `MongoStore`, `FixClient`,
`OrderBackfill`, `PrivateStreams`, and the proofs above. Left:

* `FeeRates`, `Algorithms`: resolution of fees, rounding, symbol to pair, days
  and time stamps, moving indicators, as operators against reference
  definitions.
