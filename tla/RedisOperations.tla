--------------------------- MODULE RedisOperations ---------------------------
(***************************************************************************)
(* The shared Redis store (utils/redis_operations.py).                     *)
(*                                                                         *)
(* Every method of RedisOperations runs the same course on one key: take   *)
(* the key's lock, which Redis drops by itself TIMEOUT_SECOND later; read; *)
(* write; expire; publish; release.  Table Method says which of these      *)
(* commands a method issues.  Clients are processes; between any two       *)
(* commands other clients run, a command may fail, a client may crash, and *)
(* a slow client may outlive its lease.                                    *)
(***************************************************************************)
EXTENDS Naturals, FiniteSets

CONSTANTS
  Clients,    \* processes that share the Redis server
  Items,      \* what is stored: records [field, val]
  Args,       \* the values the clients write: sets of Items
  Methods,    \* the methods the clients call
  None,       \* nobody, nothing
  MaxCalls,   \* bound on the number of calls
  MaxFaults,  \* bound on failed commands and crashes
  MaxSlow     \* bound on leases that end under a client still at work

\* key: the key the method works on.  reads: whether its first command reads
\* the key.  write: what its second command does to it.
M(key, reads, write, expires, publishes) ==
  [key |-> key, reads |-> reads, write |-> write, expires |-> expires,
   publishes |-> publishes]

Method == [
  set_ticker_price           |-> M("ticker_price", FALSE, "merge", TRUE, FALSE),
  get_ticker_price           |-> M("ticker_price", TRUE, "none", FALSE, FALSE),
  get_order_book             |-> M("orderbook", TRUE, "none", FALSE, FALSE),
  set_book_ticker            |-> M("book_ticker", FALSE, "merge", TRUE, FALSE),
  set_orderbook_changed_within_threshold
                             |-> M("orderbook", FALSE, "merge", TRUE, FALSE),
  get_order_ticker           |-> M("book_ticker", TRUE, "none", FALSE, FALSE),
  set_orders                 |-> M("orders", FALSE, "add", TRUE, FALSE),
  get_orders_and_delete      |-> M("orders", TRUE, "delete", FALSE, FALSE),
  set_publish_trades         |-> M("trades", FALSE, "add", TRUE, TRUE),
  get_trades                 |-> M("trades", TRUE, "remove", FALSE, FALSE),
  set_publish_inventory      |-> M("inventory", FALSE, "set", TRUE, TRUE),
  get_inventory              |-> M("inventory", TRUE, "none", FALSE, FALSE),
  get_trading_proposal       |-> M("trading_proposal", TRUE, "none", FALSE, FALSE),
  set_publish_inventory_close
                             |-> M("inventory_close", FALSE, "set", FALSE, TRUE),
  set_trading_proposal       |-> M("trading_proposal", FALSE, "set", FALSE, FALSE),
  set_new_book_ticker        |-> M("exchange_ticker", FALSE, "set", TRUE, FALSE),
  get_new_book_ticker        |-> M("exchange_ticker", TRUE, "none", FALSE, FALSE),
  delete_inventory_close     |-> M("inventory_close", FALSE, "delete", FALSE, FALSE),
  delete_trading_proposal    |-> M("trading_proposal", FALSE, "delete", FALSE, FALSE),
  set_publish_non_compliant_inst_code
                             |-> M("non_compliant", FALSE, "set", TRUE, TRUE),
  set_depth_order_theoretical
                             |-> M("depth_order", FALSE, "set", TRUE, TRUE),
  set_portfolios             |-> M("portfolios", TRUE, "setMerged", TRUE, TRUE),
  set_order_link             |-> M("order_link", FALSE, "set", TRUE, FALSE),
  get_order_link             |-> M("order_link", TRUE, "none", FALSE, FALSE),
  set_target_premium         |-> M("premium", FALSE, "set", TRUE, FALSE),
  get_target_premium         |-> M("premium", TRUE, "none", FALSE, FALSE),
  set_arbitrage_threshold    |-> M("arbitrage_threshold", FALSE, "set", TRUE, FALSE),
  get_arbitrage_threshold    |-> M("arbitrage_threshold", TRUE, "none", FALSE, FALSE)]

Keys == {Method[m].key : m \in Methods}

ASSUME ConstantsAssumption ==
  /\ Methods \subseteq DOMAIN Method
  /\ Args \subseteq SUBSET Items
  /\ None \notin Clients \cup Methods
  /\ MaxCalls \in Nat /\ MaxFaults \in Nat /\ MaxSlow \in Nat

VARIABLES
  data,    \* data[k]: the content of key k; {} when there is no such key
  ttl,     \* ttl[k]: the key has a time to live
  lock,    \* lock[k]: whose token is in k's lock, or None
  heard,   \* heard[k]: what a subscriber that applies every message holds
  pc,      \* per client: the next command of its call
  call,    \* per client: the method it is in, or None
  arg,     \* per client: the value passed
  local,   \* per client: what its read returned
  failed,  \* per client: a command of this call has raised
  sent,    \* sent[k]: items passed to a method that adds to k
  taken,   \* taken[k]: items that get_trades, get_orders_and_delete returned
  ended,   \* ended[k]: what k held when it expired, until it is written again
  calls, faults, slow   \* counters under the bounds

callVars == <<pc, call, arg, local, failed>>
vars == <<data, ttl, lock, heard, callVars, sent, taken, ended, calls, faults, slow>>

Pcs == {"idle", "acquire", "read", "write", "expire", "publish", "release"}

TypeOK ==
  /\ data \in [Keys -> SUBSET Items]
  /\ ttl \in [Keys -> BOOLEAN]
  /\ lock \in [Keys -> Clients \cup {None}]
  /\ heard \in [Keys -> SUBSET Items]
  /\ pc \in [Clients -> Pcs]
  /\ call \in [Clients -> Methods \cup {None}]
  /\ \A c \in Clients : call[c] = None <=> pc[c] = "idle"
  /\ arg \in [Clients -> SUBSET Items]
  /\ local \in [Clients -> SUBSET Items]
  /\ failed \in [Clients -> BOOLEAN]
  /\ sent \in [Keys -> SUBSET Items]
  /\ taken \in [Keys -> SUBSET Items]
  /\ ended \in [Keys -> SUBSET Items]
  /\ calls \in 0..MaxCalls
  /\ faults \in 0..MaxFaults
  /\ slow \in 0..MaxSlow

Init ==
  /\ data = [k \in Keys |-> {}]
  /\ ttl = [k \in Keys |-> FALSE]
  /\ lock = [k \in Keys |-> None]
  /\ heard = [k \in Keys |-> {}]
  /\ pc = [c \in Clients |-> "idle"]
  /\ call = [c \in Clients |-> None]
  /\ arg = [c \in Clients |-> {}]
  /\ local = [c \in Clients |-> {}]
  /\ failed = [c \in Clients |-> FALSE]
  /\ sent = [k \in Keys |-> {}]
  /\ taken = [k \in Keys |-> {}]
  /\ ended = [k \in Keys |-> {}]
  /\ calls = 0
  /\ faults = 0
  /\ slow = 0

This(c) == Method[call[c]]
Key(c) == This(c).key

\* The values a method can be called with: a getter or a delete takes none.
Values(m) ==
  IF Method[m].write \in {"none", "delete", "remove"} THEN {{}} ELSE Args

\* A method that hands out the content of its key and removes it.
Takes(c) == This(c).reads /\ This(c).write \in {"delete", "remove"}

\* dict.update and HSET: the new fields replace those of the same name.
Merge(old, new) ==
  {i \in old : \A n \in new : n.field # i.field} \cup new

-----------------------------------------------------------------------------
\* A call, up to the lock.

\* An order or a trade is JSON with its own identifiers: no two calls add
\* the same one.
Call(c, m, a) ==
  /\ pc[c] = "idle"
  /\ calls < MaxCalls
  /\ IF Method[m].write = "add"
     THEN /\ a \cap sent[Method[m].key] = {}
          /\ sent' = [sent EXCEPT ![Method[m].key] = @ \cup a]
     ELSE UNCHANGED sent
  /\ calls' = calls + 1
  /\ pc' = [pc EXCEPT ![c] = "acquire"]
  /\ call' = [call EXCEPT ![c] = m]
  /\ arg' = [arg EXCEPT ![c] = a]
  /\ UNCHANGED <<data, ttl, lock, heard, local, failed, taken, ended, faults, slow>>

\* Mutant of Acquire: the lock is asked for without waiting, and the answer
\* not looked at.
AcquireNoWait(c) ==
  /\ pc[c] = "acquire"
  /\ lock' = [lock EXCEPT ![Key(c)] = IF @ = None THEN c ELSE @]
  /\ pc' = [pc EXCEPT ![c] = IF This(c).reads THEN "read" ELSE "write"]
  /\ UNCHANGED <<data, ttl, heard, call, arg, local, failed, sent, taken, ended,
                 calls, faults, slow>>

\* SET NX with a lease, retried every 0.1 s for as long as it takes.
Acquire(c) ==
  /\ pc[c] = "acquire"
  /\ lock[Key(c)] = None
  /\ lock' = [lock EXCEPT ![Key(c)] = c]
  /\ pc' = [pc EXCEPT ![c] = IF This(c).reads THEN "read" ELSE "write"]
  /\ UNCHANGED <<data, ttl, heard, call, arg, local, failed, sent, taken, ended, calls,
                 faults, slow>>

\* Mutant of Forget: the client does not notice that its call is over.
ForgetKeepsCall(c) ==
  /\ pc' = [pc EXCEPT ![c] = "idle"]
  /\ arg' = [arg EXCEPT ![c] = {}]
  /\ local' = [local EXCEPT ![c] = {}]
  /\ failed' = [failed EXCEPT ![c] = FALSE]
  /\ UNCHANGED call

\* The call is over: it has returned, raised, or died with its process.
Forget(c) ==
  /\ pc' = [pc EXCEPT ![c] = "idle"]
  /\ call' = [call EXCEPT ![c] = None]
  /\ arg' = [arg EXCEPT ![c] = {}]
  /\ local' = [local EXCEPT ![c] = {}]
  /\ failed' = [failed EXCEPT ![c] = FALSE]

\* The command that takes the lock raises: the `with' body never runs and
\* nothing is released, whether or not Redis has set the lock.
AcquireFails(c) ==
  /\ pc[c] = "acquire"
  /\ faults < MaxFaults
  /\ faults' = faults + 1
  /\ \/ UNCHANGED lock
     \/ lock[Key(c)] = None /\ lock' = [lock EXCEPT ![Key(c)] = c]
  /\ Forget(c)
  /\ UNCHANGED <<data, ttl, heard, sent, taken, ended, calls, slow>>

-----------------------------------------------------------------------------
\* The commands of the `with' body.

\* The reply arrives and the call goes on to `label', or it is lost: the
\* client raises out of the body, through the release of the lock.
Proceed(c, label) ==
  \/ /\ pc' = [pc EXCEPT ![c] = label]
     /\ UNCHANGED <<failed, faults>>
  \/ /\ faults < MaxFaults
     /\ faults' = faults + 1
     /\ failed' = [failed EXCEPT ![c] = TRUE]
     /\ pc' = [pc EXCEPT ![c] = "release"]

\* A command raises and Redis has not executed it.
Refused(c) ==
  /\ pc[c] \in {"read", "write", "expire", "publish"}
  /\ faults < MaxFaults
  /\ faults' = faults + 1
  /\ failed' = [failed EXCEPT ![c] = TRUE]
  /\ pc' = [pc EXCEPT ![c] = "release"]
  /\ UNCHANGED <<data, ttl, lock, heard, call, arg, local, sent, taken, ended, calls, slow>>

\* Mutant of NothingToWrite: get_trades does not remove what it has read.
NothingRemoved(c) == This(c).write \in {"none", "remove"}

NothingToWrite(c) ==
  This(c).write = "none" \/ (This(c).write = "remove" /\ data[Key(c)] = {})

\* HGETALL, GET, SMEMBERS, ZRANGE.  json.loads(None) raises in
\* get_new_book_ticker when there is no such key.
Read(c) ==
  /\ pc[c] = "read"
  /\ IF call[c] = "get_new_book_ticker" /\ data[Key(c)] = {}
     THEN /\ pc' = [pc EXCEPT ![c] = "release"]
          /\ failed' = [failed EXCEPT ![c] = TRUE]
          /\ UNCHANGED <<local, faults>>
     ELSE /\ local' = [local EXCEPT ![c] = data[Key(c)]]
          /\ Proceed(c, IF NothingToWrite(c) THEN "release" ELSE "write")
  /\ UNCHANGED <<data, ttl, lock, heard, call, arg, sent, taken, ended, calls, slow>>

\* Mutant of Written: set_portfolios stores the delta only.
WrittenDelta(c) ==
  LET stored == data[Key(c)] IN
  CASE This(c).write = "merge" -> Merge(stored, arg[c])
    [] This(c).write \in {"set", "setMerged"} -> arg[c]
    [] This(c).write = "add" -> stored \cup arg[c]
    [] This(c).write = "delete" -> {}
    [] This(c).write = "remove" -> stored \ local[c]

\* What the method's writing command leaves in its key.
Written(c) ==
  LET stored == data[Key(c)] IN
  CASE This(c).write = "merge" -> Merge(stored, arg[c])
    [] This(c).write = "set" -> arg[c]
    [] This(c).write = "setMerged" -> Merge(local[c], arg[c])
    [] This(c).write = "add" -> stored \cup arg[c]
    [] This(c).write = "delete" -> {}
    [] This(c).write = "remove" -> stored \ local[c]

\* HSET, SADD, ZADD and ZREM keep a time to live; SET and DEL do not, nor does
\* a key whose last member is removed.
KeepsTtl(c) ==
  This(c).write \in {"merge", "add", "remove"} /\ Written(c) # {}

AfterWrite(c) ==
  IF This(c).expires THEN "expire"
  ELSE IF This(c).publishes THEN "publish" ELSE "release"

Write(c) ==
  /\ pc[c] = "write"
  /\ data' = [data EXCEPT ![Key(c)] = Written(c)]
  /\ ttl' = [ttl EXCEPT ![Key(c)] = @ /\ KeepsTtl(c)]
  /\ ended' = [ended EXCEPT ![Key(c)] = {}]
  /\ Proceed(c, AfterWrite(c))
  /\ UNCHANGED <<lock, heard, call, arg, local, sent, taken, calls, slow>>

\* Mutant of Expire: the publication is forgotten.
ExpireThenRelease(c) ==
  /\ pc[c] = "expire"
  /\ ttl' = [ttl EXCEPT ![Key(c)] = data[Key(c)] # {}]
  /\ Proceed(c, "release")
  /\ UNCHANGED <<data, lock, heard, call, arg, local, sent, taken, ended, calls, slow>>

Expire(c) ==
  /\ pc[c] = "expire"
  /\ ttl' = [ttl EXCEPT ![Key(c)] = data[Key(c)] # {}]
  /\ Proceed(c, IF This(c).publishes THEN "publish" ELSE "release")
  /\ UNCHANGED <<data, lock, heard, call, arg, local, sent, taken, ended, calls, slow>>

\* Only the value passed is published, and a subscriber adds it to what it
\* holds the way the key takes it.
Publish(c) ==
  /\ pc[c] = "publish"
  /\ heard' = [heard EXCEPT ![Key(c)] =
                 CASE This(c).write = "setMerged" -> Merge(@, arg[c])
                   [] This(c).write = "add" -> @ \cup arg[c]
                   [] This(c).write = "set" -> arg[c]]
  /\ Proceed(c, "release")
  /\ UNCHANGED <<data, ttl, lock, call, arg, local, sent, taken, ended, calls, slow>>

\* Mutant of Release: the caller is given what was read even if a command of
\* the body has raised.
ReleaseAnyway(c) ==
  /\ pc[c] = "release"
  /\ lock' = [lock EXCEPT ![Key(c)] = IF @ = c THEN None ELSE @]
  /\ taken' = [taken EXCEPT ![Key(c)] = IF Takes(c) THEN @ \cup local[c] ELSE @]
  /\ Forget(c)
  /\ UNCHANGED <<data, ttl, heard, sent, ended, calls, faults, slow>>

\* Leaving the `with' block compares the token and deletes the lock; a lease
\* that is over raises, and so does a lost connection.  Only if neither the
\* body nor the release has raised does the caller get what was read.
Release(c) ==
  /\ pc[c] = "release"
  /\ \/ /\ lock[Key(c)] = c
        /\ lock' = [lock EXCEPT ![Key(c)] = None]
        /\ taken' = [taken EXCEPT ![Key(c)] =
                       IF Takes(c) /\ ~failed[c] THEN @ \cup local[c] ELSE @]
        /\ UNCHANGED faults
     \/ /\ lock[Key(c)] # c
        /\ UNCHANGED <<lock, taken, faults>>
     \/ /\ faults < MaxFaults
        /\ faults' = faults + 1
        /\ \/ UNCHANGED lock
           \/ lock[Key(c)] = c /\ lock' = [lock EXCEPT ![Key(c)] = None]
        /\ UNCHANGED taken
  /\ Forget(c)
  /\ UNCHANGED <<data, ttl, heard, sent, ended, calls, slow>>

Crash(c) ==
  /\ pc[c] # "idle"
  /\ faults < MaxFaults
  /\ faults' = faults + 1
  /\ Forget(c)
  /\ UNCHANGED <<data, ttl, lock, heard, sent, taken, ended, calls, slow>>

-----------------------------------------------------------------------------
\* The Redis server.

\* Client c is between taking the lock of k and giving it back.
Inside(c, k) == pc[c] \notin {"idle", "acquire"} /\ Key(c) = k

\* Mutant of LeaseEnds: a lock whose owner is gone stays.
LeaseNeedsOwner(k) ==
  /\ lock[k] # None
  /\ lock' = [lock EXCEPT ![k] = None]
  /\ Inside(lock[k], k) /\ slow < MaxSlow /\ slow' = slow + 1
  /\ UNCHANGED <<data, ttl, heard, callVars, sent, taken, ended, calls, faults>>

\* The lease of a lock ends: its owner is gone, or still at work.
LeaseEnds(k) ==
  /\ lock[k] # None
  /\ lock' = [lock EXCEPT ![k] = None]
  /\ IF Inside(lock[k], k)
     THEN slow < MaxSlow /\ slow' = slow + 1
     ELSE UNCHANGED slow
  /\ UNCHANGED <<data, ttl, heard, callVars, sent, taken, ended, calls, faults>>

KeyExpires(k) ==
  /\ ttl[k]
  /\ data' = [data EXCEPT ![k] = {}]
  /\ ttl' = [ttl EXCEPT ![k] = FALSE]
  /\ ended' = [ended EXCEPT ![k] = data[k]]
  /\ UNCHANGED <<lock, heard, callVars, sent, taken, calls, faults, slow>>

Step(c) ==
  \/ Acquire(c) \/ Read(c) \/ Write(c) \/ Expire(c) \/ Publish(c) \/ Release(c)

Next ==
  \/ \E c \in Clients :
       \/ \E m \in Methods : \E a \in Values(m) : Call(c, m, a)
       \/ Step(c) \/ AcquireFails(c) \/ Refused(c) \/ Crash(c)
  \/ \E k \in Keys : LeaseEnds(k) \/ KeyExpires(k)

Spec == Init /\ [][Next]_vars

\* A client that runs goes on running, a lease ends, and whoever polls for a
\* lock that keeps coming free gets it.  Nobody owes a call, a failure or the
\* end of a key.
Fairness ==
  /\ \A c \in Clients : SF_vars(Step(c))
  /\ \A k \in Keys : WF_vars(LeaseEnds(k) /\ UNCHANGED slow)

FairSpec == Spec /\ Fairness

-----------------------------------------------------------------------------
\* Properties.

\* A method that writes what it has read, or deletes what it has read, still
\* has all that its key holds: no client has written between the two commands
\* (set_portfolios, get_trades, get_orders_and_delete).
ReadCoversStore ==
  \A c \in Clients :
    pc[c] = "write" /\ This(c).reads => data[Key(c)] \subseteq local[c]

\* What a caller of get_trades or get_orders_and_delete is given, no caller
\* was given before, and it is not in Redis any more.
AtMostOnce ==
  /\ \A k \in Keys : taken[k] \cap data[k] = {}
  /\ \A c \in Clients :
       pc[c] = "release" /\ Takes(c) /\ ~failed[c] =>
         local[c] \cap taken[Key(c)] = {}

\* "it must accumulate symbols": only the end of its time to live removes a
\* symbol from the portfolios snapshot (set_portfolios).
Portfolios == "portfolios"

LosesSymbol ==
  \E i \in data[Portfolios] : \A n \in data'[Portfolios] : n.field # i.field

SnapshotAccumulates == [][LosesSymbol => KeyExpires(Portfolios)]_data

\* Unless a command failed, a subscriber that merges the published deltas in
\* the order they arrive holds the snapshot that is stored: the publishing
\* order is the storing order (set_portfolios, set_publish_* methods).
Announced == {Method[m].key : m \in {n \in Methods : Method[n].publishes}}

MirrorAgrees ==
  \A k \in Announced :
    faults = 0 /\ lock[k] = None => data[k] \subseteq heard[k]

\* A stored snapshot has a time to live: "a quiet market cannot serve an
\* arbitrarily old snapshot forever" (set_portfolios).
SnapshotExpires ==
  data[Portfolios] # {} /\ lock[Portfolios] = None => ttl[Portfolios]

\* No call hangs: neither a lost reply nor a client that dies with the lock
\* keeps the others waiting for ever (get_lock_for_resource).
CallsFinish == \A c \in Clients : pc[c] # "idle" ~> pc[c] = "idle"

\* Under the lock the commands of a call are one atomic operation.
InHand ==
  [c \in Clients |->
     IF pc[c] = "release" /\ Takes(c) /\ ~failed[c] THEN local[c] ELSE {}]

Store == INSTANCE SharedStore WITH hand <- InHand

Atomic == Store!Spec

=============================================================================
