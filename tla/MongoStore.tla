----------------------------- MODULE MongoStore -----------------------------
(***************************************************************************)
(* MongodbOperations: threads of one process make instances that share the *)
(* class attribute _client, ensure the indexes once, and call the methods  *)
(* of MongoMethods, each of which is a sequence of commands to the server. *)
(* A command can fail at any point, and what a method has written by then  *)
(* stays.  The server is external: a command on one document is atomic.    *)
(***************************************************************************)
EXTENDS Naturals, FiniteSets, MongoMethods

CONSTANTS
  Clients,     \* threads, each with an instance of its own
  Keys,        \* keys of documents: an order id, a trade id, a funding time
  Repeated,    \* keys that a caller's list may name twice
  Menu,        \* Menu[c]: the methods that client c calls
  MaxCalls,    \* bound: calls
  MaxFaults,   \* bound: failed commands
  MaxCloses    \* bound: close() of an instance

ConstantsAssumption ==
  /\ Menu \in [Clients -> SUBSET AllMethods]
  /\ Repeated \subseteq Keys
  /\ MaxCalls \in Nat /\ MaxFaults \in Nat /\ MaxCloses \in Nat
ASSUME ConstantsAssumption

Colls == {m.coll : m \in AllMethods}
Funding == "funding_rate_history"

\* The generic inserts are not called with the collection of the rates.
FundingAssumption ==
  \A c \in Clients : \A m \in Menu[c] :
    m.coll = Funding /\ m.kind \in Inserts => m.kind = "upsert"
ASSUME FundingAssumption

Indexes == 3          \* create_index commands of _ensure_indexes
NoCall == M("none", "orders", "look")

VARIABLES
  client,    \* class attribute _client: 0 for None, else a MongoClient
  ensured,   \* class attribute _indexes_ensured
  locked,    \* _indexes_lock is held
  open,      \* MongoClients that have not been closed
  made,      \* MongoClients made so far
  indexed,   \* the unique index of funding_rate_history exists (server)
  store,     \* store[l][k]: documents with key k in collection l (server)
  changed,   \* changed[l]: keys whose document an update has changed (server)
  pc,        \* pc[c]: where client c is
  handle,    \* handle[c]: client attribute of its instance
  built,     \* built[c]: indexes that its _ensure_indexes has created
  call,      \* call[c]: the method it is in
  todo,      \* todo[c]: the documents it has still to look at or write
  again,     \* again[c]: those of them that its list names once more
  item,      \* item[c]: the one it has looked for and not found
  calls, faults, closes

class == <<client, ensured, locked, open, made>>
server == <<indexed, store, changed>>
own == <<handle, built, call, todo, again, item>>
counters == <<calls, faults, closes>>
vars == <<class, server, pc, own, counters>>

Init ==
  /\ client = 0 /\ ensured = FALSE /\ locked = FALSE /\ open = {} /\ made = 0
  /\ indexed = FALSE
  /\ store = [l \in Colls |-> [k \in Keys |-> 0]]
  /\ changed = [l \in Colls |-> {}]
  /\ pc = [c \in Clients |-> "new"]
  /\ handle = [c \in Clients |-> 0]
  /\ built = [c \in Clients |-> 0]
  /\ call = [c \in Clients |-> NoCall]
  /\ todo = [c \in Clients |-> {}]
  /\ again = [c \in Clients |-> {}]
  /\ item = [c \in Clients |-> {}]
  /\ calls = 0 /\ faults = 0 /\ closes = 0

L(c) == call[c].coll
Kind(c) == call[c].kind
Goto(c, l) == pc' = [pc EXCEPT ![c] = l]
Fault == faults < MaxFaults /\ faults' = faults + 1 /\ UNCHANGED <<calls, closes>>
\* The instance's client answers only while nobody has closed it.
Connected(c) == handle[c] \in open

-----------------------------------------------------------------------------
\* __init__.

\* The test of _client and the assignment are two steps, without the lock.
FindClient(c) ==
  /\ pc[c] = "new"
  /\ IF client = 0 THEN Goto(c, "create") ELSE Goto(c, "attach")
  /\ UNCHANGED <<class, server, own, counters>>

CreateClient(c) ==
  /\ pc[c] = "create"
  /\ made' = made + 1 /\ client' = made' /\ open' = open \cup {made'}
  /\ Goto(c, "attach")
  /\ UNCHANGED <<ensured, locked, server, own, counters>>

\* Mutant of LockIndexes: the flag is set first, so that nobody waits.
LockIndexesEarly(c) ==
  /\ pc[c] = "lock"
  /\ IF ensured THEN Goto(c, "ready") ELSE Goto(c, "index")
  /\ ensured' = TRUE
  /\ built' = [built EXCEPT ![c] = 0]
  /\ UNCHANGED <<client, locked, open, made, server, handle, call, todo, again, item, counters>>

Attach(c) ==
  /\ pc[c] = "attach"
  /\ handle' = [handle EXCEPT ![c] = client]
  /\ Goto(c, "lock")
  /\ UNCHANGED <<class, server, built, call, todo, again, item, counters>>

LockIndexes(c) ==
  /\ pc[c] = "lock" /\ ~locked
  /\ IF ensured THEN locked' = locked /\ Goto(c, "ready")
                ELSE locked' = TRUE /\ Goto(c, "index")
  /\ built' = [built EXCEPT ![c] = 0]
  /\ UNCHANGED <<client, ensured, open, made, server, handle, call, todo, again, item, counters>>

\* Mutant of EnsureIndex: one command too many.
EnsureIndexAgain(c) ==
  /\ pc[c] = "index" /\ Connected(c)
  /\ built' = [built EXCEPT ![c] = @ + 1]
  /\ indexed' = TRUE
  /\ UNCHANGED <<class, store, changed, pc, handle, call, todo, again, item, counters>>

\* create_index of funding_rate_history fails if the collection has duplicates.
EnsureIndex(c) ==
  /\ pc[c] = "index" /\ built[c] < Indexes
  /\ Connected(c)
  /\ built[c] = 0 => \A k \in Keys : store[Funding][k] <= 1
  /\ built' = [built EXCEPT ![c] = @ + 1]
  /\ indexed' = TRUE
  /\ UNCHANGED <<class, store, changed, pc, handle, call, todo, again, item, counters>>

EnsureDone(c) ==
  /\ pc[c] = "index" /\ built[c] = Indexes
  /\ ensured' = TRUE /\ locked' = FALSE
  /\ Goto(c, "ready")
  /\ UNCHANGED <<client, open, made, server, own, counters>>

\* An exception in __init__: there is no instance, and the caller tries again.
InitFails(c) ==
  /\ pc[c] = "index" /\ built[c] < Indexes
  /\ \/ Fault
     \/ ~Connected(c) /\ UNCHANGED counters
  /\ locked' = FALSE
  /\ Goto(c, "new")
  /\ UNCHANGED <<client, ensured, open, made, server, own>>

\* close() resets the class attribute, also for the instances of other threads,
\* but an instance keeps the client it has; a client of None is not closed.
Close(c) ==
  /\ pc[c] = "ready" /\ closes < MaxCloses
  /\ IF handle[c] = 0 THEN UNCHANGED <<client, open>>
                      ELSE client' = 0 /\ open' = open \ {handle[c]}
  /\ closes' = closes + 1
  /\ Goto(c, "new")
  /\ UNCHANGED <<ensured, locked, made, server, own, calls, faults>>

-----------------------------------------------------------------------------
\* A call.

Started(k) == CASE k \in {"absent", "upsert"} -> "test"
                [] k = "fresh" -> "find"
                [] OTHER -> "run"

\* Lists of documents are given to the inserts that are not keyed, and only
\* such a list can name a key twice.
Invoke(c) ==
  /\ pc[c] = "ready" /\ calls < MaxCalls
  /\ \E m \in Menu[c], given \in (SUBSET Keys) \ {{}} :
       /\ m.kind \in {"keyed", "set"} => Cardinality(given) = 1
       /\ call' = [call EXCEPT ![c] = m]
       /\ todo' = [todo EXCEPT ![c] = given]
       /\ \E twice \in SUBSET (IF m.kind \in Inserts \ {"keyed"} THEN given \cap Repeated ELSE {}) :
            again' = [again EXCEPT ![c] = twice]
       /\ Goto(c, Started(m.kind))
  /\ calls' = calls + 1
  /\ UNCHANGED <<class, server, handle, built, item, faults, closes>>

Return(c) ==
  /\ Goto(c, "ready")
  /\ call' = [call EXCEPT ![c] = NoCall]
  /\ todo' = [todo EXCEPT ![c] = {}]
  /\ again' = [again EXCEPT ![c] = {}]
  /\ item' = [item EXCEPT ![c] = {}]

InCall(c) == pc[c] \in {"find", "test", "run", "add"}

\* An error of the server, or a client that has been closed or is None: the
\* call ends with what it has done so far.
CommandFails(c) ==
  /\ InCall(c)
  /\ \/ Connected(c) /\ Fault
     \/ ~Connected(c) /\ UNCHANGED counters
  /\ Return(c)
  /\ UNCHANGED <<class, server, handle, built>>

Put(l, k, n) == store' = [store EXCEPT ![l][k] = n]

\* Mutant of Filter: nothing is filtered out.
FilterNothing(c) ==
  /\ pc[c] = "find" /\ Connected(c)
  /\ Goto(c, "run")
  /\ UNCHANGED <<class, server, own, counters>>

\* insert_deposit_withdraw: one find, and the rest is inserted without another.
\* What the list names twice it filters out twice or not at all.
Filter(c) ==
  /\ pc[c] = "find" /\ Connected(c)
  /\ LET rest == {k \in todo[c] : store[L(c)][k] = 0}
     IN IF rest = {} THEN Return(c)
        ELSE /\ todo' = [todo EXCEPT ![c] = rest]
             /\ again' = [again EXCEPT ![c] = @ \cap rest]
             /\ Goto(c, "run")
             /\ UNCHANGED <<call, item>>
  /\ UNCHANGED <<class, server, handle, built, counters>>

\* One document is done with: the next one, or the call returns.
Advance(c, k, l) ==
  IF todo[c] = {k} /\ again[c] = {} THEN Return(c)
  ELSE /\ IF k \in again[c]
          THEN again' = [again EXCEPT ![c] = @ \ {k}] /\ UNCHANGED todo
          ELSE todo' = [todo EXCEPT ![c] = @ \ {k}] /\ UNCHANGED again
       /\ item' = [item EXCEPT ![c] = {}]
       /\ Goto(c, l)
       /\ UNCHANGED call

\* find_one of insert_data_if_not_exists, and the match of an upsert, which
\* replaces the document it finds.
Test(c) ==
  /\ pc[c] = "test" /\ Connected(c)
  /\ \E k \in todo[c] :
       IF store[L(c)][k] = 0
       THEN /\ item' = [item EXCEPT ![c] = {k}]
            /\ Goto(c, "add")
            /\ UNCHANGED <<changed, call, todo, again>>
       ELSE /\ changed' = IF Kind(c) = "upsert" THEN [changed EXCEPT ![L(c)] = @ \ {k}] ELSE changed
            /\ Advance(c, k, "test")
  /\ UNCHANGED <<class, indexed, store, handle, built, counters>>

\* The insert after it.  _id is unique: insert_one is refused if the document
\* has come in between; an upsert is refused, and tried again by the server as
\* a replacement, only if the unique index exists.
Add(c) ==
  /\ pc[c] = "add" /\ Connected(c)
  /\ \E k \in item[c] :
       LET taken == store[L(c)][k] > 0 IN
       CASE taken /\ Kind(c) = "absent" -> Return(c) /\ UNCHANGED store
         [] taken /\ Kind(c) = "upsert" /\ indexed -> Advance(c, k, "test") /\ UNCHANGED store
         [] OTHER -> Advance(c, k, "test") /\ Put(L(c), k, store[L(c)][k] + 1)
  /\ UNCHANGED <<class, indexed, changed, handle, built, counters>>

\* Mutant of Insert: a trade record is replaced when it is inserted again.
InsertReplacing(c) ==
  /\ pc[c] = "run" /\ Connected(c)
  /\ Kind(c) \in {"append", "fresh", "keyed"}
  /\ \E k \in todo[c] :
       /\ Advance(c, k, "run")
       /\ Put(L(c), k, IF Kind(c) = "keyed" THEN 1 ELSE store[L(c)][k] + 1)
       /\ changed' = [changed EXCEPT ![L(c)] = @ \ {k}]
  /\ UNCHANGED <<class, indexed, handle, built, counters>>

\* insert_many and insert_one of insert_data.
Insert(c) ==
  /\ pc[c] = "run" /\ Connected(c)
  /\ Kind(c) \in {"append", "fresh", "keyed"}
  /\ \E k \in todo[c] :
       IF Kind(c) = "keyed" /\ store[L(c)][k] > 0
       THEN Return(c) /\ UNCHANGED store
       ELSE Advance(c, k, "run") /\ Put(L(c), k, store[L(c)][k] + 1)
  /\ UNCHANGED <<class, indexed, changed, handle, built, counters>>

Present(l) == {k \in Keys : store[l][k] > 0}

\* $set of the documents that match: one by its key, which may not be there
\* yet, the first of all if no key is given, or all of one status.
Change(c) ==
  /\ pc[c] = "run" /\ Connected(c)
  /\ \E hit \in CASE Kind(c) = "set" -> {todo[c]}
                  [] Kind(c) = "setAny" -> {{k} : k \in Present(L(c))} \cup {todo[c]}
                  [] Kind(c) = "setAll" -> SUBSET Present(L(c))
                  [] OTHER -> {} :
       changed' = [changed EXCEPT ![L(c)] = @ \cup (hit \cap Present(L(c)))]
  /\ Return(c)
  /\ UNCHANGED <<class, indexed, store, handle, built, counters>>

\* delete_many, of all or of a time span.
Delete(c) ==
  /\ pc[c] = "run" /\ Connected(c) /\ Kind(c) = "delete"
  /\ \E gone \in {Keys, todo[c]} :
       /\ store' = [store EXCEPT ![L(c)] = [k \in Keys |-> IF k \in gone THEN 0 ELSE @[k]]]
       /\ changed' = [changed EXCEPT ![L(c)] = @ \ gone]
  /\ Return(c)
  /\ UNCHANGED <<class, indexed, handle, built, counters>>

Read(c) ==
  /\ pc[c] = "run" /\ Connected(c) /\ Kind(c) \in Reads
  /\ Return(c)
  /\ UNCHANGED <<class, server, handle, built, counters>>

Next ==
  \E c \in Clients :
    \/ FindClient(c) \/ CreateClient(c) \/ Attach(c) \/ LockIndexes(c)
    \/ EnsureIndex(c) \/ EnsureDone(c) \/ InitFails(c) \/ Close(c)
    \/ Invoke(c) \/ CommandFails(c) \/ Filter(c) \/ Test(c) \/ Add(c)
    \/ Insert(c) \/ Change(c) \/ Delete(c) \/ Read(c)

Spec == Init /\ [][Next]_vars

-----------------------------------------------------------------------------
TypeOK ==
  /\ client \in 0..made /\ ensured \in BOOLEAN /\ locked \in BOOLEAN
  /\ made \in Nat /\ open \subseteq 1..made
  /\ indexed \in BOOLEAN
  /\ store \in [Colls -> [Keys -> Nat]]
  /\ changed \in [Colls -> SUBSET Keys]
  /\ pc \in [Clients -> {"new", "create", "attach", "lock", "index", "ready",
                         "find", "test", "add", "run"}]
  /\ handle \in [Clients -> 0..made]
  /\ built \in [Clients -> 0..Indexes]
  /\ call \in [Clients -> AllMethods \cup {NoCall}]
  /\ todo \in [Clients -> SUBSET Keys]
  /\ again \in [Clients -> SUBSET Repeated]
  /\ item \in [Clients -> SUBSET Keys]
  /\ calls \in 0..MaxCalls /\ faults \in 0..MaxFaults /\ closes \in 0..MaxCloses

\* No method of any instance runs before the unique index of the funding rates
\* exists, whatever threads make instances at once, whichever create_index fails
\* and whoever closes the shared client (__init__, _ensure_indexes, close).  It
\* is created first; the other two indexes only make queries faster.
IndexesFirst == \A c \in Clients : pc[c] = "ready" \/ InCall(c) => indexed

\* "unique on (exchange_id, inst_code, time_ms) for upsert dedup": concurrent
\* and repeated insert_funding_rate_history leave one document for each time.
\* It rests on IndexesFirst, as match and insert of an upsert are two steps.
FundingUnique == \A k \in Keys : store[Funding][k] <= 1

\* With one writer, a deposit is stored once for each time that one list names
\* it, however often a call failed in the middle and was repeated with the same
\* documents.  (The filter looks at the store only, so that a list that names an
\* id twice inserts it twice; and with two writers both may find an id missing,
\* as "id" has no unique index.)
Writers(m) == {c \in Clients : \E r \in Menu[c] : r.coll = m.coll /\ r.kind \in Inserts}
Copies(k) == IF k \in Repeated THEN 2 ELSE 1
DepositsOnce ==
  \A m \in InsertDeposits :
    (\A c, d \in Writers(m) : c = d /\ \A r \in Menu[c] : r.coll = m.coll /\ r.kind \in Inserts => r = m)
    => \A k \in Keys : store[m.coll][k] <= Copies(k)

\* A repeated insert of a trade, a shadow trade or a report never undoes what
\* updates have made of it: only deleting it does.
KeyedColls == {m.coll : m \in {r \in AllMethods : r.kind = "keyed"}}
UpdatesStay ==
  [][\A l \in KeyedColls, k \in Keys :
       k \in changed[l] /\ k \notin changed'[l] => store'[l][k] = 0]_vars
=============================================================================
