------------------------ MODULE RedisOperationsProofs ------------------------
(***************************************************************************)
(* Theorems about RedisOperations, for every set of clients, methods and   *)
(* values and every number of calls and failures.                          *)
(***************************************************************************)
EXTENDS RedisOperations, TLAPS

-----------------------------------------------------------------------------
\* Facts read off the table of methods.

LEMMA MethodFields ==
  ASSUME NEW m \in DOMAIN Method
  PROVE  /\ Method[m].write \in {"none", "merge", "set", "setMerged", "add",
                                 "delete", "remove"}
         /\ Method[m].publishes => Method[m].write \in {"set", "setMerged", "add"}
         /\ ~Method[m].reads => Method[m].write # "none"
<1>1. Method[m].write \in {"none", "merge", "set", "setMerged", "add",
                           "delete", "remove"}
  BY SMTT(30) DEF Method, M
<1>2. Method[m].publishes => Method[m].write \in {"set", "setMerged", "add"}
  BY SMTT(30) DEF Method, M
<1>3. ~Method[m].reads => Method[m].write # "none"
  BY SMTT(30) DEF Method, M
<1> QED
  BY <1>1, <1>2, <1>3

\* set_portfolios is the only method of the portfolios key.
LEMMA OnePortfoliosMethod ==
  ASSUME NEW m \in DOMAIN Method, Method[m].key = Portfolios
  PROVE  Method[m].reads /\ Method[m].write = "setMerged"
  BY DEF Method, M, Portfolios

-----------------------------------------------------------------------------
\* Typing.  A call that is past the lock publishes only if its method does,
\* and writes only if its method writes: the two CASEs of Written and Publish
\* then have an arm.
InCourse ==
  \A c \in Clients :
    /\ pc[c] = "write" => This(c).write # "none"
    /\ pc[c] = "publish" => This(c).publishes
    /\ pc[c] = "expire" => This(c).expires

TypeInv == TypeOK /\ InCourse

LEMMA InitTypeInv == Init => TypeInv
<1> SUFFICES ASSUME Init PROVE TypeInv
  OBVIOUS
<1>1. 0 \in 0..MaxCalls /\ 0 \in 0..MaxFaults /\ 0 \in 0..MaxSlow
  BY ConstantsAssumption DEF ConstantsAssumption
<1>2. TypeOK
  BY <1>1 DEF Init, TypeOK, Pcs
<1>3. InCourse
  BY DEF Init, InCourse
<1> QED
  BY <1>2, <1>3 DEF TypeInv

\* A client that is in a call works on a key of Keys, with a method of the table.
LEMMA ThisCall ==
  ASSUME TypeOK, NEW c \in Clients, pc[c] # "idle"
  PROVE  /\ call[c] \in Methods
         /\ call[c] \in DOMAIN Method
         /\ Key(c) \in Keys
<1>1. call[c] \in Methods
  BY DEF TypeOK
<1> QED
  BY <1>1, ConstantsAssumption DEF ConstantsAssumption, Keys, Key, This

\* What a writing command leaves in a key are items.
LEMMA WrittenType ==
  ASSUME TypeInv, NEW c \in Clients, pc[c] = "write"
  PROVE  Written(c) \in SUBSET Items
<1>1. call[c] \in DOMAIN Method /\ Key(c) \in Keys
  BY ThisCall DEF TypeInv
<1>2. This(c).write \in {"merge", "set", "setMerged", "add", "delete", "remove"}
  BY <1>1, MethodFields DEF This, TypeInv, InCourse
<1>3. /\ data[Key(c)] \in SUBSET Items
      /\ arg[c] \in SUBSET Items
      /\ local[c] \in SUBSET Items
  BY <1>1 DEF TypeInv, TypeOK
<1>4. /\ Merge(data[Key(c)], arg[c]) \in SUBSET Items
      /\ Merge(local[c], arg[c]) \in SUBSET Items
  BY <1>3 DEF Merge
<1> QED
  BY <1>2, <1>3, <1>4 DEF Written

\* Ending a call keeps the part of the state that Forget assigns well typed.
LEMMA ForgetType ==
  ASSUME TypeOK, NEW c \in Clients, Forget(c)
  PROVE  /\ pc' \in [Clients -> Pcs]
         /\ call' \in [Clients -> Methods \cup {None}]
         /\ \A d \in Clients : call'[d] = None <=> pc'[d] = "idle"
         /\ arg' \in [Clients -> SUBSET Items]
         /\ local' \in [Clients -> SUBSET Items]
         /\ failed' \in [Clients -> BOOLEAN]
  BY DEF TypeOK, Forget, Pcs

\* So does going on to another command of the same call.
LEMMA ProceedType ==
  ASSUME TypeOK, NEW c \in Clients, pc[c] # "idle", call' = call,
         NEW label \in Pcs \ {"idle"}, Proceed(c, label)
  PROVE  /\ pc' \in [Clients -> Pcs]
         /\ \A d \in Clients : call'[d] = None <=> pc'[d] = "idle"
         /\ failed' \in [Clients -> BOOLEAN]
         /\ faults' \in 0..MaxFaults
<1>1. faults' \in 0..MaxFaults
  BY ConstantsAssumption DEF ConstantsAssumption, TypeOK, Proceed
<1>2. /\ pc' \in [Clients -> Pcs]
      /\ failed' \in [Clients -> BOOLEAN]
  BY DEF TypeOK, Proceed, Pcs
<1>3. ASSUME NEW d \in Clients
      PROVE  call'[d] = None <=> pc'[d] = "idle"
  <2>1. pc'[d] = "idle" <=> pc[d] = "idle"
    BY DEF TypeOK, Proceed
  <2> QED
    BY <2>1 DEF TypeOK
<1> QED
  BY <1>1, <1>2, <1>3

LEMMA TypeStep == TypeInv /\ [Next]_vars => TypeOK'
<1> SUFFICES ASSUME TypeInv, [Next]_vars PROVE TypeOK'
  OBVIOUS
<1> TypeOK /\ InCourse
  BY DEF TypeInv
<1> USE DEF callVars
<1>1. ASSUME NEW c \in Clients, NEW m \in Methods, NEW a \in Values(m), Call(c, m, a)
      PROVE  TypeOK'
  <2>1. a \in SUBSET Items /\ m # None
    BY ConstantsAssumption DEF ConstantsAssumption, Values
  <2>2. Method[m].key \in Keys
    BY DEF Keys
  <2>3. sent' \in [Keys -> SUBSET Items]
    BY <1>1, <2>1, <2>2 DEF Call, TypeOK
  <2>4. calls' \in 0..MaxCalls
    BY <1>1, ConstantsAssumption DEF ConstantsAssumption, Call, TypeOK
  <2>5. /\ pc' \in [Clients -> Pcs]
        /\ call' \in [Clients -> Methods \cup {None}]
        /\ arg' \in [Clients -> SUBSET Items]
        /\ \A d \in Clients : call'[d] = None <=> pc'[d] = "idle"
    BY <1>1, <2>1 DEF Call, TypeOK, Pcs
  <2> QED
    BY <1>1, <2>3, <2>4, <2>5 DEF Call, TypeOK
<1>2. ASSUME NEW c \in Clients, Acquire(c)
      PROVE  TypeOK'
  BY <1>2, ThisCall DEF Acquire, TypeOK, Pcs
<1>3. ASSUME NEW c \in Clients, AcquireFails(c)
      PROVE  TypeOK'
  <2>1. lock' \in [Keys -> Clients \cup {None}]
    BY <1>3, ThisCall DEF AcquireFails, TypeOK
  <2>2. faults' \in 0..MaxFaults
    BY <1>3, ConstantsAssumption DEF ConstantsAssumption, AcquireFails, TypeOK
  <2> QED
    BY <1>3, <2>1, <2>2, ForgetType DEF AcquireFails, TypeOK
<1>4. ASSUME NEW c \in Clients, Refused(c)
      PROVE  TypeOK'
  <2>1. faults' \in 0..MaxFaults
    BY <1>4, ConstantsAssumption DEF ConstantsAssumption, Refused, TypeOK
  <2> QED
    BY <1>4, <2>1 DEF Refused, TypeOK, Pcs
<1>5. ASSUME NEW c \in Clients, Read(c)
      PROVE  TypeOK'
  <2> Key(c) \in Keys /\ pc[c] # "idle"
    BY <1>5, ThisCall DEF Read
  <2>1. /\ pc' \in [Clients -> Pcs]
        /\ \A d \in Clients : call'[d] = None <=> pc'[d] = "idle"
        /\ failed' \in [Clients -> BOOLEAN]
        /\ faults' \in 0..MaxFaults
    <3>1. CASE call[c] = "get_new_book_ticker" /\ data[Key(c)] = {}
      BY <1>5, <3>1 DEF Read, TypeOK, Pcs
    <3>2. CASE ~(call[c] = "get_new_book_ticker" /\ data[Key(c)] = {})
      <4>1. PICK label \in {"release", "write"} : Proceed(c, label)
        BY <1>5, <3>2 DEF Read
      <4> QED
        BY <1>5, <4>1, ProceedType DEF Read, Pcs
    <3> QED
      BY <3>1, <3>2
  <2>2. local' \in [Clients -> SUBSET Items]
    BY <1>5 DEF Read, TypeOK
  <2> QED
    BY <1>5, <2>1, <2>2 DEF Read, TypeOK
<1>6. ASSUME NEW c \in Clients, Write(c)
      PROVE  TypeOK'
  <2> Key(c) \in Keys /\ pc[c] # "idle"
    BY <1>6, ThisCall DEF Write
  <2>1. /\ data' \in [Keys -> SUBSET Items]
        /\ ended' \in [Keys -> SUBSET Items]
    BY <1>6, WrittenType DEF Write, TypeOK, TypeInv
  <2>2. ttl' \in [Keys -> BOOLEAN]
    BY <1>6 DEF Write, TypeOK
  <2>3. AfterWrite(c) \in Pcs \ {"idle"}
    BY DEF AfterWrite, Pcs
  <2>4. /\ pc' \in [Clients -> Pcs]
        /\ \A d \in Clients : call'[d] = None <=> pc'[d] = "idle"
        /\ failed' \in [Clients -> BOOLEAN]
        /\ faults' \in 0..MaxFaults
    BY <1>6, <2>3, ProceedType DEF Write
  <2> QED
    BY <1>6, <2>1, <2>2, <2>4 DEF Write, TypeOK
<1>7. ASSUME NEW c \in Clients, Expire(c)
      PROVE  TypeOK'
  <2> Key(c) \in Keys /\ pc[c] # "idle"
    BY <1>7, ThisCall DEF Expire
  <2>1. ttl' \in [Keys -> BOOLEAN]
    BY <1>7 DEF Expire, TypeOK
  <2>2. PICK label \in {"publish", "release"} : Proceed(c, label)
    BY <1>7 DEF Expire
  <2>3. /\ pc' \in [Clients -> Pcs]
        /\ \A d \in Clients : call'[d] = None <=> pc'[d] = "idle"
        /\ failed' \in [Clients -> BOOLEAN]
        /\ faults' \in 0..MaxFaults
    BY <1>7, <2>2, ProceedType DEF Expire, Pcs
  <2> QED
    BY <1>7, <2>1, <2>3 DEF Expire, TypeOK
<1>8. ASSUME NEW c \in Clients, Publish(c)
      PROVE  TypeOK'
  <2> Key(c) \in Keys /\ pc[c] # "idle" /\ call[c] \in DOMAIN Method
    BY <1>8, ThisCall DEF Publish
  <2>1. This(c).write \in {"set", "setMerged", "add"}
    BY <1>8, MethodFields DEF Publish, InCourse, This
  <2>2. /\ heard[Key(c)] \in SUBSET Items
        /\ arg[c] \in SUBSET Items
        /\ Merge(heard[Key(c)], arg[c]) \in SUBSET Items
    BY DEF TypeOK, Merge
  <2>3. heard' \in [Keys -> SUBSET Items]
    BY <1>8, <2>1, <2>2 DEF Publish, TypeOK
  <2>4. /\ pc' \in [Clients -> Pcs]
        /\ \A d \in Clients : call'[d] = None <=> pc'[d] = "idle"
        /\ failed' \in [Clients -> BOOLEAN]
        /\ faults' \in 0..MaxFaults
    BY <1>8, ProceedType DEF Publish, Pcs
  <2> QED
    BY <1>8, <2>3, <2>4 DEF Publish, TypeOK
<1>9. ASSUME NEW c \in Clients, Release(c)
      PROVE  TypeOK'
  <2> Key(c) \in Keys
    BY <1>9, ThisCall DEF Release
  <2>1. lock' \in [Keys -> Clients \cup {None}]
    BY <1>9 DEF Release, TypeOK
  <2>2. taken' \in [Keys -> SUBSET Items]
    BY <1>9 DEF Release, TypeOK
  <2>3. faults' \in 0..MaxFaults
    BY <1>9, ConstantsAssumption DEF ConstantsAssumption, Release, TypeOK
  <2> QED
    BY <1>9, <2>1, <2>2, <2>3, ForgetType DEF Release, TypeOK
<1>10. ASSUME NEW c \in Clients, Crash(c)
       PROVE  TypeOK'
  <2>1. faults' \in 0..MaxFaults
    BY <1>10, ConstantsAssumption DEF ConstantsAssumption, Crash, TypeOK
  <2> QED
    BY <1>10, <2>1, ForgetType DEF Crash, TypeOK
<1>11. ASSUME NEW k \in Keys, LeaseEnds(k)
       PROVE  TypeOK'
  <2>1. slow' \in 0..MaxSlow
    BY <1>11, ConstantsAssumption DEF ConstantsAssumption, LeaseEnds, TypeOK
  <2> QED
    BY <1>11, <2>1 DEF LeaseEnds, TypeOK
<1>12. ASSUME NEW k \in Keys, KeyExpires(k)
       PROVE  TypeOK'
  BY <1>12 DEF KeyExpires, TypeOK
<1>13. CASE UNCHANGED vars
  BY <1>13 DEF vars, TypeOK
<1> QED
  BY <1>1, <1>2, <1>3, <1>4, <1>5, <1>6, <1>7, <1>8, <1>9, <1>10, <1>11,
     <1>12, <1>13 DEF Next, Step

LEMMA InCourseStep == TypeInv /\ [Next]_vars => InCourse'
<1> SUFFICES ASSUME TypeInv, [Next]_vars PROVE InCourse'
  OBVIOUS
<1> TypeOK /\ InCourse
  BY DEF TypeInv
<1> USE DEF callVars, InCourse, This
<1>1. ASSUME NEW c \in Clients, NEW m \in Methods, NEW a \in Values(m), Call(c, m, a)
      PROVE  InCourse'
  BY <1>1 DEF Call, TypeOK
<1>2. ASSUME NEW c \in Clients, Acquire(c)
      PROVE  InCourse'
  BY <1>2, ThisCall, MethodFields DEF Acquire, TypeOK
<1>3. ASSUME NEW c \in Clients, Forget(c)
      PROVE  InCourse'
  BY <1>3 DEF Forget, TypeOK
<1>4. ASSUME NEW c \in Clients, Refused(c)
      PROVE  InCourse'
  BY <1>4 DEF Refused, TypeOK
<1>5. ASSUME NEW c \in Clients, Read(c)
      PROVE  InCourse'
  BY <1>5 DEF Read, Proceed, NothingToWrite, TypeOK
<1>6. ASSUME NEW c \in Clients, Write(c)
      PROVE  InCourse'
  BY <1>6 DEF Write, Proceed, AfterWrite, TypeOK
<1>7. ASSUME NEW c \in Clients, Expire(c)
      PROVE  InCourse'
  BY <1>7 DEF Expire, Proceed, TypeOK
<1>8. ASSUME NEW c \in Clients, Publish(c)
      PROVE  InCourse'
  BY <1>8 DEF Publish, Proceed, TypeOK
<1>9. CASE UNCHANGED callVars
  BY <1>9
<1> QED
  BY <1>1, <1>2, <1>3, <1>4, <1>5, <1>6, <1>7, <1>8, <1>9
     DEF Next, Step, AcquireFails, Release, Crash, LeaseEnds, KeyExpires, vars

\* Every step of every client and of the server keeps the state well typed
\* (the methods of RedisOperations).
THEOREM TypeCorrect == Spec => [](TypeOK /\ InCourse)
<1>1. TypeInv /\ [Next]_vars => TypeInv'
  BY TypeStep, InCourseStep DEF TypeInv
<1> QED
  BY InitTypeInv, <1>1, PTL DEF Spec, TypeInv

-----------------------------------------------------------------------------
\* The lock.  When no lease ends under a client at work, a client inside its
\* `with' block owns the lock of its key: so there is one of them at a time,
\* and nobody else writes the key between its commands.
OwnsLock ==
  \A c \in Clients : pc[c] \notin {"idle", "acquire"} => lock[Key(c)] = c

LockInv == slow = 0 => OwnsLock /\ ReadCoversStore

LEMMA InitLockInv == Init => LockInv
  BY DEF Init, LockInv, OwnsLock, ReadCoversStore

\* Two clients that own locks of the same key are the same client.
LEMMA Exclusive ==
  ASSUME TypeOK, OwnsLock, NEW c \in Clients, NEW d \in Clients,
         pc[c] \notin {"idle", "acquire"}, pc[d] \notin {"idle", "acquire"},
         Key(c) = Key(d)
  PROVE  c = d
  BY DEF OwnsLock

LEMMA OwnsLockStep ==
  TypeOK /\ OwnsLock /\ [Next]_vars /\ slow' = slow => OwnsLock'
<1> SUFFICES ASSUME TypeOK, OwnsLock, [Next]_vars, slow' = slow
             PROVE  OwnsLock'
  OBVIOUS
<1> None \notin Clients
  BY ConstantsAssumption DEF ConstantsAssumption
<1> USE DEF callVars, OwnsLock, This, Key
<1>1. ASSUME NEW c \in Clients, NEW m \in Methods, NEW a \in Values(m), Call(c, m, a)
      PROVE  OwnsLock'
  BY <1>1 DEF Call, TypeOK
<1>2. ASSUME NEW c \in Clients, Acquire(c)
      PROVE  OwnsLock'
  BY <1>2, ThisCall DEF Acquire, TypeOK
<1>3. ASSUME NEW c \in Clients, AcquireFails(c)
      PROVE  OwnsLock'
  BY <1>3, ThisCall DEF AcquireFails, Forget, TypeOK
<1>4. ASSUME NEW c \in Clients, pc[c] \notin {"idle", "acquire"}, call' = call,
             lock' = lock, NEW label \in Pcs, pc' = [pc EXCEPT ![c] = label]
      PROVE  OwnsLock'
  BY <1>4 DEF TypeOK
<1>5. ASSUME NEW c \in Clients, Refused(c) \/ Read(c) \/ Write(c) \/ Expire(c) \/ Publish(c)
      PROVE  OwnsLock'
  <2>1. /\ pc[c] \notin {"idle", "acquire"}
        /\ call' = call
        /\ lock' = lock
    BY <1>5 DEF Refused, Read, Write, Expire, Publish
  <2>2. \E label \in Pcs : pc' = [pc EXCEPT ![c] = label]
    BY <1>5 DEF Refused, Read, Write, Expire, Publish, Proceed, AfterWrite, Pcs
  <2> QED
    BY <1>4, <2>1, <2>2
<1>6. ASSUME NEW c \in Clients, Release(c)
      PROVE  OwnsLock'
  <2>1. ASSUME NEW d \in Clients, d # c, pc[d] \notin {"idle", "acquire"}
        PROVE  lock'[Key(d)] = d
    BY <1>6, <2>1, ThisCall DEF Release, TypeOK
  <2> QED
    BY <1>6, <2>1 DEF Release, Forget, TypeOK
<1>7. ASSUME NEW c \in Clients, Crash(c)
      PROVE  OwnsLock'
  BY <1>7 DEF Crash, Forget, TypeOK
<1>8. ASSUME NEW k \in Keys, LeaseEnds(k)
      PROVE  OwnsLock'
  <2>1. ~Inside(lock[k], k)
    BY <1>8 DEF LeaseEnds, TypeOK
  <2> QED
    BY <1>8, <2>1 DEF LeaseEnds, Inside, TypeOK
<1>9. ASSUME NEW k \in Keys, KeyExpires(k)
      PROVE  OwnsLock'
  BY <1>9 DEF KeyExpires
<1>10. CASE UNCHANGED vars
  BY <1>10 DEF vars
<1> QED
  BY <1>1, <1>2, <1>3, <1>5, <1>6, <1>7, <1>8, <1>9, <1>10 DEF Next, Step

\* A step that neither writes a key nor lets a call past its read.
LEMMA ReadUntouched ==
  ASSUME TypeOK, ReadCoversStore, data' = data,
         NEW c \in Clients, pc'[c] # "write",
         \A d \in Clients \ {c} : /\ pc'[d] = pc[d]
                                  /\ call'[d] = call[d]
                                  /\ local'[d] = local[d]
  PROVE  ReadCoversStore'
  BY DEF ReadCoversStore, This, Key

LEMMA ReadCoversStep ==
  TypeOK /\ OwnsLock /\ ReadCoversStore /\ [Next]_vars => ReadCoversStore'
<1> SUFFICES ASSUME TypeOK, OwnsLock, ReadCoversStore, [Next]_vars
             PROVE  ReadCoversStore'
  OBVIOUS
<1> USE DEF callVars
<1>1. ASSUME NEW c \in Clients, NEW m \in Methods, NEW a \in Values(m), Call(c, m, a)
      PROVE  ReadCoversStore'
  BY <1>1, ReadUntouched DEF Call, TypeOK
<1>2. ASSUME NEW c \in Clients, Acquire(c)
      PROVE  ReadCoversStore'
  BY <1>2 DEF Acquire, TypeOK, ReadCoversStore, This, Key
<1>3. ASSUME NEW c \in Clients, Forget(c), data' = data
      PROVE  ReadCoversStore'
  BY <1>3, ReadUntouched DEF Forget, TypeOK
<1>4. ASSUME NEW c \in Clients, Refused(c)
      PROVE  ReadCoversStore'
  BY <1>4, ReadUntouched DEF Refused, TypeOK
<1>5. ASSUME NEW c \in Clients, Read(c)
      PROVE  ReadCoversStore'
  <2>1. ASSUME NEW d \in Clients \ {c}
        PROVE  /\ pc'[d] = pc[d]
               /\ call'[d] = call[d]
               /\ local'[d] = local[d]
    BY <1>5 DEF Read, Proceed, TypeOK
  <2>2. pc'[c] = "write" => local'[c] = data[Key(c)]
    BY <1>5 DEF Read, Proceed, TypeOK
  <2>3. data' = data /\ Key(c)' = Key(c)
    BY <1>5 DEF Read, Key, This
  <2> QED
    BY <2>1, <2>2, <2>3 DEF ReadCoversStore, This, Key
<1>6. ASSUME NEW c \in Clients, Write(c)
      PROVE  ReadCoversStore'
  <2>1. pc'[c] # "write"
    BY <1>6 DEF Write, Proceed, AfterWrite, TypeOK
  <2>2. ASSUME NEW d \in Clients \ {c}, pc'[d] = "write"
        PROVE  pc[d] = "write" /\ data'[Key(d)] = data[Key(d)]
    <3>1. pc[d] = "write" /\ pc[c] = "write"
      BY <1>6, <2>2 DEF Write, Proceed, TypeOK
    <3>2. Key(d) # Key(c)
      BY <3>1, Exclusive
    <3>3. Key(d) \in Keys /\ Key(c) \in Keys
      BY <3>1, ThisCall
    <3> QED
      BY <1>6, <3>1, <3>2, <3>3 DEF Write, TypeOK
  <2>3. call' = call /\ local' = local
    BY <1>6 DEF Write
  <2> QED
    BY <2>1, <2>2, <2>3 DEF ReadCoversStore, This, Key
<1>7. ASSUME NEW c \in Clients, Expire(c)
      PROVE  ReadCoversStore'
  BY <1>7, ReadUntouched DEF Expire, Proceed, TypeOK
<1>8. ASSUME NEW c \in Clients, Publish(c)
      PROVE  ReadCoversStore'
  BY <1>8, ReadUntouched DEF Publish, Proceed, TypeOK
<1>9. ASSUME NEW k \in Keys, LeaseEnds(k)
      PROVE  ReadCoversStore'
  BY <1>9 DEF LeaseEnds, ReadCoversStore, This, Key
<1>10. ASSUME NEW k \in Keys, KeyExpires(k)
       PROVE  ReadCoversStore'
  <2>1. \A j \in Keys : data'[j] \subseteq data[j]
    BY <1>10 DEF KeyExpires, TypeOK
  <2>2. ASSUME NEW c \in Clients, pc[c] = "write"
        PROVE  data'[Key(c)] \subseteq data[Key(c)]
    BY <2>1, <2>2, ThisCall
  <2> QED
    BY <1>10, <2>2 DEF KeyExpires, ReadCoversStore, This, Key
<1>11. CASE UNCHANGED vars
  BY <1>11 DEF vars, ReadCoversStore, This, Key
<1> QED
  BY <1>1, <1>2, <1>3, <1>4, <1>5, <1>6, <1>7, <1>8, <1>9, <1>10, <1>11
     DEF Next, Step, AcquireFails, Release, Crash

\* The count of leases that ended under a client at work never falls.
LEMMA SlowGrows == TypeOK /\ [Next]_vars => slow' = slow \/ slow' # 0
<1> SUFFICES ASSUME TypeOK, [Next]_vars PROVE slow' = slow \/ slow' # 0
  OBVIOUS
<1>1. slow \in Nat
  BY ConstantsAssumption DEF ConstantsAssumption, TypeOK
<1>2. ASSUME NEW k \in Keys, LeaseEnds(k)
      PROVE  slow' = slow \/ slow' # 0
  BY <1>1, <1>2 DEF LeaseEnds
<1> QED
  BY <1>2 DEF Next, Step, Call, Acquire, AcquireFails, Read, Write, Expire,
     Publish,
              Release, Refused, Crash, KeyExpires, vars

\* As long as no lease ends under a client at work, what a client has read
\* still covers its key when it writes: set_portfolios, get_trades and
\* get_orders_and_delete lose nothing, whatever the number of clients, and
\* whichever commands fail or clients crash.
THEOREM NothingLostUnderTheLock ==
  Spec => [](slow = 0 => ReadCoversStore)
<1>1. TypeInv /\ [Next]_vars => TypeInv'
  BY TypeStep, InCourseStep DEF TypeInv
<1>2. TypeInv /\ LockInv /\ [Next]_vars => LockInv'
  BY OwnsLockStep, ReadCoversStep, SlowGrows DEF LockInv, TypeInv
<1>3. LockInv => (slow = 0 => ReadCoversStore)
  BY DEF LockInv
<1> QED
  BY InitTypeInv, InitLockInv, <1>1, <1>2, <1>3, PTL DEF Spec

\* The docstring of set_portfolios, "it must accumulate symbols", holds for
\* every number of clients, calls and failures if a lease always outlasts the
\* call it protects.
THEOREM PortfoliosAccumulate ==
  ASSUME MaxSlow = 0, "set_portfolios" \in Methods
  PROVE  Spec => SnapshotAccumulates
<1>1. TypeInv /\ [Next]_vars => TypeInv'
  BY TypeStep, InCourseStep DEF TypeInv
<1>2. TypeInv /\ LockInv /\ [Next]_vars => LockInv'
  BY OwnsLockStep, ReadCoversStep, SlowGrows DEF LockInv, TypeInv
<1>3. TypeInv /\ LockInv /\ [Next]_vars => [LosesSymbol => KeyExpires(Portfolios)]_data
  <2> SUFFICES ASSUME TypeInv, LockInv, [Next]_vars, data' # data, LosesSymbol
               PROVE  KeyExpires(Portfolios)
    OBVIOUS
  <2>1. Portfolios \in Keys
    BY DEF Keys, Method, M, Portfolios
  <2>2. TypeOK /\ ReadCoversStore
    BY DEF TypeInv, TypeOK, LockInv
  <2>3. PICK i \in data[Portfolios] : \A n \in data'[Portfolios] : n.field # i.field
    BY DEF LosesSymbol
  <2>4. ASSUME NEW c \in Clients, Write(c)
        PROVE  FALSE
    <3>1. pc[c] = "write" /\ call[c] \in DOMAIN Method /\ Key(c) \in Keys
      BY <2>2, <2>4, ThisCall DEF Write
    <3>2. data'[Portfolios] = IF Key(c) = Portfolios THEN Written(c) ELSE data[Portfolios]
      BY <2>1, <2>2, <2>4, <3>1 DEF Write, TypeOK
    <3>3. CASE Key(c) # Portfolios
      BY <2>3, <3>2, <3>3
    <3>4. CASE Key(c) = Portfolios
      <4>1. This(c).reads /\ This(c).write = "setMerged"
        BY <3>1, <3>4, OnePortfoliosMethod DEF Key, This
      <4>2. Written(c) = Merge(local[c], arg[c])
        BY <4>1 DEF Written
      <4>3. i \in local[c]
        BY <2>2, <2>3, <3>1, <3>4, <4>1 DEF ReadCoversStore
      <4>4. \E n \in Merge(local[c], arg[c]) : n.field = i.field
        BY <4>3 DEF Merge
      <4> QED
        BY <2>3, <3>2, <3>4, <4>2, <4>4
    <3> QED
      BY <3>3, <3>4
  <2>5. ASSUME NEW k \in Keys, KeyExpires(k)
        PROVE  k = Portfolios
    BY <2>1, <2>2, <2>3, <2>5 DEF KeyExpires, TypeOK
  <2> QED
    BY <2>4, <2>5 DEF Next, Step, Call, Acquire, AcquireFails, Read, Expire,
       Publish,
                      Release, Refused, Crash, LeaseEnds, vars
<1> QED
  BY InitTypeInv, InitLockInv, <1>1, <1>2, <1>3, PTL DEF Spec,
     SnapshotAccumulates

-----------------------------------------------------------------------------
\* What is handed out.  Only the orders and the trades are added to and taken
\* away; an item that was added is in one place at a time: still with its
\* sender, in the store, with the client that is taking it, or taken.
Pools == {"orders", "trades"}

LEMMA PoolMethods ==
  ASSUME NEW m \in DOMAIN Method
  PROVE  /\ Method[m].key \in Pools =>
              \/ Method[m].write = "add"
              \/ Method[m].reads /\ Method[m].write \in {"delete", "remove"}
         /\ Method[m].reads /\ Method[m].write \in {"delete", "remove"} =>
              Method[m].key \in Pools
         /\ Method[m].write = "add" => Method[m].key \in Pools
<1>1. Method[m].key \in Pools =>
        \/ Method[m].write = "add"
        \/ Method[m].reads /\ Method[m].write \in {"delete", "remove"}
  BY SMTT(30) DEF Method, M, Pools
<1>2. Method[m].reads /\ Method[m].write \in {"delete", "remove"} =>
        Method[m].key \in Pools
  BY SMTT(30) DEF Method, M, Pools
<1>3. Method[m].write = "add" => Method[m].key \in Pools
  BY SMTT(30) DEF Method, M, Pools
<1> QED
  BY <1>1, <1>2, <1>3

\* The item is still with its sender.
Adding(c) ==
  pc[c] \in {"acquire", "read", "write"} /\ This(c).write = "add"

\* The client has read what its caller will be given if nothing fails.
Holding(c) ==
  /\ pc[c] \in {"write", "expire", "publish", "release"}
  /\ Takes(c) /\ ~failed[c]

Stored ==
  \A k \in Keys :
    IF k \in Pools
    THEN data[k] \cup taken[k] \subseteq sent[k] /\ data[k] \cap taken[k] = {}
    ELSE taken[k] = {}

Unstored ==
  \A c \in Clients : Adding(c) =>
    /\ arg[c] \subseteq sent[Key(c)]
    /\ arg[c] \cap data[Key(c)] = {}
    /\ arg[c] \cap taken[Key(c)] = {}

Apart ==
  \A c, d \in Clients :
    Adding(c) /\ Adding(d) /\ c # d /\ Key(c) = Key(d) => arg[c] \cap arg[d] = {}

Held ==
  \A c \in Clients : Holding(c) =>
    /\ local[c] \subseteq sent[Key(c)]
    /\ local[c] \cap taken[Key(c)] = {}
    /\ pc[c] # "write" => local[c] \cap data[Key(c)] = {}

Unheld ==
  \A c, d \in Clients :
    Adding(c) /\ Holding(d) /\ Key(c) = Key(d) => arg[c] \cap local[d] = {}

OnePlace == Stored /\ Unstored /\ Apart /\ Held /\ Unheld

\* A step that stores nothing, hands nothing out and lets no client add or
\* hold what it did not before.
LEMMA PlacesUntouched ==
  ASSUME TypeOK, OnePlace, taken' = taken, sent' = sent,
         \A k \in Keys : data'[k] \subseteq data[k],
         \A c \in Clients : Adding(c)' =>
           Adding(c) /\ Key(c)' = Key(c) /\ arg'[c] = arg[c],
         \A c \in Clients : Holding(c)' =>
           /\ Holding(c) /\ Key(c)' = Key(c) /\ local'[c] = local[c]
           /\ pc'[c] # "write" => pc[c] # "write"
  PROVE  OnePlace'
<1>1. \A c \in Clients : Adding(c) \/ Holding(c) => Key(c) \in Keys
  BY ThisCall DEF Adding, Holding
<1>2. Stored'
  BY DEF OnePlace, Stored
<1>3. Unstored'
  BY <1>1 DEF OnePlace, Unstored
<1>4. Apart'
  BY DEF OnePlace, Apart
<1>5. Held'
  BY <1>1 DEF OnePlace, Held
<1>6. Unheld'
  BY DEF OnePlace, Unheld
<1> QED
  BY <1>2, <1>3, <1>4, <1>5, <1>6 DEF OnePlace

\* A step of one client that is not the write, the read or the release.
LEMMA ClientAside ==
  ASSUME TypeOK, OnePlace, data' = data, taken' = taken, sent' = sent,
         NEW c \in Clients,
         \A d \in Clients \ {c} :
           /\ pc'[d] = pc[d] /\ call'[d] = call[d] /\ failed'[d] = failed[d]
           /\ arg'[d] = arg[d] /\ local'[d] = local[d],
         Adding(c)' => Adding(c) /\ call'[c] = call[c] /\ arg'[c] = arg[c],
         Holding(c)' => /\ Holding(c) /\ call'[c] = call[c]
                        /\ local'[c] = local[c] /\ pc[c] # "write"
  PROVE  OnePlace'
<1>1. ASSUME NEW d \in Clients, Adding(d)'
      PROVE  Adding(d) /\ Key(d)' = Key(d) /\ arg'[d] = arg[d]
  BY <1>1 DEF Adding, Key, This
<1>2. ASSUME NEW d \in Clients, Holding(d)'
      PROVE  /\ Holding(d) /\ Key(d)' = Key(d) /\ local'[d] = local[d]
             /\ pc'[d] # "write" => pc[d] # "write"
  BY <1>2 DEF Holding, Takes, Key, This
<1> QED
  BY <1>1, <1>2, PlacesUntouched

\* What a call sends is new, so it is nowhere yet.
LEMMA CallPlaces ==
  ASSUME TypeOK, OnePlace, NEW c \in Clients, NEW m \in Methods,
         NEW a \in Values(m), Call(c, m, a)
  PROVE  OnePlace'
<1> DEFINE k == Method[m].key
<1>1. m \in DOMAIN Method /\ k \in Keys /\ a \in SUBSET Items
  BY ConstantsAssumption DEF ConstantsAssumption, Keys, Values
<1>2. ~Holding(c)' /\ Key(c)' = k /\ arg'[c] = a
  BY DEF Call, Holding, TypeOK, Key, This
<1>3. Adding(c)' => /\ a \cap sent[k] = {}
                    /\ a \subseteq sent'[k]
  BY <1>1 DEF Call, Adding, TypeOK, This
<1>4. \A j \in Keys : sent[j] \subseteq sent'[j]
  BY <1>1 DEF Call, TypeOK
<1>5. ASSUME NEW d \in Clients \ {c}
      PROVE  /\ Adding(d)' = Adding(d) /\ Holding(d)' = Holding(d)
             /\ Key(d)' = Key(d) /\ pc'[d] = pc[d]
             /\ arg'[d] = arg[d] /\ local'[d] = local[d]
  BY DEF Call, TypeOK, Adding, Holding, Takes, Key, This
<1>6. \A d \in Clients : Adding(d) \/ Holding(d) => Key(d) \in Keys
  BY ThisCall DEF Adding, Holding
<1>7. data' = data /\ taken' = taken
  BY DEF Call
<1>8. Adding(c)' => a \cap data[k] = {} /\ a \cap taken[k] = {}
  <2> SUFFICES ASSUME Adding(c)' PROVE a \cap data[k] = {} /\ a \cap taken[k] = {}
    OBVIOUS
  <2>1. Method[m].write = "add"
    BY DEF Call, Adding, TypeOK, This
  <2>2. k \in Pools
    BY <1>1, <2>1, PoolMethods
  <2> QED
    BY <1>1, <1>3, <2>2 DEF OnePlace, Stored
<1>9. Stored'
  BY <1>4, <1>7 DEF OnePlace, Stored
<1>10. Unstored'
  BY <1>2, <1>3, <1>4, <1>5, <1>6, <1>7, <1>8 DEF OnePlace, Unstored
<1>11. Apart'
  BY <1>2, <1>3, <1>5, <1>6 DEF OnePlace, Apart, Unstored
<1>12. Held'
  BY <1>2, <1>4, <1>5, <1>6, <1>7 DEF OnePlace, Held
<1>13. Unheld'
  BY <1>2, <1>3, <1>5, <1>6 DEF OnePlace, Unheld, Held
<1> QED
  BY <1>9, <1>10, <1>11, <1>12, <1>13 DEF OnePlace

\* What is read is in the store: it was not taken and its senders are done.
LEMMA ReadPlaces ==
  ASSUME TypeOK, OnePlace, NEW c \in Clients, Read(c)
  PROVE  OnePlace'
<1> DEFINE k == Key(c)
<1>1. call[c] \in DOMAIN Method /\ k \in Keys
  BY ThisCall DEF Read
<1>2. data' = data /\ taken' = taken /\ sent' = sent
  BY DEF Read
<1>3. \A d \in Clients : Key(d)' = Key(d) /\ arg'[d] = arg[d]
  BY DEF Read, Key, This
<1>4. ASSUME NEW d \in Clients
      PROVE  Adding(d)' => Adding(d)
  BY DEF Read, Proceed, TypeOK, Adding, This
<1>5. ASSUME NEW d \in Clients \ {c}
      PROVE  /\ Holding(d)' = Holding(d) /\ pc'[d] = pc[d]
             /\ local'[d] = local[d]
  BY DEF Read, Proceed, TypeOK, Holding, Takes, This
<1>6. Holding(c)' => k \in Pools
  BY <1>1, PoolMethods DEF Holding, Takes, Read, Key, This
<1>7. Holding(c)' => local'[c] = data[k]
  BY DEF Holding, Read, TypeOK
<1>8. Holding(c)' /\ pc'[c] # "write" => data[k] = {}
  <2> SUFFICES ASSUME Holding(c)', pc'[c] # "write" PROVE data[k] = {}
    OBVIOUS
  <2>1. ~failed'[c] /\ This(c).write \in {"delete", "remove"}
    BY DEF Holding, Takes, Read, This
  <2>2. pc' = [pc EXCEPT ![c] = IF NothingToWrite(c) THEN "release" ELSE "write"]
    BY <2>1 DEF Read, Proceed, TypeOK
  <2>3. NothingToWrite(c)
    BY <2>2 DEF TypeOK
  <2> QED
    BY <2>1, <2>3 DEF NothingToWrite
<1>9. \A d \in Clients : Adding(d) \/ Holding(d) => Key(d) \in Keys
  BY ThisCall DEF Adding, Holding
<1>10. Stored'
  BY <1>2 DEF OnePlace, Stored
<1>11. Unstored'
  BY <1>2, <1>3, <1>4 DEF OnePlace, Unstored
<1>12. Apart'
  BY <1>3, <1>4 DEF OnePlace, Apart
<1>13. Held'
  BY <1>1, <1>2, <1>3, <1>5, <1>6, <1>7, <1>8 DEF OnePlace, Held, Stored
<1>14. Unheld'
  BY <1>3, <1>4, <1>5, <1>7 DEF OnePlace, Unheld, Unstored
<1> QED
  BY <1>10, <1>11, <1>12, <1>13, <1>14 DEF OnePlace

\* A write stores what its client was adding or removes what it holds; under
\* the lock nobody else holds anything of the key.
LEMMA WritePlaces ==
  ASSUME TypeInv, OwnsLock, OnePlace, NEW c \in Clients, Write(c)
  PROVE  OnePlace'
<1> DEFINE k == Key(c)
<1>a. TypeOK
  BY DEF TypeInv
<1>1. call[c] \in DOMAIN Method /\ k \in Keys
  BY <1>a, ThisCall DEF Write
<1>2. taken' = taken /\ sent' = sent
  BY DEF Write
<1>3. /\ data'[k] = Written(c)
      /\ \A j \in Keys : j # k => data'[j] = data[j]
  BY <1>a, <1>1 DEF Write, TypeOK
<1>4. \A d \in Clients : Key(d)' = Key(d) /\ arg'[d] = arg[d] /\ local'[d] = local[d]
  BY DEF Write, Key, This
<1>5. ASSUME NEW d \in Clients \ {c}
      PROVE  /\ Adding(d)' = Adding(d) /\ Holding(d)' = Holding(d)
             /\ pc'[d] = pc[d]
  BY <1>a DEF Write, Proceed, TypeOK, Adding, Holding, Takes, This
<1>6. ~Adding(c)' /\ (Holding(c)' => Holding(c))
  BY <1>a DEF Write, Proceed, AfterWrite, TypeOK, Adding, Holding, Takes, This
<1>7. \A d \in Clients \ {c} : Holding(d) => Key(d) # k
  BY <1>a, Exclusive DEF Holding, Write
<1>8. \A d \in Clients : Adding(d) \/ Holding(d) => Key(d) \in Keys
  BY <1>a, ThisCall DEF Adding, Holding
<1>9. ASSUME k \in Pools
      PROVE  \/ Adding(c) /\ ~Takes(c) /\ data'[k] = data[k] \cup arg[c]
             \/ /\ data'[k] \subseteq data[k]
                /\ data'[k] \cap local[c] = {}
  <2>1. CASE This(c).write = "add"
    BY <1>3, <2>1 DEF Written, Adding, Takes, Write
  <2>2. CASE This(c).write = "delete"
    BY <1>3, <2>2 DEF Written
  <2>3. CASE This(c).write = "remove"
    BY <1>3, <2>3 DEF Written
  <2> QED
    BY <1>1, <1>9, <2>1, <2>2, <2>3, PoolMethods DEF Key, This
<1>10. \A d \in Clients : Adding(d) \/ Holding(d) => Key(d) \in Pools
  <2> SUFFICES ASSUME NEW d \in Clients, Adding(d) \/ Holding(d)
               PROVE  Key(d) \in Pools
    OBVIOUS
  <2>1. call[d] \in DOMAIN Method
    BY <1>a, ThisCall DEF Adding, Holding
  <2> QED
    BY <2>1, PoolMethods DEF Adding, Holding, Takes, Key, This
<1>11. Stored'
  BY <1>1, <1>2, <1>3, <1>9 DEF OnePlace, Stored, Unstored
<1>12. ASSUME NEW d \in Clients, Adding(d)'
       PROVE  arg[d] \cap data'[Key(d)] = {}
  <2>1. d # c /\ Adding(d)
    BY <1>5, <1>6, <1>12
  <2> QED
    BY <1>3, <1>8, <1>9, <1>10, <2>1 DEF OnePlace, Unstored, Apart
<1>13. Unstored'
  BY <1>2, <1>4, <1>5, <1>6, <1>12 DEF OnePlace, Unstored
<1>14. Apart'
  BY <1>4, <1>5, <1>6 DEF OnePlace, Apart
<1>15. ASSUME NEW d \in Clients, Holding(d)', pc'[d] # "write"
       PROVE  local[d] \cap data'[Key(d)] = {}
  <2>1. CASE d = c
    BY <1>6, <1>9, <1>10, <1>15, <2>1 DEF Holding
  <2>2. CASE d # c
    BY <1>3, <1>5, <1>7, <1>8, <1>15, <2>2 DEF OnePlace, Held
  <2> QED
    BY <2>1, <2>2
<1>16. Held'
  BY <1>2, <1>4, <1>5, <1>6, <1>15 DEF OnePlace, Held
<1>17. Unheld'
  BY <1>4, <1>5, <1>6 DEF OnePlace, Unheld
<1> QED
  BY <1>11, <1>13, <1>14, <1>16, <1>17 DEF OnePlace

\* A release hands out what its client holds, which is nowhere else by then.
LEMMA ReleasePlaces ==
  ASSUME TypeOK, OwnsLock, OnePlace, NEW c \in Clients, Release(c)
  PROVE  OnePlace'
<1> DEFINE k == Key(c)
<1>1. call[c] \in DOMAIN Method /\ k \in Keys
  BY ThisCall DEF Release
<1>2. ~Adding(c)' /\ ~Holding(c)'
  BY DEF Release, Forget, TypeOK, Adding, Holding
<1>3. ASSUME NEW d \in Clients \ {c}
      PROVE  /\ Adding(d)' = Adding(d) /\ Holding(d)' = Holding(d)
             /\ Key(d)' = Key(d) /\ pc'[d] = pc[d]
             /\ arg'[d] = arg[d] /\ local'[d] = local[d]
  BY DEF Release, Forget, TypeOK, Adding, Holding, Takes, Key, This
<1>4. data' = data /\ sent' = sent
  BY DEF Release
<1>5. CASE taken' = taken
  BY <1>2, <1>3, <1>4, <1>5, PlacesUntouched
<1>6. CASE taken' # taken
  <2>1. /\ Holding(c) /\ pc[c] # "write"
        /\ taken' = [taken EXCEPT ![k] = @ \cup local[c]]
    BY <1>6 DEF Release, Holding, TypeOK
  <2>2. /\ taken'[k] = taken[k] \cup local[c]
        /\ \A j \in Keys : j # k => taken'[j] = taken[j]
    BY <1>1, <2>1 DEF TypeOK
  <2>3. k \in Pools
    BY <1>1, <2>1, PoolMethods DEF Holding, Takes, Key, This
  <2>4. \A d \in Clients \ {c} : Holding(d) => Key(d) # k
    BY <2>1, Exclusive DEF Holding
  <2>5. \A d \in Clients : Adding(d) \/ Holding(d) => Key(d) \in Keys
    BY ThisCall DEF Adding, Holding
  <2>6. Stored'
    BY <1>1, <1>4, <2>1, <2>2, <2>3 DEF OnePlace, Stored, Held
  <2>7. Unstored'
    BY <1>2, <1>3, <1>4, <2>1, <2>2, <2>5 DEF OnePlace, Unstored, Unheld
  <2>8. Apart'
    BY <1>2, <1>3 DEF OnePlace, Apart
  <2>9. Held'
    BY <1>2, <1>3, <1>4, <2>2, <2>4, <2>5 DEF OnePlace, Held
  <2>10. Unheld'
    BY <1>2, <1>3 DEF OnePlace, Unheld
  <2> QED
    BY <2>6, <2>7, <2>8, <2>9, <2>10 DEF OnePlace
<1> QED
  BY <1>5, <1>6

LEMMA OnePlaceStep ==
  TypeInv /\ OwnsLock /\ OnePlace /\ [Next]_vars => OnePlace'
<1> SUFFICES ASSUME TypeInv, OwnsLock, OnePlace, [Next]_vars
             PROVE  OnePlace'
  OBVIOUS
<1> TypeOK
  BY DEF TypeInv
<1> USE DEF callVars
<1>1. ASSUME NEW c \in Clients, Acquire(c)
      PROVE  OnePlace'
  BY <1>1, ClientAside DEF Acquire, TypeOK, Adding, Holding, Takes, This
<1>2. ASSUME NEW c \in Clients, AcquireFails(c) \/ Crash(c)
      PROVE  OnePlace'
  BY <1>2, ClientAside DEF AcquireFails, Crash, Forget, TypeOK, Adding, Holding
<1>3. ASSUME NEW c \in Clients, Refused(c)
      PROVE  OnePlace'
  BY <1>3, ClientAside DEF Refused, TypeOK, Adding, Holding
<1>4. ASSUME NEW c \in Clients, Expire(c) \/ Publish(c)
      PROVE  OnePlace'
  BY <1>4, ClientAside DEF Expire, Publish, Proceed, TypeOK, Adding, Holding,
     Takes, This
<1>5. ASSUME NEW k \in Keys, LeaseEnds(k) \/ KeyExpires(k)
      PROVE  OnePlace'
  <2>1. /\ taken' = taken /\ sent' = sent /\ pc' = pc /\ call' = call
        /\ arg' = arg /\ local' = local /\ failed' = failed
    BY <1>5 DEF LeaseEnds, KeyExpires
  <2>2. \A j \in Keys : data'[j] \subseteq data[j]
    BY <1>5 DEF LeaseEnds, KeyExpires, TypeOK
  <2> QED
    BY <2>1, <2>2, PlacesUntouched DEF Adding, Holding, Takes, Key, This
<1>6. CASE UNCHANGED vars
  BY <1>6, PlacesUntouched DEF vars, Adding, Holding, Takes, Key, This
<1> QED
  BY <1>1, <1>2, <1>3, <1>4, <1>5, <1>6, CallPlaces, ReadPlaces, WritePlaces,
     ReleasePlaces DEF Next, Step

\* As long as no lease ends under a client at work, an order or a trade is
\* given to one caller of get_orders_and_delete or get_trades only and is then
\* out of Redis, whichever commands fail or clients crash on the way.
THEOREM HandedOutOnce ==
  Spec => [](slow = 0 => AtMostOnce)
<1> DEFINE Inv == TypeInv /\ (slow = 0 => OwnsLock /\ OnePlace)
<1>1. Init => Inv
  BY InitTypeInv DEF Init, OwnsLock, OnePlace, Stored, Unstored, Apart, Held,
     Unheld, Adding, Holding
<1>2. Inv /\ [Next]_vars => Inv'
  BY TypeStep, InCourseStep, OwnsLockStep, OnePlaceStep, SlowGrows DEF TypeInv
<1>3. Inv => (slow = 0 => AtMostOnce)
  <2> SUFFICES ASSUME TypeInv, OnePlace PROVE AtMostOnce
    OBVIOUS
  <2>1. \A k \in Keys : taken[k] \cap data[k] = {}
    BY DEF OnePlace, Stored
  <2>2. ASSUME NEW c \in Clients, pc[c] = "release", Takes(c), ~failed[c]
        PROVE  local[c] \cap taken[Key(c)] = {}
    BY <2>2 DEF OnePlace, Held, Holding
  <2> QED
    BY <2>1, <2>2 DEF AtMostOnce
<1> QED
  BY <1>1, <1>2, <1>3, PTL DEF Spec

-----------------------------------------------------------------------------
\* What subscribers hold.  The only commands on a key that is announced, but
\* for those of the methods that announce it, read it or take away from it.
Channels == {"trades", "inventory", "inventory_close", "non_compliant",
             "depth_order", "portfolios"}

LEMMA ChannelMethods ==
  ASSUME NEW m \in DOMAIN Method
  PROVE  /\ Method[m].publishes => Method[m].key \in Channels
         /\ Method[m].key \in Channels =>
              \/ Method[m].publishes
              \/ /\ Method[m].write \in {"none", "delete", "remove"}
                 /\ ~Method[m].expires
         /\ Method[m].write = "setMerged" => Method[m].reads
<1>1. Method[m].publishes => Method[m].key \in Channels
  BY SMTT(30) DEF Method, M, Channels
<1>2. Method[m].key \in Channels =>
        \/ Method[m].publishes
        \/ /\ Method[m].write \in {"none", "delete", "remove"}
           /\ ~Method[m].expires
  BY SMTT(30) DEF Method, M, Channels
<1>3. Method[m].write = "setMerged" => Method[m].reads
  BY SMTT(30) DEF Method, M
<1> QED
  BY <1>1, <1>2, <1>3

\* What a subscriber will hold once the client has published.
Applied(c) ==
  CASE This(c).write = "setMerged" -> Merge(heard[Key(c)], arg[c])
    [] This(c).write = "add" -> heard[Key(c)] \cup arg[c]
    [] This(c).write = "set" -> arg[c]

\* The client has stored what it has still to publish.
Announcing(c) == pc[c] \in {"expire", "publish"} /\ Key(c) \in Channels

Mirrored ==
  \A k \in Keys \cap Channels :
    \/ data[k] \subseteq heard[k]
    \/ \E c \in Clients : Announcing(c) /\ Key(c) = k

Announces ==
  \A c \in Clients :
    Announcing(c) => This(c).publishes /\ data[Key(c)] \subseteq Applied(c)

Snapshots ==
  \A c \in Clients :
    pc[c] = "write" /\ This(c).write = "setMerged" /\ Key(c) \in Channels =>
      local[c] \subseteq heard[Key(c)]

MirrorInv == Mirrored /\ Announces /\ Snapshots

\* A step that stores and publishes nothing and takes no client to or from the
\* commands in question.
LEMMA MirrorUntouched ==
  ASSUME TypeOK, MirrorInv, heard' = heard,
         \A k \in Keys : data'[k] \subseteq data[k],
         \A c \in Clients :
           /\ Announcing(c)' = Announcing(c)
           /\ Announcing(c) => call'[c] = call[c] /\ arg'[c] = arg[c]
           /\ pc'[c] = "write" /\ This(c)'.write = "setMerged" =>
                pc[c] = "write" /\ call'[c] = call[c] /\ local'[c] = local[c]
  PROVE  MirrorInv'
<1>1. \A c \in Clients : Announcing(c) => Key(c) \in Keys
  BY ThisCall DEF Announcing
<1>2. ASSUME NEW c \in Clients, Announcing(c)
      PROVE  /\ This(c)' = This(c) /\ Key(c)' = Key(c)
             /\ Applied(c)' = Applied(c)
  BY <1>2 DEF This, Key, Applied
<1>3. Mirrored'
  BY <1>2 DEF MirrorInv, Mirrored
<1>4. Announces'
  BY <1>1, <1>2 DEF MirrorInv, Announces
<1>5. Snapshots'
  BY DEF MirrorInv, Snapshots, This, Key
<1> QED
  BY <1>3, <1>4, <1>5 DEF MirrorInv

\* Under the lock nobody else is about to announce the key of a client at work.
LEMMA AloneInKey ==
  ASSUME TypeOK, OwnsLock, Mirrored, NEW c \in Clients,
         pc[c] \in {"read", "write"}, Key(c) \in Channels
  PROVE  data[Key(c)] \subseteq heard[Key(c)]
<1>1. Key(c) \in Keys
  BY ThisCall
<1>2. \A d \in Clients : Announcing(d) => Key(d) # Key(c)
  BY Exclusive DEF Announcing
<1> QED
  BY <1>1, <1>2 DEF Mirrored

LEMMA ReadMirror ==
  ASSUME TypeOK, OwnsLock, MirrorInv, NEW c \in Clients, Read(c)
  PROVE  MirrorInv'
<1>1. UNCHANGED <<data, heard, call, arg>>
  BY DEF Read
<1>2. \A d \in Clients : /\ This(d)' = This(d) /\ Key(d)' = Key(d)
                         /\ Applied(d)' = Applied(d)
  BY <1>1 DEF This, Key, Applied
<1>3. \A d \in Clients : Announcing(d)' = Announcing(d)
  BY <1>2 DEF Read, Proceed, TypeOK, Announcing
<1>4. Mirrored' /\ Announces'
  BY <1>1, <1>2, <1>3 DEF MirrorInv, Mirrored, Announces
<1>5. ASSUME NEW d \in Clients, pc'[d] = "write", This(d).write = "setMerged",
             Key(d) \in Channels
      PROVE  local'[d] \subseteq heard[Key(d)]
  <2>1. CASE d = c
    <3>1. local'[c] = data[Key(c)]
      BY <1>5, <2>1 DEF Read, TypeOK
    <3> QED
      BY <1>5, <2>1, <3>1, AloneInKey DEF Read, MirrorInv
  <2>2. CASE d # c
    <3>1. pc[d] = "write" /\ local'[d] = local[d]
      BY <1>5, <2>2 DEF Read, Proceed, TypeOK
    <3> QED
      BY <1>5, <3>1 DEF MirrorInv, Snapshots
  <2> QED
    BY <2>1, <2>2
<1>6. Snapshots'
  BY <1>1, <1>2, <1>5 DEF Snapshots
<1> QED
  BY <1>4, <1>6 DEF MirrorInv

\* What a client has stored, subscribers will hold once it has published: the
\* snapshot it merged into was what they held.
LEMMA WriteMirror ==
  ASSUME TypeInv, OwnsLock, MirrorInv, NEW c \in Clients, Write(c),
         faults' = faults
  PROVE  MirrorInv'
<1> DEFINE k == Key(c)
<1>a. TypeOK /\ InCourse
  BY DEF TypeInv
<1>1. call[c] \in DOMAIN Method /\ k \in Keys /\ pc[c] = "write"
  BY <1>a, ThisCall DEF Write
<1>2. UNCHANGED <<heard, call, arg, local>>
  BY DEF Write
<1>3. \A d \in Clients : /\ This(d)' = This(d) /\ Key(d)' = Key(d)
                         /\ Applied(d)' = Applied(d)
  BY <1>2 DEF This, Key, Applied
<1>4. /\ data'[k] = Written(c)
      /\ \A j \in Keys : j # k => data'[j] = data[j]
  BY <1>a, <1>1 DEF Write, TypeOK
<1>5. \A d \in Clients \ {c} : Announcing(d)' = Announcing(d) /\ pc'[d] = pc[d]
  BY <1>a, <1>3 DEF Write, Proceed, TypeOK, Announcing
<1>6. pc'[c] # "write"
  BY <1>a DEF Write, Proceed, AfterWrite, TypeOK
<1>7. Snapshots'
  BY <1>2, <1>3, <1>5, <1>6 DEF MirrorInv, Snapshots
<1>8. \A d \in Clients \ {c} : Announcing(d) => Key(d) # k /\ Key(d) \in Keys
  BY <1>a, <1>1, Exclusive, ThisCall DEF Announcing
<1>9. CASE k \notin Channels
  <2>1. ~Announcing(c) /\ ~Announcing(c)'
    BY <1>3, <1>9 DEF Announcing
  <2> QED
    BY <1>2, <1>3, <1>4, <1>5, <1>7, <1>8, <1>9, <2>1
       DEF MirrorInv, Mirrored, Announces
<1>10. CASE k \in Channels
  <2>1. data[k] \subseteq heard[k]
    BY <1>a, <1>1, <1>10, AloneInKey DEF MirrorInv
  <2>2. CASE This(c).publishes
    <3>1. This(c).write \in {"set", "setMerged", "add"}
      BY <1>1, <2>2, MethodFields DEF This
    <3>2. This(c).write = "setMerged" => local[c] \subseteq heard[k]
      BY <1>1, <1>10 DEF MirrorInv, Snapshots
    <3>3. data'[k] \subseteq Applied(c)
      <4>1. CASE This(c).write = "set"
        BY <1>4, <4>1 DEF Written, Applied
      <4>2. CASE This(c).write = "add"
        BY <1>4, <2>1, <4>2 DEF Written, Applied
      <4>3. CASE This(c).write = "setMerged"
        <5>1. Written(c) = Merge(local[c], arg[c])
          BY <4>3 DEF Written
        <5>2. Applied(c) = Merge(heard[k], arg[c])
          BY <4>3 DEF Applied
        <5> QED
          BY <1>4, <3>2, <4>3, <5>1, <5>2 DEF Merge
      <4> QED
        BY <3>1, <4>1, <4>2, <4>3
    <3>4. Announcing(c)'
      BY <1>a, <1>3, <1>10, <2>2 DEF Write, Proceed, AfterWrite, TypeOK, Announcing
    <3>5. Mirrored'
      BY <1>2, <1>3, <1>4, <1>5, <1>8, <3>4 DEF MirrorInv, Mirrored
    <3>6. Announces'
      BY <1>3, <1>4, <1>5, <1>8, <2>2, <3>3 DEF MirrorInv, Announces
    <3> QED
      BY <1>7, <3>5, <3>6 DEF MirrorInv
  <2>3. CASE ~This(c).publishes
    <3>1. This(c).write \in {"delete", "remove"} /\ ~This(c).expires
      BY <1>a, <1>1, <1>10, <2>3, ChannelMethods DEF InCourse, This, Key
    <3>2. data'[k] \subseteq data[k]
      BY <1>4, <3>1 DEF Written
    <3>3. ~Announcing(c)'
      BY <1>a, <2>3, <3>1 DEF Write, Proceed, AfterWrite, TypeOK, Announcing
    <3>4. Mirrored'
      BY <1>2, <1>3, <1>4, <1>5, <1>8, <2>1, <3>2, <3>3, <1>1
         DEF MirrorInv, Mirrored, Announcing
    <3>5. Announces'
      BY <1>3, <1>4, <1>5, <1>8, <3>3 DEF MirrorInv, Announces
    <3> QED
      BY <1>7, <3>4, <3>5 DEF MirrorInv
  <2> QED
    BY <2>2, <2>3
<1> QED
  BY <1>9, <1>10

\* Publishing brings subscribers up to what is stored.
LEMMA PublishMirror ==
  ASSUME TypeInv, OwnsLock, MirrorInv, NEW c \in Clients, Publish(c)
  PROVE  MirrorInv'
<1> DEFINE k == Key(c)
<1>a. TypeOK /\ InCourse
  BY DEF TypeInv
<1>1. call[c] \in DOMAIN Method /\ k \in Keys /\ pc[c] = "publish"
  BY <1>a, ThisCall DEF Publish
<1>2. UNCHANGED <<data, call, arg, local>>
  BY DEF Publish
<1>3. \A d \in Clients : This(d)' = This(d) /\ Key(d)' = Key(d)
  BY <1>2 DEF This, Key
<1>4. This(c).write \in {"set", "setMerged", "add"} /\ k \in Channels
  BY <1>a, <1>1, MethodFields, ChannelMethods DEF InCourse, This, Key
<1>5. heard'[k] = Applied(c)
  <2>1. heard'[k] = CASE This(c).write = "setMerged" -> Merge(heard[k], arg[c])
                      [] This(c).write = "add" -> heard[k] \cup arg[c]
                      [] This(c).write = "set" -> arg[c]
    BY <1>a, <1>1 DEF Publish, TypeOK
  <2> QED
    BY <2>1 DEF Applied
<1>6. \A j \in Keys : j # k => heard'[j] = heard[j]
  BY <1>a DEF Publish, TypeOK
<1>7. \A d \in Clients \ {c} : Announcing(d)' = Announcing(d) /\ pc'[d] = pc[d]
  BY <1>a, <1>3 DEF Publish, Proceed, TypeOK, Announcing
<1>8. pc'[c] \notin {"write", "expire", "publish"}
  BY <1>a DEF Publish, Proceed, TypeOK
<1>9. \A d \in Clients \ {c} : Announcing(d) \/ pc[d] = "write" =>
        Key(d) # k /\ Key(d) \in Keys
  BY <1>a, <1>1, Exclusive, ThisCall DEF Announcing
<1>10. data[k] \subseteq Applied(c)
  BY <1>1, <1>4 DEF MirrorInv, Announces, Announcing
<1>11. Mirrored'
  BY <1>2, <1>3, <1>5, <1>6, <1>7, <1>10 DEF MirrorInv, Mirrored
<1>12. Announces'
  <2> SUFFICES ASSUME NEW d \in Clients, Announcing(d)'
               PROVE  This(d)'.publishes /\ data'[Key(d)'] \subseteq Applied(d)'
    BY DEF Announces
  <2>1. d # c /\ Announcing(d) /\ Key(d) # k /\ Key(d) \in Keys
    BY <1>7, <1>8, <1>9 DEF Announcing
  <2>2. Applied(d)' = Applied(d)
    BY <1>2, <1>3, <1>6, <2>1 DEF Applied
  <2> QED
    BY <1>2, <1>3, <2>1, <2>2 DEF MirrorInv, Announces
<1>13. Snapshots'
  BY <1>2, <1>3, <1>6, <1>7, <1>8, <1>9 DEF MirrorInv, Snapshots
<1> QED
  BY <1>11, <1>12, <1>13 DEF MirrorInv

LEMMA MirrorStep ==
  ASSUME TypeInv, OwnsLock, MirrorInv, [Next]_vars, faults' = faults
  PROVE  MirrorInv'
<1> TypeOK /\ InCourse
  BY DEF TypeInv
<1> USE DEF callVars
<1>a. faults + 1 # faults
  BY ConstantsAssumption DEF ConstantsAssumption, TypeOK
<1>1. ASSUME NEW c \in Clients, NEW m \in Methods, NEW a \in Values(m), Call(c, m, a)
      PROVE  MirrorInv'
  BY <1>1, MirrorUntouched DEF Call, TypeOK, Announcing, Key, This
<1>2. ASSUME NEW c \in Clients, Acquire(c)
      PROVE  MirrorInv'
  BY <1>2, ThisCall, ChannelMethods, MirrorUntouched
     DEF Acquire, TypeOK, Announcing, Key, This
<1>3. ASSUME NEW c \in Clients, Expire(c)
      PROVE  MirrorInv'
  <2>1. Announcing(c) => This(c).publishes
    BY DEF MirrorInv, Announces
  <2> QED
    BY <1>3, <2>1, <1>a, MirrorUntouched
       DEF Expire, Proceed, TypeOK, Announcing, Key, This
<1>4. ASSUME NEW c \in Clients, Release(c)
      PROVE  MirrorInv'
  BY <1>4, MirrorUntouched DEF Release, Forget, TypeOK, Announcing, Key, This
<1>5. ASSUME NEW c \in Clients
      PROVE  ~AcquireFails(c) /\ ~Refused(c) /\ ~Crash(c)
  BY <1>a DEF AcquireFails, Refused, Crash
<1>6. ASSUME NEW k \in Keys, LeaseEnds(k) \/ KeyExpires(k)
      PROVE  MirrorInv'
  <2>1. UNCHANGED <<heard, pc, call, arg, local>>
    BY <1>6 DEF LeaseEnds, KeyExpires
  <2>2. \A j \in Keys : data'[j] \subseteq data[j]
    BY <1>6 DEF LeaseEnds, KeyExpires, TypeOK
  <2> QED
    BY <2>1, <2>2, MirrorUntouched DEF Announcing, Key, This
<1>7. CASE UNCHANGED vars
  BY <1>7, MirrorUntouched DEF vars, Announcing, Key, This
<1> QED
  BY <1>1, <1>2, <1>3, <1>4, <1>5, <1>6, <1>7, ReadMirror, WriteMirror,
     PublishMirror DEF Next, Step

\* The count of failures never falls.
LEMMA FaultsGrow == TypeOK /\ [Next]_vars => faults' = faults \/ faults' # 0
<1> SUFFICES ASSUME TypeOK, [Next]_vars PROVE faults' = faults \/ faults' # 0
  OBVIOUS
<1>1. faults \in Nat
  BY ConstantsAssumption DEF ConstantsAssumption, TypeOK
<1> QED
  BY <1>1 DEF Next, Step, Call, Acquire, AcquireFails, Read, Write, Expire,
     Publish, Release, Refused, Crash, KeyExpires, LeaseEnds, Proceed, vars,
     callVars

\* While nothing has failed and no lease has ended under a client at work, a
\* subscriber that applies every message holds what is stored whenever the key
\* is not locked: storing and publishing are one step to the others
\* (set_portfolios, the set_publish_* methods).
THEOREM SubscribersAgree ==
  Spec => [](slow = 0 => MirrorAgrees)
<1> DEFINE Inv == TypeInv /\ (slow = 0 => OwnsLock)
                  /\ (slow = 0 /\ faults = 0 => MirrorInv)
<1>1. Init => Inv
  BY InitTypeInv DEF Init, OwnsLock, MirrorInv, Mirrored, Announces,
     Snapshots, Announcing
<1>2. Inv /\ [Next]_vars => Inv'
  BY TypeStep, InCourseStep, OwnsLockStep, MirrorStep, SlowGrows, FaultsGrow
     DEF TypeInv
<1>3. Inv => (slow = 0 => MirrorAgrees)
  <2> SUFFICES ASSUME TypeInv, OwnsLock, faults = 0 => MirrorInv
               PROVE  MirrorAgrees
    OBVIOUS
  <2> SUFFICES ASSUME NEW k \in Announced, faults = 0, lock[k] = None
               PROVE  data[k] \subseteq heard[k]
    BY DEF MirrorAgrees
  <2>1. k \in Keys \cap Channels
    BY ChannelMethods, ConstantsAssumption
       DEF ConstantsAssumption, Announced, Keys
  <2>2. \A c \in Clients : Announcing(c) => Key(c) # k
    BY ConstantsAssumption DEF ConstantsAssumption, OwnsLock, Announcing
  <2> QED
    BY <2>1, <2>2 DEF MirrorInv, Mirrored
<1> QED
  BY <1>1, <1>2, <1>3, PTL DEF Spec

-----------------------------------------------------------------------------
\* The refinement.  The write of a call is the moment at which SharedStore
\* takes the whole call to happen; what was read before it must then be what
\* the key holds, or what it held when its time ended after the read.
ArgsPassed == \A c \in Clients : pc[c] # "idle" => arg[c] \in Values(call[c])

LiveKeys == \A k \in Keys : ttl[k] => data[k] # {}

ReadFound ==
  \A c \in Clients : pc[c] = "write" /\ This(c).reads =>
    \/ local[c] = data[Key(c)]
    \/ data[Key(c)] = {} /\ ~ttl[Key(c)] /\ local[c] = ended[Key(c)]

LEMMA ArgsPassedStep ==
  ASSUME TypeInv, ArgsPassed, [Next]_vars
  PROVE  ArgsPassed'
<1> TypeOK
  BY DEF TypeInv
<1> USE DEF callVars, ArgsPassed, Values
<1>1. ASSUME NEW c \in Clients, NEW m \in Methods, NEW a \in Values(m), Call(c, m, a)
      PROVE  ArgsPassed'
  BY <1>1 DEF Call, TypeOK
<1>2. ASSUME NEW c \in Clients, Forget(c)
      PROVE  ArgsPassed'
  BY <1>2 DEF Forget, TypeOK
<1>3. ASSUME NEW c \in Clients, call' = call, arg' = arg, pc[c] # "idle",
             \A d \in Clients \ {c} : pc'[d] = pc[d]
      PROVE  ArgsPassed'
  BY <1>3
<1>4. ASSUME NEW c \in Clients, Acquire(c) \/ Refused(c) \/ Read(c) \/ Write(c)
                                \/ Expire(c) \/ Publish(c)
      PROVE  ArgsPassed'
  BY <1>3, <1>4 DEF Acquire, Refused, Read, Write, Expire, Publish, Proceed, TypeOK
<1>5. CASE UNCHANGED callVars
  BY <1>5
<1> QED
  BY <1>1, <1>2, <1>4, <1>5
     DEF Next, Step, AcquireFails, Release, Crash, LeaseEnds, KeyExpires, vars

LEMMA LiveKeysStep ==
  ASSUME TypeInv, LiveKeys, [Next]_vars
  PROVE  LiveKeys'
<1> TypeOK
  BY DEF TypeInv
<1>1. ASSUME NEW c \in Clients, Write(c)
      PROVE  LiveKeys'
  <2>1. Key(c) \in Keys
    BY <1>1, ThisCall DEF Write
  <2> QED
    BY <1>1, <2>1 DEF Write, KeepsTtl, LiveKeys, TypeOK
<1>2. ASSUME NEW c \in Clients, Expire(c)
      PROVE  LiveKeys'
  <2>1. Key(c) \in Keys
    BY <1>2, ThisCall DEF Expire
  <2> QED
    BY <1>2, <2>1 DEF Expire, LiveKeys, TypeOK
<1>3. ASSUME NEW k \in Keys, KeyExpires(k)
      PROVE  LiveKeys'
  BY <1>3 DEF KeyExpires, LiveKeys, TypeOK
<1>4. CASE UNCHANGED <<data, ttl>>
  BY <1>4 DEF LiveKeys
<1> QED
  BY <1>1, <1>2, <1>3, <1>4 DEF Next, Step, Call, Acquire, AcquireFails, Read,
     Publish, Release, Refused, Crash, LeaseEnds, vars

\* A step that leaves the store alone and lets no call past its read.
LEMMA FoundUntouched ==
  ASSUME ReadFound, UNCHANGED <<data, ttl, ended>>,
         \A c \in Clients : pc'[c] = "write" /\ This(c)'.reads =>
           /\ pc[c] = "write" /\ call'[c] = call[c] /\ local'[c] = local[c]
  PROVE  ReadFound'
  BY DEF ReadFound, This, Key

LEMMA ReadFoundStep ==
  ASSUME TypeInv, OwnsLock, LiveKeys, ReadFound, [Next]_vars
  PROVE  ReadFound'
<1> TypeOK
  BY DEF TypeInv
<1> USE DEF callVars
<1>1. ASSUME NEW c \in Clients, NEW m \in Methods, NEW a \in Values(m), Call(c, m, a)
      PROVE  ReadFound'
  BY <1>1, FoundUntouched DEF Call, TypeOK
<1>2. ASSUME NEW c \in Clients, Acquire(c)
      PROVE  ReadFound'
  BY <1>2, FoundUntouched DEF Acquire, TypeOK, This
<1>3. ASSUME NEW c \in Clients, Forget(c), UNCHANGED <<data, ttl, ended>>
      PROVE  ReadFound'
  BY <1>3, FoundUntouched DEF Forget, TypeOK
<1>4. ASSUME NEW c \in Clients, Refused(c) \/ Publish(c)
      PROVE  ReadFound'
  BY <1>4, FoundUntouched DEF Refused, Publish, Proceed, TypeOK
<1>5. ASSUME NEW c \in Clients, Read(c)
      PROVE  ReadFound'
  <2>1. UNCHANGED <<data, ttl, ended, call>>
    BY <1>5 DEF Read
  <2>2. \A d \in Clients \ {c} : pc'[d] = pc[d] /\ local'[d] = local[d]
    BY <1>5 DEF Read, Proceed, TypeOK
  <2>3. pc'[c] = "write" => local'[c] = data[Key(c)]
    BY <1>5 DEF Read, Proceed, TypeOK
  <2> QED
    BY <2>1, <2>2, <2>3 DEF ReadFound, This, Key
<1>6. ASSUME NEW c \in Clients, Write(c) \/ Expire(c)
      PROVE  ReadFound'
  <2>1. pc'[c] # "write" /\ Key(c) \in Keys
    BY <1>6, ThisCall DEF Write, Expire, Proceed, AfterWrite, TypeOK
  <2>2. ASSUME NEW d \in Clients \ {c}, pc'[d] = "write"
        PROVE  /\ pc[d] = "write" /\ Key(d) \in Keys
               /\ data'[Key(d)] = data[Key(d)]
               /\ ttl'[Key(d)] = ttl[Key(d)]
               /\ ended'[Key(d)] = ended[Key(d)]
    <3>1. pc[d] = "write" /\ pc[c] \in {"write", "expire"}
      BY <1>6, <2>2 DEF Write, Expire, Proceed, TypeOK
    <3>2. Key(d) # Key(c) /\ Key(d) \in Keys
      BY <3>1, Exclusive, ThisCall
    <3> QED
      BY <1>6, <3>1, <3>2 DEF Write, Expire, TypeOK
  <2>3. call' = call /\ local' = local
    BY <1>6 DEF Write, Expire
  <2> QED
    BY <2>1, <2>2, <2>3 DEF ReadFound, This, Key
<1>7. ASSUME NEW k \in Keys, LeaseEnds(k)
      PROVE  ReadFound'
  BY <1>7, FoundUntouched DEF LeaseEnds, This
<1>8. ASSUME NEW k \in Keys, KeyExpires(k)
      PROVE  ReadFound'
  <2>1. UNCHANGED <<pc, call, local>>
    BY <1>8 DEF KeyExpires
  <2>2. /\ data'[k] = {} /\ ~ttl'[k] /\ ended'[k] = data[k]
        /\ \A j \in Keys : j # k => /\ data'[j] = data[j] /\ ttl'[j] = ttl[j]
                                    /\ ended'[j] = ended[j]
    BY <1>8 DEF KeyExpires, TypeOK
  <2>3. ttl[k] /\ data[k] # {}
    BY <1>8 DEF KeyExpires, LiveKeys
  <2>4. \A c \in Clients : pc[c] = "write" => Key(c) \in Keys
    BY ThisCall
  <2> QED
    BY <2>1, <2>2, <2>3, <2>4 DEF ReadFound, This, Key
<1>9. CASE UNCHANGED vars
  BY <1>9, FoundUntouched DEF vars, This
<1> QED
  BY <1>1, <1>2, <1>3, <1>4, <1>5, <1>6, <1>7, <1>8, <1>9
     DEF Next, Step, AcquireFails, Release, Crash

LEMMA TakingMethods ==
  ASSUME NEW m \in DOMAIN Method
  PROVE  /\ Method[m].reads /\ Method[m].write \in {"delete", "remove"} =>
              ~Method[m].expires /\ ~Method[m].publishes
         /\ Method[m].write = "remove" => Method[m].reads
<1>1. Method[m].reads /\ Method[m].write \in {"delete", "remove"} =>
        ~Method[m].expires /\ ~Method[m].publishes
  BY SMTT(30) DEF Method, M
<1>2. Method[m].write = "remove" => Method[m].reads
  BY SMTT(30) DEF Method, M
<1> QED
  BY <1>1, <1>2

\* What the refinement mapping puts into the hand of a client.
Given(c) == IF pc[c] = "release" /\ Takes(c) /\ ~failed[c] THEN local[c] ELSE {}

\* A step of one client fills or empties no other client's hand.
LEMMA OneHand ==
  ASSUME NEW c \in Clients,
         \A d \in Clients \ {c} :
           /\ pc'[d] = pc[d] /\ call'[d] = call[d]
           /\ failed'[d] = failed[d] /\ local'[d] = local[d]
  PROVE  /\ InHand' = [InHand EXCEPT ![c] = Given(c)']
         /\ Given(c)' = Given(c) => InHand' = InHand
<1>1. InHand = [d \in Clients |-> Given(d)]
  BY DEF InHand, Given
<1>2. InHand' = [d \in Clients |-> Given(d)']
  BY DEF InHand, Given
<1>3. \A d \in Clients \ {c} : Given(d)' = Given(d)
  BY DEF Given, Takes, This
<1> QED
  BY <1>1, <1>2, <1>3

\* The write of a call is the whole call to SharedStore.
LEMMA WriteRefines ==
  ASSUME TypeInv, ArgsPassed, ReadFound, NEW c \in Clients, Write(c)
  PROVE  Store!Next
<1> DEFINE k == Key(c)
<1> TypeOK /\ InCourse
  BY DEF TypeInv
<1>1. call[c] \in DOMAIN Method /\ k \in Keys /\ pc[c] = "write"
  BY ThisCall DEF Write
<1>2. \A d \in Clients \ {c} :
        /\ pc'[d] = pc[d] /\ call'[d] = call[d]
        /\ failed'[d] = failed[d] /\ local'[d] = local[d]
  BY DEF Write, Proceed, TypeOK
<1>3. /\ taken' = taken /\ ended' = [ended EXCEPT ![k] = {}]
      /\ data' = [data EXCEPT ![k] = Written(c)]
      /\ call' = call /\ local' = local
  BY DEF Write
<1>4. Given(c) = {}
  BY <1>1 DEF Given
<1>5. CASE Takes(c)
  <2>1. local[c] \in {data[k], ended[k]} /\ data[k] \subseteq local[c]
    BY <1>1, <1>5 DEF ReadFound, Takes
  <2>2. Written(c) = {}
    <3>1. CASE This(c).write = "delete"
      BY <3>1 DEF Written
    <3>2. CASE This(c).write = "remove"
      BY <2>1, <3>2 DEF Written
    <3> QED
      BY <1>5, <3>1, <3>2 DEF Takes
  <2>3. Given(c)' \in {local[c], {}}
    BY <1>3 DEF Given
  <2>4. CASE Given(c)' = {}
    <3>1. InHand' = InHand
      BY <1>2, <1>4, <2>4, OneHand
    <3>2. Store!Clear(k)
      BY <1>3, <2>2, <3>1 DEF Store!Clear, Store!Becomes
    <3> QED
      BY <1>1, <3>2 DEF Store!Next
  <2>5. CASE Given(c)' = local[c]
    <3>1. InHand' = [InHand EXCEPT ![c] = local[c]]
      BY <1>2, <2>5, OneHand
    <3>2. Store!Take(c, k)
      BY <1>3, <2>1, <2>2, <3>1 DEF Store!Take, Store!Becomes, Store!Found
    <3> QED
      BY <1>1, <3>2 DEF Store!Next
  <2> QED
    BY <2>3, <2>4, <2>5
<1>6. CASE ~Takes(c)
  <2>1. InHand' = InHand
    <3>1. Given(c)' = {}
      BY <1>3, <1>6 DEF Given, Takes, This
    <3> QED
      BY <1>2, <1>4, <3>1, OneHand
  <2>2. This(c).write \in {"merge", "set", "setMerged", "add", "delete"}
    BY <1>1, <1>6, MethodFields, TakingMethods DEF InCourse, Takes, This
  <2>3. CASE This(c).write = "delete"
    <3>1. Written(c) = {}
      BY <2>3 DEF Written
    <3>2. Store!Clear(k)
      BY <1>3, <2>1, <3>1 DEF Store!Clear, Store!Becomes
    <3> QED
      BY <1>1, <3>2 DEF Store!Next
  <2>4. CASE This(c).write # "delete"
    <3>1. arg[c] \in Args
      BY <1>1, <2>2, <2>4 DEF ArgsPassed, Values, This
    <3>2. \E found \in {data[k], ended[k]} :
            Written(c) \in {Store!Merged(found, arg[c]), found \cup arg[c], arg[c]}
      <4>1. CASE This(c).write = "merge"
        BY <4>1 DEF Written, Merge, Store!Merged
      <4>2. CASE This(c).write = "set"
        BY <4>2 DEF Written
      <4>3. CASE This(c).write = "add"
        BY <4>3 DEF Written
      <4>4. CASE This(c).write = "setMerged"
        <5>1. local[c] \in {data[k], ended[k]}
          BY <1>1, <4>4, ChannelMethods DEF ReadFound, This
        <5>2. Written(c) = Store!Merged(local[c], arg[c])
          BY <4>4 DEF Written, Merge, Store!Merged
        <5> QED
          BY <5>1, <5>2
      <4> QED
        BY <2>2, <2>4, <4>1, <4>2, <4>3, <4>4
    <3>3. Store!Update(k, arg[c])
      BY <1>3, <2>1, <3>2 DEF Store!Update, Store!Found, Store!Becomes
    <3> QED
      BY <1>1, <3>1, <3>3 DEF Store!Next
  <2> QED
    BY <2>3, <2>4
<1> QED
  BY <1>5, <1>6

\* Ending a call hands over what the client holds, or drops it.
LEMMA ReleaseRefines ==
  ASSUME TypeOK, NEW c \in Clients, Release(c)
  PROVE  Store!Next
<1> DEFINE k == Key(c)
<1>1. k \in Keys /\ pc[c] = "release"
  BY ThisCall DEF Release
<1>2. InHand' = [InHand EXCEPT ![c] = {}]
  <2>1. Given(c)' = {}
    BY DEF Release, Forget, TypeOK, Given
  <2> QED
    BY <2>1, OneHand DEF Release, Forget, TypeOK
<1>3. data' = data /\ ended' = ended
  BY DEF Release
<1>4. CASE taken' = taken
  BY <1>2, <1>3, <1>4 DEF Store!Next, Store!Drop
<1>5. CASE taken' # taken
  <2>1. Takes(c) /\ ~failed[c] /\ taken' = [taken EXCEPT ![k] = @ \cup local[c]]
    BY <1>1, <1>5 DEF Release, TypeOK
  <2>2. InHand[c] = local[c]
    BY <1>1, <2>1 DEF InHand
  <2>3. Store!Return(c, k)
    BY <1>2, <1>3, <2>1, <2>2 DEF Store!Return
  <2> QED
    BY <1>1, <2>3 DEF Store!Next
<1> QED
  BY <1>4, <1>5

LEMMA AtomicStep ==
  ASSUME TypeInv, ArgsPassed, ReadFound, [Next]_vars
  PROVE  [Store!Next]_(Store!vars)
<1> TypeOK /\ InCourse
  BY DEF TypeInv
<1> USE DEF callVars
<1>1. ASSUME NEW c \in Clients, Given(c)' = Given(c),
             UNCHANGED <<data, ended, taken>>,
             \A d \in Clients \ {c} :
               /\ pc'[d] = pc[d] /\ call'[d] = call[d]
               /\ failed'[d] = failed[d] /\ local'[d] = local[d]
      PROVE  UNCHANGED Store!vars
  BY <1>1, OneHand DEF Store!vars
<1>2. ASSUME NEW c \in Clients, NEW m \in Methods, NEW a \in Values(m), Call(c, m, a)
      PROVE  UNCHANGED Store!vars
  <2>1. Given(c)' = Given(c)
    BY <1>2 DEF Call, TypeOK, Given
  <2> QED
    BY <1>1, <1>2, <2>1 DEF Call, TypeOK
<1>3. ASSUME NEW c \in Clients, Acquire(c)
      PROVE  UNCHANGED Store!vars
  <2>1. Given(c)' = Given(c)
    BY <1>3 DEF Acquire, TypeOK, Given
  <2> QED
    BY <1>1, <1>3, <2>1 DEF Acquire, TypeOK
<1>4. ASSUME NEW c \in Clients, AcquireFails(c) \/ Crash(c)
      PROVE  Store!Next
  <2>1. Given(c)' = {}
    BY <1>4 DEF AcquireFails, Crash, Forget, TypeOK, Given
  <2>2. InHand' = [InHand EXCEPT ![c] = {}]
    BY <1>4, <2>1, OneHand DEF AcquireFails, Crash, Forget, TypeOK
  <2> QED
    BY <1>4, <2>2 DEF AcquireFails, Crash, Store!Next, Store!Drop
<1>5. ASSUME NEW c \in Clients, Refused(c)
      PROVE  UNCHANGED Store!vars
  <2>1. Given(c)' = Given(c)
    BY <1>5 DEF Refused, TypeOK, Given
  <2> QED
    BY <1>1, <1>5, <2>1 DEF Refused, TypeOK
<1>6. ASSUME NEW c \in Clients, Read(c)
      PROVE  UNCHANGED Store!vars
  <2>1. call' = call /\ pc[c] = "read"
    BY <1>6 DEF Read
  <2>2. CASE failed'[c] \/ pc'[c] # "release" \/ ~Takes(c)
    <3>1. Given(c)' = Given(c)
      BY <2>1, <2>2 DEF Given, Takes, This
    <3> QED
      BY <1>1, <1>6, <3>1 DEF Read, Proceed, TypeOK
  <2>3. CASE ~failed'[c] /\ pc'[c] = "release" /\ Takes(c)
    <3>1. NothingToWrite(c) /\ local'[c] = data[Key(c)]
      BY <1>6, <2>3 DEF Read, Proceed, TypeOK
    <3>2. local'[c] = {}
      BY <2>3, <3>1 DEF NothingToWrite, Takes
    <3>3. Given(c)' = Given(c)
      BY <2>1, <3>2 DEF Given
    <3> QED
      BY <1>1, <1>6, <3>3 DEF Read, Proceed, TypeOK
  <2> QED
    BY <2>2, <2>3
<1>7. ASSUME NEW c \in Clients, Expire(c) \/ Publish(c)
      PROVE  UNCHANGED Store!vars
  <2>1. call[c] \in DOMAIN Method /\ call' = call /\ pc[c] # "release"
    BY <1>7, ThisCall DEF Expire, Publish
  <2>2. ~Takes(c)
    BY <1>7, <2>1, TakingMethods DEF Expire, Publish, InCourse, Takes, This
  <2>3. Given(c)' = Given(c)
    BY <2>1, <2>2 DEF Given, Takes, This
  <2> QED
    BY <1>1, <1>7, <2>3 DEF Expire, Publish, Proceed, TypeOK
<1>8. ASSUME NEW k \in Keys, LeaseEnds(k)
      PROVE  UNCHANGED Store!vars
  BY <1>8 DEF LeaseEnds, Store!vars, InHand, Takes, This
<1>9. ASSUME NEW k \in Keys, KeyExpires(k)
      PROVE  Store!Next
  <2>1. InHand' = InHand
    BY <1>9 DEF KeyExpires, InHand, Takes, This
  <2>2. Store!Expire(k)
    BY <1>9, <2>1 DEF KeyExpires, Store!Expire
  <2> QED
    BY <2>2 DEF Store!Next
<1>10. CASE UNCHANGED vars
  BY <1>10 DEF vars, Store!vars, InHand, Takes, This
<1> QED
  BY <1>2, <1>3, <1>4, <1>5, <1>6, <1>7, <1>8, <1>9, <1>10, WriteRefines,
     ReleaseRefines DEF Next, Step

\* If a lease always outlasts the call it protects, every method of
\* RedisOperations is one atomic operation of SharedStore, for every number of
\* clients and calls, whichever commands fail, keys end or clients crash
\* (get_lock_for_resource and the methods that use it).
THEOREM CallsAreAtomic ==
  ASSUME MaxSlow = 0
  PROVE  Spec => Atomic
<1> DEFINE Inv == TypeInv /\ OwnsLock /\ ArgsPassed /\ LiveKeys /\ ReadFound
<1>1. Init => Inv
  BY InitTypeInv DEF Init, OwnsLock, ArgsPassed, LiveKeys, ReadFound
<1>2. Inv /\ [Next]_vars => Inv'
  <2> SUFFICES ASSUME Inv, [Next]_vars PROVE Inv'
    OBVIOUS
  <2>1. TypeInv'
    BY TypeStep, InCourseStep DEF TypeInv
  <2>2. slow' = slow
    BY <2>1 DEF TypeInv, TypeOK
  <2>3. OwnsLock'
    BY <2>2, OwnsLockStep DEF TypeInv
  <2> QED
    BY <2>1, <2>3, ArgsPassedStep, LiveKeysStep, ReadFoundStep
<1>3. Init => Store!Init
  <2> SUFFICES ASSUME Init PROVE Store!Init
    OBVIOUS
  <2>1. InHand = [c \in Clients |-> {}]
    BY DEF Init, InHand
  <2> QED
    BY <2>1 DEF Init, Store!Init
<1>4. Inv /\ [Next]_vars => [Store!Next]_(Store!vars)
  BY AtomicStep
<1> QED
  BY <1>1, <1>2, <1>3, <1>4, PTL DEF Spec, Atomic, Store!Spec

=============================================================================
