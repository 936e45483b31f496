--------------------------- MODULE MongoStoreProofs ---------------------------
(***************************************************************************)
(* Theorems about MongoStore, for any number of threads, keys, calls,      *)
(* failures and close() of the shared client.                              *)
(***************************************************************************)
EXTENDS MongoStore, TLAPS

Places == {"new", "create", "attach", "lock", "index", "ready", "find", "test", "add", "run"}

\* What the steps of a call may do to the place of its thread.
OwnOK ==
  /\ pc \in [Clients -> {"new", "create", "attach", "lock", "index", "ready",
                         "find", "test", "add", "run"}]
  /\ call \in [Clients -> AllMethods \cup {NoCall}]
  /\ todo \in [Clients -> SUBSET Keys]
  /\ again \in [Clients -> SUBSET Repeated]
  /\ item \in [Clients -> SUBSET Keys]

LEMMA ReturnType ==
  ASSUME TypeOK, NEW c \in Clients, Return(c)
  PROVE  OwnOK'
BY DEF TypeOK, OwnOK, Return, Goto

\* The call goes on behind a document: the list may name it once more.
GoesTo(c, k, l) ==
  /\ \/ /\ k \in again[c] /\ again' = [again EXCEPT ![c] = again[c] \ {k}]
        /\ todo' = todo
     \/ /\ k \notin again[c] /\ again' = again
        /\ todo' = [todo EXCEPT ![c] = todo[c] \ {k}]
  /\ item' = [item EXCEPT ![c] = {}]
  /\ Goto(c, l) /\ call' = call

LEMMA AdvanceCases ==
  ASSUME NEW c \in Clients, NEW k, NEW l, Advance(c, k, l)
  PROVE  Return(c) \/ GoesTo(c, k, l)
BY DEF Advance, GoesTo

LEMMA AdvanceType ==
  ASSUME TypeOK, NEW c \in Clients, NEW k, NEW l \in {"test", "run"}, Advance(c, k, l)
  PROVE  OwnOK'
<1>1. CASE Return(c)
  BY <1>1, ReturnType
<1>2. CASE GoesTo(c, k, l)
  BY <1>2 DEF GoesTo, TypeOK, OwnOK, Goto
<1> QED
  BY <1>1, <1>2, AdvanceCases

LEMMA PutType ==
  ASSUME TypeOK, NEW c \in Clients, NEW k \in Keys, NEW n, Put(L(c), k, n),
         L(c) \in Colls => n \in Nat
  PROVE  store' \in [Colls -> [Keys -> Nat]]
<1>1. CASE L(c) \in Colls
  <2>1. store[L(c)] \in [Keys -> Nat]
    BY <1>1 DEF TypeOK
  <2>2. [store[L(c)] EXCEPT ![k] = n] \in [Keys -> Nat]
    BY <1>1, <2>1
  <2> QED
    BY <2>2 DEF TypeOK, Put
<1>2. CASE L(c) \notin Colls
  BY <1>2 DEF TypeOK, Put
<1> QED
  BY <1>1, <1>2

LEMMA NextCount ==
  ASSUME TypeOK, NEW c \in Clients, NEW k \in Keys
  PROVE  L(c) \in Colls => store[L(c)][k] \in Nat /\ store[L(c)][k] + 1 \in Nat
BY DEF TypeOK

LEMMA TypeStep == TypeOK /\ [Next]_vars => TypeOK'
<1> SUFFICES ASSUME TypeOK, [Next]_vars PROVE TypeOK'
  OBVIOUS
<1> USE ConstantsAssumption DEF ConstantsAssumption
<1>1. ASSUME NEW c \in Clients, FindClient(c) PROVE TypeOK'
  BY <1>1 DEF FindClient, TypeOK, Goto, class, server, own, counters
<1>2. ASSUME NEW c \in Clients, CreateClient(c) PROVE TypeOK'
  <2>1. made' \in Nat /\ client' \in 0..made' /\ open' \subseteq 1..made'
        /\ handle' \in [Clients -> 0..made']
    BY <1>2 DEF CreateClient, TypeOK, own
  <2> QED
    BY <1>2, <2>1 DEF CreateClient, TypeOK, Goto, server, own, counters
<1>3. ASSUME NEW c \in Clients, Attach(c) PROVE TypeOK'
  BY <1>3 DEF Attach, TypeOK, Goto, class, server, counters
<1>4. ASSUME NEW c \in Clients, LockIndexes(c) PROVE TypeOK'
  <2>1. locked' \in BOOLEAN /\ pc' \in [Clients -> Places] /\ built' \in [Clients -> 0..Indexes]
    <3>1. locked' \in BOOLEAN /\ pc' \in [Clients -> Places]
      BY <1>4 DEF LockIndexes, TypeOK, Goto, Places
    <3>2. built' \in [Clients -> 0..Indexes]
      BY <1>4 DEF LockIndexes, TypeOK, Indexes
    <3> QED
      BY <3>1, <3>2
  <2> QED
    BY <1>4, <2>1 DEF LockIndexes, TypeOK, server, counters, Places
<1>5. ASSUME NEW c \in Clients, EnsureIndex(c) PROVE TypeOK'
  <2>1. built' \in [Clients -> 0..Indexes]
    <3>1. built[c] + 1 \in 0..Indexes
      BY <1>5 DEF EnsureIndex, TypeOK, Indexes
    <3> QED
      BY <1>5, <3>1 DEF EnsureIndex, TypeOK
  <2> QED
    BY <1>5, <2>1 DEF EnsureIndex, TypeOK, class, counters
<1>6. ASSUME NEW c \in Clients, EnsureDone(c) PROVE TypeOK'
  BY <1>6 DEF EnsureDone, TypeOK, Goto, server, own, counters
<1>7. ASSUME NEW c \in Clients, InitFails(c) PROVE TypeOK'
  <2>1. pc' \in [Clients -> Places]
    BY <1>7 DEF InitFails, TypeOK, Goto, Places
  <2>2. calls' \in 0..MaxCalls /\ faults' \in 0..MaxFaults /\ closes' \in 0..MaxCloses
    BY <1>7 DEF InitFails, Fault, TypeOK, counters
  <2> QED
    BY <1>7, <2>1, <2>2 DEF InitFails, TypeOK, server, own, Places
<1>8. ASSUME NEW c \in Clients, Close(c) PROVE TypeOK'
  <2>1. pc' \in [Clients -> Places] /\ closes' \in 0..MaxCloses
    <3>1. pc' \in [Clients -> Places]
      BY <1>8 DEF Close, TypeOK, Goto, Places
    <3>2. closes' \in 0..MaxCloses
      BY <1>8 DEF Close, TypeOK
    <3> QED
      BY <3>1, <3>2
  <2>2. client' \in 0..made /\ open' \subseteq 1..made
    <3>1. client \in 0..made /\ made \in Nat /\ open \subseteq 1..made
      BY DEF TypeOK
    <3>2. (client' = client /\ open' = open) \/ (client' = 0 /\ open' = open \ {handle[c]})
      BY <1>8 DEF Close
    <3>3. 0 \in 0..made
      BY <3>1
    <3>4. open \ {handle[c]} \subseteq 1..made
      BY <3>1, Zenon
    <3> QED
      BY <3>1, <3>2, <3>3, <3>4, Zenon
  <2> QED
    BY <1>8, <2>1, <2>2 DEF Close, TypeOK, server, own, Places
<1>9. ASSUME NEW c \in Clients, Invoke(c) PROVE TypeOK'
  BY <1>9 DEF Invoke, TypeOK, Goto, Started, class, server
<1>10. ASSUME NEW c \in Clients, CommandFails(c) PROVE TypeOK'
  <2>1. OwnOK'
    BY <1>10, ReturnType DEF CommandFails
  <2> QED
    BY <1>10, <2>1 DEF CommandFails, Fault, TypeOK, OwnOK, class, server, counters
<1>11. ASSUME NEW c \in Clients, Filter(c) PROVE TypeOK'
  <2>1. OwnOK'
    <3>1. CASE Return(c)
      BY <3>1, ReturnType
    <3>2. CASE ~Return(c)
      <4>1. PICK rest \in SUBSET todo[c] :
              /\ todo' = [todo EXCEPT ![c] = rest]
              /\ again' = [again EXCEPT ![c] = again[c] \cap rest]
        BY <1>11, <3>2 DEF Filter
      <4>2. Goto(c, "run") /\ UNCHANGED <<call, item>>
        BY <1>11, <3>2 DEF Filter
      <4> QED
        BY <4>1, <4>2 DEF TypeOK, OwnOK, Goto
    <3> QED
      BY <3>1, <3>2
  <2> QED
    BY <1>11, <2>1 DEF Filter, TypeOK, OwnOK, class, server, counters
<1>12. ASSUME NEW c \in Clients, Test(c) PROVE TypeOK'
  <2>1. PICK k \in todo[c] :
          IF store[L(c)][k] = 0
          THEN /\ item' = [item EXCEPT ![c] = {k}] /\ Goto(c, "add")
               /\ UNCHANGED <<changed, call, todo, again>>
          ELSE /\ changed' = IF Kind(c) = "upsert" THEN [changed EXCEPT ![L(c)] = @ \ {k}]
                             ELSE changed
               /\ Advance(c, k, "test")
    BY <1>12 DEF Test
  <2>2. k \in Keys
    BY DEF TypeOK
  <2>3. OwnOK' /\ changed' \in [Colls -> SUBSET Keys]
    <3>1. CASE store[L(c)][k] = 0
      <4>1. /\ item' = [item EXCEPT ![c] = {k}] /\ Goto(c, "add")
            /\ UNCHANGED <<changed, call, todo, again>>
        BY <2>1, <3>1
      <4>2. item' \in [Clients -> SUBSET Keys]
        BY <2>2, <4>1 DEF TypeOK
      <4>3. pc' \in [Clients -> Places]
        BY <4>1 DEF TypeOK, Goto, Places
      <4> QED
        BY <4>1, <4>2, <4>3 DEF TypeOK, OwnOK, Places
    <3>2. CASE store[L(c)][k] # 0
      <4>1. OwnOK'
        BY <2>1, <3>2, AdvanceType
      <4> QED
        BY <2>1, <3>2, <4>1 DEF TypeOK
    <3> QED
      BY <3>1, <3>2
  <2> QED
    BY <1>12, <2>3 DEF Test, TypeOK, OwnOK, class, counters
<1>13. ASSUME NEW c \in Clients, Add(c) PROVE TypeOK'
  <2>1. PICK k \in item[c] :
          \/ Return(c) /\ UNCHANGED store
          \/ Advance(c, k, "test") /\ UNCHANGED store
          \/ Advance(c, k, "test") /\ Put(L(c), k, store[L(c)][k] + 1)
    BY <1>13 DEF Add
  <2>2. k \in Keys
    BY DEF TypeOK
  <2>3. OwnOK'
    BY <2>1, ReturnType, AdvanceType
  <2>4. store' \in [Colls -> [Keys -> Nat]]
    BY <2>1, <2>2, PutType, NextCount DEF TypeOK
  <2> QED
    BY <1>13, <2>3, <2>4 DEF Add, TypeOK, OwnOK, class, counters
<1>14. ASSUME NEW c \in Clients, Insert(c) PROVE TypeOK'
  <2>1. PICK k \in todo[c] :
          \/ Return(c) /\ UNCHANGED store
          \/ Advance(c, k, "run") /\ Put(L(c), k, store[L(c)][k] + 1)
    BY <1>14 DEF Insert
  <2>2. k \in Keys
    BY DEF TypeOK
  <2>3. OwnOK'
    BY <2>1, ReturnType, AdvanceType
  <2>4. store' \in [Colls -> [Keys -> Nat]]
    BY <2>1, <2>2, PutType, NextCount DEF TypeOK
  <2> QED
    BY <1>14, <2>3, <2>4 DEF Insert, TypeOK, OwnOK, class, counters
<1>15. ASSUME NEW c \in Clients, Change(c) PROVE TypeOK'
  <2>1. OwnOK'
    BY <1>15, ReturnType DEF Change
  <2>2. changed' \in [Colls -> SUBSET Keys]
    <3>1. PICK hit : changed' = [changed EXCEPT ![L(c)] = @ \cup (hit \cap Present(L(c)))]
      BY <1>15 DEF Change
    <3>2. Present(L(c)) \subseteq Keys
      BY DEF Present
    <3> QED
      BY <3>1, <3>2 DEF TypeOK
  <2> QED
    BY <1>15, <2>1, <2>2 DEF Change, TypeOK, OwnOK, class, counters
<1>16. ASSUME NEW c \in Clients, Delete(c) PROVE TypeOK'
  <2>1. OwnOK'
    BY <1>16, ReturnType DEF Delete
  <2>2. PICK gone :
          /\ store' = [store EXCEPT ![L(c)] = [k \in Keys |-> IF k \in gone THEN 0 ELSE @[k]]]
          /\ changed' = [changed EXCEPT ![L(c)] = @ \ gone]
    BY <1>16 DEF Delete
  <2>3. store' \in [Colls -> [Keys -> Nat]] /\ changed' \in [Colls -> SUBSET Keys]
    BY <2>2 DEF TypeOK
  <2> QED
    BY <1>16, <2>1, <2>3 DEF Delete, TypeOK, OwnOK, class, counters
<1>17. ASSUME NEW c \in Clients, Read(c) PROVE TypeOK'
  <2>1. OwnOK'
    BY <1>17, ReturnType DEF Read
  <2> QED
    BY <1>17, <2>1 DEF Read, TypeOK, OwnOK, class, server, counters
<1>18. ASSUME UNCHANGED vars PROVE TypeOK'
  BY <1>18 DEF vars, class, server, own, counters, TypeOK
<1> QED
  BY <1>1, <1>2, <1>3, <1>4, <1>5, <1>6, <1>7, <1>8, <1>9, <1>10, <1>11, <1>12, <1>13, <1>14,
     <1>15, <1>16, <1>17, <1>18 DEF Next

LEMMA InitType == Init => TypeOK
<1> SUFFICES ASSUME Init PROVE TypeOK
  OBVIOUS
<1>1. store \in [Colls -> [Keys -> Nat]] /\ changed \in [Colls -> SUBSET Keys]
  BY DEF Init
<1>2. call \in [Clients -> AllMethods \cup {NoCall}]
  BY DEF Init
<1>3. /\ pc \in [Clients -> Places] /\ built \in [Clients -> 0..Indexes]
      /\ todo \in [Clients -> SUBSET Keys] /\ item \in [Clients -> SUBSET Keys]
      /\ again \in [Clients -> SUBSET Repeated]
  BY DEF Init, Indexes, Places
<1>4. client \in 0..made /\ made \in Nat /\ open \subseteq 1..made /\ handle \in [Clients -> 0..made]
  BY DEF Init
<1>5. calls \in 0..MaxCalls /\ faults \in 0..MaxFaults /\ closes \in 0..MaxCloses
  BY ConstantsAssumption DEF ConstantsAssumption, Init
<1> QED
  BY <1>1, <1>2, <1>3, <1>4, <1>5 DEF Init, TypeOK, Places

\* Whatever fails, every thread, instance and document keeps its type: no
\* instance ever uses a client that was not made, and no command of
\* _ensure_indexes is given twice.
THEOREM TypeCorrect == Spec => []TypeOK
  BY InitType, TypeStep, PTL DEF Spec

-----------------------------------------------------------------------------
(***************************************************************************)
(* What the table says of the collections that matter.                     *)
(***************************************************************************)
Plain(m) == m.kind \notin {"upsert", "keyed"}

LEMMA PlainMethods ==
  /\ \A coll : \A m \in AnyCollection(coll) \cup ReadAnyCollection(coll) : Plain(m)
  /\ \A m \in DeleteInstCodes \cup InsertOrders \cup InsertMarket \cup InsertDeposits : Plain(m)
  /\ \A m \in InsertAccounts \cup InsertReference \cup ReadReference \cup ReadMarket : Plain(m)
  /\ \A m \in ReadAccounts \cup ReadOrders \cup ReadTrades \cup ReadMetrics : Plain(m)
  /\ \A m \in ReadInventory \cup Updates \cup Premiums : Plain(m)
<1> USE DEF Plain, M, Into
<1>1. \A coll : \A m \in AnyCollection(coll) \cup ReadAnyCollection(coll) : Plain(m)
  BY DEF AnyCollection, ReadAnyCollection
<1>2. \A m \in DeleteInstCodes \cup InsertDeposits : Plain(m)
  BY DEF DeleteInstCodes, InsertDeposits
<1>3. \A kind \in Kinds \ {"upsert", "keyed"} : \A methods : \A m \in Into(kind, methods) : Plain(m)
  OBVIOUS
<1> HIDE DEF Into
<1>4. \A m \in InsertOrders \cup InsertMarket \cup InsertAccounts \cup InsertReference : Plain(m)
  BY <1>3 DEF InsertOrders, InsertMarket, InsertAccounts, InsertReference, Kinds
<1>5. \A m \in ReadReference \cup ReadMarket \cup ReadAccounts : Plain(m)
  BY <1>3 DEF ReadReference, ReadMarket, ReadAccounts, Kinds
<1>6. \A m \in ReadOrders \cup ReadTrades \cup ReadMetrics \cup ReadInventory \cup Updates : Plain(m)
  BY <1>3 DEF ReadOrders, ReadTrades, ReadMetrics, ReadInventory, Updates, Kinds
<1>7. \A m \in Premiums : Plain(m)
  BY DEF Premiums
<1> HIDE DEF Plain
<1> QED
  BY <1>1, <1>2, <1>4, <1>5, <1>6, <1>7

\* Only the funding rates are upserted, and they are inserted in no other way.
LEMMA UpsertTable ==
  ASSUME NEW m \in AllMethods
  PROVE  /\ m.kind = "upsert" => m.coll = Funding
         /\ m.kind = "keyed" => m.coll # Funding
<1>1. CASE Plain(m)
  BY <1>1 DEF Plain
<1>2. CASE m \in Reports \cup TradeRecords \cup ShadowTrades \cup FundingRates
  BY <1>2 DEF Reports, TradeRecords, ShadowTrades, FundingRates, M, Funding
<1> QED
  BY <1>1, <1>2, PlainMethods DEF AllMethods, Methods

LEMMA FundingColl == Funding \in Colls
<1> DEFINE m == M("insert_funding_rate_history", "funding_rate_history", "upsert")
<1>1. m \in FundingRates /\ m.coll = Funding
  BY DEF FundingRates, M, Funding
<1>2. m \in AllMethods
  BY <1>1 DEF AllMethods, Methods
<1> QED
  BY <1>1, <1>2 DEF Colls

LEMMA DepositsMethod ==
  ASSUME NEW m \in InsertDeposits
  PROVE  m \in AllMethods /\ m.coll \in Colls /\ m.kind = "fresh"
<1>1. m \in AllMethods
  BY DEF AllMethods, Methods
<1>2. m.kind = "fresh"
  BY DEF InsertDeposits, M
<1> QED
  BY <1>1, <1>2 DEF Colls

-----------------------------------------------------------------------------
(***************************************************************************)
(* The inductive invariant.                                                *)
(***************************************************************************)
IndexInv ==
  /\ ensured => indexed
  /\ \A c \in Clients : pc[c] = "index" /\ built[c] > 0 => indexed

\* What a thread does is one of its methods, and only the right ones look first.
PlaceInv ==
  \A c \in Clients :
    /\ InCall(c) => call[c] \in Menu[c]
    /\ pc[c] \in {"test", "add"} => Kind(c) \in {"absent", "upsert"}

\* The one writer of the deposits inserts only what it has not found, as often
\* as its list names it.
OneWriter(m) ==
  \A c, d \in Writers(m) : c = d /\ \A r \in Menu[c] : r.coll = m.coll /\ r.kind \in Inserts => r = m
Pending(c, k) == IF k \in again[c] THEN 2 ELSE 1
Unseen(m) ==
  \A c \in Clients : pc[c] = "run" /\ call[c] = m =>
    \A k \in todo[c] : store[m.coll][k] + Pending(c, k) <= Copies(k)
DepositsInv == \A m \in InsertDeposits : OneWriter(m) => Unseen(m)

IInv ==
  TypeOK /\ IndexInv /\ IndexesFirst /\ PlaceInv /\ FundingUnique /\ DepositsOnce /\ DepositsInv

LEMMA InitInv == Init => IInv
<1> SUFFICES ASSUME Init PROVE IInv
  OBVIOUS
<1>1. TypeOK
  BY InitType
<1>2. IndexInv /\ IndexesFirst /\ PlaceInv /\ DepositsInv
  BY DEF Init, IndexInv, IndexesFirst, PlaceInv, DepositsInv, Unseen, InCall
<1>3. FundingUnique
  BY FundingColl DEF Init, FundingUnique
<1>4. DepositsOnce
  <2>1. \A m \in InsertDeposits : m.coll \in Colls
    BY DEF Colls, AllMethods, Methods
  <2> QED
    BY <2>1 DEF Init, DepositsOnce, Copies
<1> QED
  BY <1>1, <1>2, <1>3, <1>4 DEF IInv

-----------------------------------------------------------------------------
(***************************************************************************)
(* What a step of thread c does to the control of c and of the others.     *)
(***************************************************************************)
Step(c) ==
  \/ FindClient(c) \/ CreateClient(c) \/ Attach(c) \/ LockIndexes(c)
  \/ EnsureIndex(c) \/ EnsureDone(c) \/ InitFails(c) \/ Close(c)
  \/ Invoke(c) \/ CommandFails(c) \/ Filter(c) \/ Test(c) \/ Add(c)
  \/ Insert(c) \/ Change(c) \/ Delete(c) \/ Read(c)

Same(j) == pc'[j] = pc[j] /\ built'[j] = built[j] /\ call'[j] = call[j] /\ todo'[j] = todo[j]
           /\ again'[j] = again[j]
Others(c) == \A j \in Clients \ {c} : Same(j)

\* The call of c goes on, or it has returned.
GoesOn(c) ==
  /\ InCall(c) /\ call'[c] = call[c] /\ todo'[c] \subseteq todo[c] /\ again'[c] \subseteq again[c]
  /\ \/ pc'[c] = pc[c]
     \/ pc[c] = "find" /\ pc'[c] = "run"
     \/ pc[c] \in {"test", "add"} /\ pc'[c] \in {"test", "add"}
Moves(c) == Others(c) /\ ensured' = ensured /\ indexed' = indexed
            /\ InCall(c) /\ (GoesOn(c) \/ pc'[c] = "ready")

LEMMA ReturnMoves ==
  ASSUME TypeOK, NEW c \in Clients, Return(c), built' = built
  PROVE  Others(c) /\ pc'[c] = "ready"
BY DEF TypeOK, Return, Goto, Others, Same

LEMMA AdvanceMoves ==
  ASSUME TypeOK, NEW c \in Clients, NEW k, NEW l \in {"test", "run"}, Advance(c, k, l), built' = built
  PROVE  /\ Others(c)
         /\ \/ pc'[c] = "ready"
            \/ /\ pc'[c] = l /\ call'[c] = call[c]
               /\ \/ k \in again[c] /\ again'[c] = again[c] \ {k} /\ todo'[c] = todo[c]
                  \/ k \notin again[c] /\ again'[c] = again[c] /\ todo'[c] = todo[c] \ {k}
<1>1. CASE Return(c)
  BY <1>1, ReturnMoves
<1>2. CASE GoesTo(c, k, l)
  BY <1>2 DEF GoesTo, TypeOK, Goto, Others, Same
<1> QED
  BY <1>1, <1>2, AdvanceCases

LEMMA CallMoves ==
  ASSUME TypeOK, NEW c \in Clients,
         \/ CommandFails(c) \/ Filter(c) \/ Test(c) \/ Add(c)
         \/ Insert(c) \/ Change(c) \/ Delete(c) \/ Read(c)
  PROVE  Moves(c)
<1>1. InCall(c) /\ built' = built /\ ensured' = ensured /\ indexed' = indexed
  BY DEF CommandFails, Filter, Test, Add, Insert, Change, Delete, Read, InCall, class, server
<1>2. CASE CommandFails(c) \/ Change(c) \/ Delete(c) \/ Read(c)
  BY <1>1, <1>2, ReturnMoves DEF CommandFails, Change, Delete, Read, Moves
<1>3. CASE Filter(c)
  <2>1. CASE Return(c)
    BY <1>1, <2>1, ReturnMoves DEF Moves
  <2>2. CASE ~Return(c)
    <3>1. PICK rest \in SUBSET todo[c] :
            /\ todo' = [todo EXCEPT ![c] = rest]
            /\ again' = [again EXCEPT ![c] = again[c] \cap rest]
      BY <1>3, <2>2 DEF Filter
    <3>2. Goto(c, "run") /\ call' = call /\ pc[c] = "find"
      BY <1>3, <2>2 DEF Filter
    <3> QED
      BY <1>1, <3>1, <3>2 DEF TypeOK, Goto, Moves, GoesOn, Others, Same
  <2> QED
    BY <2>1, <2>2
<1>4. CASE Test(c)
  <2>1. PICK k \in todo[c] :
          IF store[L(c)][k] = 0
          THEN item' = [item EXCEPT ![c] = {k}] /\ Goto(c, "add") /\ call' = call /\ todo' = todo
               /\ again' = again
          ELSE Advance(c, k, "test")
    BY <1>4 DEF Test
  <2>2. pc[c] = "test"
    BY <1>4 DEF Test
  <2>3. CASE store[L(c)][k] = 0
    BY <1>1, <2>1, <2>2, <2>3 DEF TypeOK, Goto, Moves, GoesOn, Others, Same
  <2>4. CASE store[L(c)][k] # 0
    BY <1>1, <2>1, <2>2, <2>4, AdvanceMoves DEF Moves, GoesOn
  <2> QED
    BY <2>3, <2>4
<1>5. CASE Add(c)
  <2>1. pc[c] = "add" /\ (Return(c) \/ \E k \in item[c] : Advance(c, k, "test"))
    BY <1>5 DEF Add
  <2> QED
    BY <1>1, <2>1, ReturnMoves, AdvanceMoves DEF Moves, GoesOn
<1>6. CASE Insert(c)
  <2>1. pc[c] = "run" /\ (Return(c) \/ \E k \in todo[c] : Advance(c, k, "run"))
    BY <1>6 DEF Insert
  <2> QED
    BY <1>1, <2>1, ReturnMoves, AdvanceMoves DEF Moves, GoesOn
<1> QED
  BY <1>2, <1>3, <1>4, <1>5, <1>6

\* The steps outside of a call: only the indexes are touched on the server.
LEMMA OutsideMoves ==
  ASSUME TypeOK, NEW c \in Clients,
         \/ FindClient(c) \/ CreateClient(c) \/ Attach(c) \/ LockIndexes(c)
         \/ EnsureIndex(c) \/ EnsureDone(c) \/ InitFails(c) \/ Close(c)
  PROVE  /\ Others(c) /\ store' = store /\ changed' = changed
         /\ indexed' \in {indexed, TRUE}
         /\ pc'[c] \in {"new", "create", "attach", "lock", "index", "ready"}
         /\ pc'[c] = "ready" => (pc[c] = "lock" /\ ensured) \/ (pc[c] = "index" /\ built[c] = Indexes)
         /\ pc'[c] = "index" => indexed' \/ built'[c] = 0
         /\ ensured' = ensured \/ (pc[c] = "index" /\ built[c] = Indexes)
<1>1. CASE FindClient(c)
  BY <1>1 DEF FindClient, TypeOK, Goto, Others, Same, class, server, own
<1>2. CASE CreateClient(c)
  BY <1>2 DEF CreateClient, TypeOK, Goto, Others, Same, server, own
<1>3. CASE Attach(c)
  BY <1>3 DEF Attach, TypeOK, Goto, Others, Same, class, server
<1>4. CASE LockIndexes(c)
  BY <1>4 DEF LockIndexes, TypeOK, Goto, Others, Same, server
<1>5. CASE EnsureIndex(c)
  BY <1>5 DEF EnsureIndex, TypeOK, Others, Same, class
<1>6. CASE EnsureDone(c)
  BY <1>6 DEF EnsureDone, TypeOK, Goto, Others, Same, server, own
<1>7. CASE InitFails(c)
  BY <1>7 DEF InitFails, TypeOK, Goto, Others, Same, server, own
<1>8. CASE Close(c)
  BY <1>8 DEF Close, TypeOK, Goto, Others, Same, server, own
<1> QED
  BY <1>1, <1>2, <1>3, <1>4, <1>5, <1>6, <1>7, <1>8

LEMMA InvokeMoves ==
  ASSUME TypeOK, NEW c \in Clients, Invoke(c)
  PROVE  /\ Others(c) /\ store' = store /\ changed' = changed
         /\ indexed' = indexed /\ ensured' = ensured
         /\ pc[c] = "ready" /\ call'[c] \in Menu[c] /\ pc'[c] = Started(call'[c].kind)
<1>1. PICK m \in Menu[c], given \in SUBSET Keys, twice \in SUBSET Repeated :
        /\ call' = [call EXCEPT ![c] = m] /\ todo' = [todo EXCEPT ![c] = given]
        /\ again' = [again EXCEPT ![c] = twice]
        /\ Goto(c, Started(m.kind))
  BY DEF Invoke
<1> QED
  BY <1>1 DEF Invoke, TypeOK, Goto, Others, Same, class, server

\* The indexes are there first, and a thread is in a method of its own.
LEMMA ControlStep ==
  ASSUME TypeOK, IndexInv, IndexesFirst, PlaceInv, NEW c \in Clients, Step(c)
  PROVE  IndexInv' /\ IndexesFirst' /\ PlaceInv'
<1>1. CASE \/ CommandFails(c) \/ Filter(c) \/ Test(c) \/ Add(c)
           \/ Insert(c) \/ Change(c) \/ Delete(c) \/ Read(c)
  <2>1. Moves(c)
    BY <1>1, CallMoves
  <2>2. pc[c] \in {"find", "test", "run", "add"} /\ indexed /\ indexed'
    BY <2>1 DEF Moves, IndexesFirst, InCall
  <2>3. pc'[c] = "ready" \/ (pc'[c] \in {"find", "test", "run", "add"} /\ call'[c] = call[c])
    BY <2>1, <2>2 DEF Moves, GoesOn
  <2>4. pc'[c] \in {"test", "add"} => pc[c] \in {"test", "add"} /\ call'[c] = call[c]
    BY <2>1, <2>2 DEF Moves, GoesOn
  <2>5. call[c] \in Menu[c]
    BY <2>1 DEF Moves, PlaceInv
  <2>6. IndexInv' /\ IndexesFirst'
    BY <2>2 DEF IndexInv, IndexesFirst
  <2>7. ASSUME NEW j \in Clients
        PROVE  /\ InCall(j)' => call'[j] \in Menu[j]
               /\ pc'[j] \in {"test", "add"} => call'[j].kind \in {"absent", "upsert"}
    BY <2>1, <2>3, <2>4, <2>5 DEF Moves, Others, Same, PlaceInv, InCall, Kind
  <2> QED
    BY <2>6, <2>7 DEF PlaceInv, Kind
<1>2. CASE \/ FindClient(c) \/ CreateClient(c) \/ Attach(c) \/ LockIndexes(c)
           \/ EnsureIndex(c) \/ EnsureDone(c) \/ InitFails(c) \/ Close(c)
  <2>1. /\ Others(c) /\ indexed' \in {indexed, TRUE}
        /\ pc'[c] \in {"new", "create", "attach", "lock", "index", "ready"}
        /\ pc'[c] = "ready" => (pc[c] = "lock" /\ ensured) \/ (pc[c] = "index" /\ built[c] = Indexes)
        /\ pc'[c] = "index" => indexed' \/ built'[c] = 0
        /\ ensured' = ensured \/ (pc[c] = "index" /\ built[c] = Indexes)
    BY <1>2, OutsideMoves
  <2>2. pc[c] = "index" /\ built[c] = Indexes => indexed
    BY DEF IndexInv, Indexes
  <2>3. pc'[c] = "ready" => indexed
    BY <2>1, <2>2 DEF IndexInv
  <2>4. ensured' => indexed
    BY <2>1, <2>2 DEF IndexInv
  <2>5. indexed => indexed'
    BY <2>1
  <2>6. IndexInv'
    <3> SUFFICES ASSUME NEW j \in Clients, pc'[j] = "index", built'[j] > 0 PROVE indexed'
      BY <2>4, <2>5 DEF IndexInv
    <3> QED
      BY <2>1, <2>5 DEF Others, Same, IndexInv
  <2>7. IndexesFirst'
    <3> SUFFICES ASSUME NEW j \in Clients, pc'[j] \in {"ready", "find", "test", "run", "add"}
                 PROVE  indexed'
      BY DEF IndexesFirst, InCall
    <3> QED
      BY <2>1, <2>3, <2>5 DEF Others, Same, IndexesFirst, InCall
  <2>8. PlaceInv'
    BY <2>1 DEF Others, Same, PlaceInv, InCall, Kind
  <2> QED
    BY <2>6, <2>7, <2>8
<1>3. CASE Invoke(c)
  <2>1. /\ Others(c) /\ indexed' = indexed /\ ensured' = ensured
        /\ pc[c] = "ready" /\ call'[c] \in Menu[c] /\ pc'[c] = Started(call'[c].kind)
    BY <1>3, InvokeMoves
  <2>2. indexed'
    BY <2>1 DEF IndexesFirst
  <2>3. pc'[c] \in {"find", "test", "run"}
        /\ (pc'[c] \in {"test", "add"} => call'[c].kind \in {"absent", "upsert"})
    BY <2>1 DEF Started
  <2>4. PlaceInv'
    BY <2>1, <2>3 DEF Others, Same, PlaceInv, InCall, Kind
  <2> QED
    BY <2>2, <2>4 DEF IndexInv, IndexesFirst
<1> QED
  BY <1>1, <1>2, <1>3 DEF Step

(***************************************************************************)
(* The documents.  Only Add and Insert make more of them.                  *)
(***************************************************************************)
LEMMA PutEffect ==
  ASSUME TypeOK, NEW c \in Clients, NEW k \in Keys, NEW n, Put(L(c), k, n)
  PROVE  \A l \in Colls : \A j \in Keys :
           store'[l][j] = IF l = L(c) /\ j = k THEN n ELSE store[l][j]
BY DEF TypeOK, Put

Adds(c, k) ==
  /\ pc[c] = "add" /\ Put(L(c), k, store[L(c)][k] + 1)
  /\ store[L(c)][k] > 0 => ~(Kind(c) = "upsert" /\ indexed)
Inserted(c, k) ==
  /\ pc[c] = "run" /\ Kind(c) \in {"append", "fresh", "keyed"}
  /\ k \in todo[c] /\ Advance(c, k, "run") /\ Put(L(c), k, store[L(c)][k] + 1)

LEMMA StoreMoves ==
  ASSUME TypeOK, NEW c \in Clients, Step(c)
  PROVE  \/ store' = store
         \/ \A l \in Colls : \A k \in Keys : store'[l][k] \in {store[l][k], 0}
         \/ \E k \in Keys : Adds(c, k)
         \/ Insert(c) /\ \E k \in Keys : Inserted(c, k)
<1>1. CASE Add(c)
  <2>1. PICK k \in item[c] :
          \/ store' = store
          \/ /\ store[L(c)][k] > 0 => ~(Kind(c) = "upsert" /\ indexed)
             /\ Put(L(c), k, store[L(c)][k] + 1)
    BY <1>1 DEF Add
  <2>2. k \in Keys /\ pc[c] = "add"
    BY <1>1 DEF TypeOK, Add
  <2> QED
    BY <2>1, <2>2 DEF Adds
<1>2. CASE Insert(c)
  <2>1. PICK k \in todo[c] : store' = store \/ (Advance(c, k, "run") /\ Put(L(c), k, store[L(c)][k] + 1))
    BY <1>2 DEF Insert
  <2>2. k \in Keys /\ pc[c] = "run" /\ Kind(c) \in {"append", "fresh", "keyed"}
    BY <1>2 DEF TypeOK, Insert
  <2> QED
    BY <1>2, <2>1, <2>2 DEF Inserted
<1>3. CASE Delete(c)
  <2>1. PICK gone : store' = [store EXCEPT ![L(c)] = [k \in Keys |-> IF k \in gone THEN 0 ELSE @[k]]]
    BY <1>3 DEF Delete
  <2> QED
    BY <2>1 DEF TypeOK
<1>4. CASE Invoke(c)
  BY <1>4, InvokeMoves
<1>5. CASE \/ FindClient(c) \/ CreateClient(c) \/ Attach(c) \/ LockIndexes(c)
           \/ EnsureIndex(c) \/ EnsureDone(c) \/ InitFails(c) \/ Close(c)
  BY <1>5, OutsideMoves
<1>6. CASE CommandFails(c) \/ Filter(c) \/ Test(c) \/ Change(c) \/ Read(c)
  BY <1>6 DEF CommandFails, Filter, Test, Change, Read, server
<1> QED
  BY <1>1, <1>2, <1>3, <1>4, <1>5, <1>6 DEF Step

LEMMA FundingStep ==
  ASSUME TypeOK, IndexesFirst, PlaceInv, FundingUnique, NEW c \in Clients, Step(c)
  PROVE  FundingUnique'
<1>1. Funding \in Colls /\ \A k \in Keys : store[Funding][k] \in Nat /\ store[Funding][k] <= 1
  BY FundingColl DEF TypeOK, FundingUnique
<1>2. CASE store' = store
  BY <1>2 DEF FundingUnique
<1>3. CASE \A l \in Colls : \A k \in Keys : store'[l][k] \in {store[l][k], 0}
  BY <1>1, <1>3 DEF FundingUnique
<1>4. ASSUME NEW k \in Keys, Adds(c, k) PROVE FundingUnique'
  <2>1. call[c] \in Menu[c] /\ Kind(c) \in Inserts /\ indexed
    BY <1>4 DEF Adds, PlaceInv, IndexesFirst, InCall, Inserts
  <2>2. L(c) = Funding => Kind(c) = "upsert"
    BY <2>1, FundingAssumption DEF FundingAssumption, L, Kind
  <2>3. L(c) = Funding => store[L(c)][k] = 0
    BY <1>1, <1>4, <2>1, <2>2 DEF Adds
  <2>4. \A j \in Keys : store'[Funding][j] = IF Funding = L(c) /\ j = k THEN store[L(c)][k] + 1
                                               ELSE store[Funding][j]
    BY <1>1, <1>4, PutEffect DEF Adds
  <2> QED
    BY <1>1, <2>3, <2>4 DEF FundingUnique
<1>5. ASSUME NEW k \in Keys, Inserted(c, k) PROVE FundingUnique'
  <2>1. call[c] \in Menu[c] /\ Kind(c) \in Inserts /\ Kind(c) # "upsert"
    BY <1>5 DEF Inserted, PlaceInv, InCall, Inserts
  <2>2. L(c) # Funding
    BY <2>1, FundingAssumption DEF FundingAssumption, L, Kind
  <2>3. \A j \in Keys : store'[Funding][j] = store[Funding][j]
    BY <1>1, <1>5, <2>2, PutEffect DEF Inserted
  <2> QED
    BY <1>1, <2>3 DEF FundingUnique
<1> QED
  BY <1>2, <1>3, <1>4, <1>5, StoreMoves

\* A deposit that is not stored yet may be inserted as often as a list names it.
LEMMA CopiesLeft ==
  ASSUME TypeOK', NEW j \in Clients, NEW k \in Keys
  PROVE  0 + Pending(j, k)' <= Copies(k)
BY DEF TypeOK, Pending, Copies

\* While no deposit is added, those that a thread has not found stay unseen.
LEMMA UnseenSame ==
  ASSUME TypeOK, TypeOK', NEW c \in Clients, Step(c), NEW m \in InsertDeposits, Unseen(m),
         \A k \in Keys : store'[m.coll][k] \in {store[m.coll][k], 0}
  PROVE  Unseen(m)'
<1> SUFFICES ASSUME NEW j \in Clients, pc'[j] = "run", call'[j] = m, NEW k \in todo'[j]
             PROVE  store'[m.coll][k] + Pending(j, k)' <= Copies(k)
  BY DEF Unseen
<1>0. /\ k \in Keys /\ store[m.coll][k] \in Nat
      /\ Pending(j, k) \in {1, 2} /\ Pending(j, k)' \in {1, 2} /\ Copies(k) \in {1, 2}
      /\ (pc[j] = "run" /\ call[j] = m /\ k \in todo[j] =>
            store[m.coll][k] + Pending(j, k) <= Copies(k))
  BY DepositsMethod DEF TypeOK, Pending, Copies, Unseen
<1>a. CASE store'[m.coll][k] = 0
  BY <1>0, <1>a, CopiesLeft
<1>b. CASE /\ pc[j] = "run" /\ call[j] = m /\ k \in todo[j] /\ again'[j] \subseteq again[j]
           /\ store'[m.coll][k] = store[m.coll][k]
  <2>1. Pending(j, k)' <= Pending(j, k)
    BY <1>b DEF Pending
  <2> QED
    BY <1>0, <1>b, <2>1
<1>1. CASE Same(j)
  BY <1>0, <1>1, <1>a, <1>b DEF Same
<1>2. CASE Others(c) /\ j = c
  <2>1. CASE Invoke(c)
    BY <1>2, <2>1, InvokeMoves, DepositsMethod DEF Started
  <2>2. CASE \/ FindClient(c) \/ CreateClient(c) \/ Attach(c) \/ LockIndexes(c)
             \/ EnsureIndex(c) \/ EnsureDone(c) \/ InitFails(c) \/ Close(c)
    BY <1>2, <2>2, OutsideMoves
  <2>3. CASE Filter(c)
    <3>1. ~Return(c)
      BY <1>2, <2>3 DEF Return, Goto, TypeOK
    <3>2. /\ todo' = [todo EXCEPT ![c] = {i \in todo[c] : store[L(c)][i] = 0}]
          /\ call' = call /\ store' = store
      BY <2>3, <3>1 DEF Filter, server
    <3>3. store'[m.coll][k] = 0
      BY <1>2, <3>2 DEF TypeOK, L
    <3> QED
      BY <1>a, <3>3
  <2>4. CASE \/ CommandFails(c) \/ Test(c) \/ Add(c)
             \/ Insert(c) \/ Change(c) \/ Delete(c) \/ Read(c)
    <3>1. Moves(c)
      BY <2>4, CallMoves
    <3>2. pc[c] = "find" => pc'[c] = "ready"
      BY <2>4 DEF CommandFails, Test, Add, Insert, Change, Delete, Read, Return, Goto, TypeOK
    <3>3. pc[c] = "run" /\ call[c] = m /\ todo'[c] \subseteq todo[c] /\ again'[c] \subseteq again[c]
      BY <1>2, <3>1, <3>2 DEF Moves, GoesOn
    <3> QED
      BY <1>0, <1>2, <1>a, <1>b, <3>3
  <2> QED
    BY <2>1, <2>2, <2>3, <2>4 DEF Step
<1> QED
  BY <1>1, <1>2, CallMoves, OutsideMoves, InvokeMoves DEF Step, Moves, Others

LEMMA DepositsStep ==
  ASSUME TypeOK, TypeOK', PlaceInv, DepositsOnce, DepositsInv, NEW c \in Clients, Step(c)
  PROVE  DepositsOnce' /\ DepositsInv'
<1> SUFFICES ASSUME NEW m \in InsertDeposits, OneWriter(m)
             PROVE  (\A k \in Keys : store'[m.coll][k] <= Copies(k)) /\ Unseen(m)'
  BY DEF DepositsOnce, DepositsInv, OneWriter, Copies
<1> USE DepositsMethod
<1>1. Unseen(m) /\ \A k \in Keys : /\ store[m.coll][k] \in Nat /\ Copies(k) \in {1, 2}
                                   /\ store[m.coll][k] <= Copies(k)
  BY DEF DepositsInv, DepositsOnce, OneWriter, TypeOK, Copies
<1>2. ASSUME NEW j \in Clients, call[j] \in Menu[j], L(j) = m.coll, Kind(j) \in Inserts
      PROVE  call[j] = m /\ j \in Writers(m)
  BY <1>2 DEF OneWriter, Writers, L, Kind
<1>3. CASE \A k \in Keys : store'[m.coll][k] \in {store[m.coll][k], 0}
  BY <1>1, <1>3, UnseenSame
<1>4. ASSUME NEW k \in Keys, Adds(c, k) PROVE L(c) # m.coll
  BY <1>2, <1>4 DEF Adds, PlaceInv, InCall, Inserts, Kind
<1>5. ASSUME NEW k \in Keys, Put(L(c), k, store[L(c)][k] + 1), L(c) # m.coll
      PROVE  \A i \in Keys : store'[m.coll][i] = store[m.coll][i]
  BY <1>5, PutEffect
<1>6. ASSUME NEW k \in Keys, Insert(c), Inserted(c, k), L(c) = m.coll
      PROVE  (\A i \in Keys : store'[m.coll][i] <= Copies(i)) /\ Unseen(m)'
  <2>1. call[c] = m /\ c \in Writers(m) /\ pc[c] = "run" /\ k \in todo[c]
    BY <1>2, <1>6 DEF Inserted, PlaceInv, InCall, Inserts
  <2>2. \A i \in Keys : store'[m.coll][i] = IF i = k THEN store[m.coll][k] + 1
                                            ELSE store[m.coll][i]
    BY <1>6, <2>1, PutEffect DEF Inserted
  <2>3. Moves(c)
    BY <1>6, CallMoves
  <2>4. ASSUME NEW j \in Clients \ {c}, pc[j] = "run" PROVE call[j] # m
    <3> SUFFICES ASSUME call[j] = m PROVE FALSE
      OBVIOUS
    <3>1. j \in Writers(m)
      BY <1>2, <2>4 DEF PlaceInv, InCall, L, Kind, Inserts
    <3> QED
      BY <2>1, <3>1 DEF OneWriter
  <2>5. \/ pc'[c] = "ready"
        \/ k \in again[c] /\ again'[c] = again[c] \ {k} /\ todo'[c] = todo[c]
        \/ k \notin again[c] /\ again'[c] = again[c] /\ todo'[c] = todo[c] \ {k}
    <3>1. Advance(c, k, "run") /\ built' = built
      BY <1>6 DEF Inserted, Insert
    <3> QED
      BY <3>1, AdvanceMoves
  <2>6. \A i \in todo[c] : store[m.coll][i] + Pending(c, i) <= Copies(i)
    BY <1>1, <2>1 DEF Unseen
  <2>7. \A i \in Keys : Pending(c, i) \in {1, 2} /\ Pending(c, i)' \in {1, 2}
    BY DEF Pending
  <2>8. \A i \in Keys : store'[m.coll][i] <= Copies(i)
    BY <1>1, <2>1, <2>2, <2>6, <2>7
  <2>9. Unseen(m)'
    <3> SUFFICES ASSUME NEW j \in Clients, pc'[j] = "run", call'[j] = m, NEW i \in todo'[j]
                 PROVE  store'[m.coll][i] + Pending(j, i)' <= Copies(i)
      BY DEF Unseen
    <3>1. j = c
      BY <2>3, <2>4 DEF Moves, Others, Same
    <3>2. i \in todo[c] /\ i \in Keys
      BY <2>5, <3>1 DEF TypeOK
    <3>3. CASE i = k
      <4>1. Pending(c, k) = 2 /\ Pending(c, k)' = 1
        BY <2>5, <3>1, <3>3 DEF Pending
      <4> QED
        BY <1>1, <2>1, <2>2, <2>6, <3>1, <3>2, <3>3, <4>1
    <3>4. CASE i # k
      <4>1. Pending(c, i)' = Pending(c, i)
        BY <2>5, <3>1, <3>4 DEF Pending
      <4> QED
        BY <2>2, <2>6, <3>1, <3>2, <3>4, <4>1
    <3> QED
      BY <3>3, <3>4
  <2> QED
    BY <2>8, <2>9
<1>7. CASE store' = store
  BY <1>3, <1>7
<1>8. CASE \A l \in Colls : \A k \in Keys : store'[l][k] \in {store[l][k], 0}
  BY <1>3, <1>8
<1>9. CASE \E k \in Keys : Adds(c, k)
  BY <1>3, <1>4, <1>5, <1>9 DEF Adds
<1>10. CASE Insert(c) /\ \E k \in Keys : Inserted(c, k)
  BY <1>3, <1>5, <1>6, <1>10 DEF Inserted
<1> QED
  BY <1>7, <1>8, <1>9, <1>10, StoreMoves

LEMMA InvStep == IInv /\ [Next]_vars => IInv'
<1> SUFFICES ASSUME IInv, [Next]_vars PROVE IInv'
  OBVIOUS
<1>1. TypeOK'
  BY TypeStep DEF IInv
<1>2. ASSUME NEW c \in Clients, Step(c) PROVE IInv'
  BY <1>1, <1>2, ControlStep, FundingStep, DepositsStep DEF IInv
<1>3. CASE UNCHANGED vars
  BY <1>1, <1>3 DEF IInv, vars, class, server, own, counters, IndexInv, IndexesFirst, PlaceInv,
     FundingUnique, DepositsOnce, DepositsInv, Unseen, Pending, InCall, Kind
<1> QED
  BY <1>2, <1>3 DEF Next, Step

LEMMA Inductive == Spec => []IInv
  BY InitInv, InvStep, PTL DEF Spec

-----------------------------------------------------------------------------
\* No method runs before the unique index of the funding rates exists, for any
\* number of threads that make instances, fail or close the shared client.
THEOREM IndexesBeforeCalls == Spec => []IndexesFirst
<1>1. IInv => IndexesFirst
  BY DEF IInv
<1> QED
  BY <1>1, Inductive, PTL

\* Any number of threads that insert the same funding rates, and insert them
\* again after failures, leave one document for each time.
THEOREM RatesAreUnique == Spec => []FundingUnique
<1>1. IInv => FundingUnique
  BY DEF IInv
<1> QED
  BY <1>1, Inductive, PTL

\* One writer stores every deposit as often as one of its lists names it, once
\* if none names it twice, however its calls overlap with those of other threads
\* and wherever they fail and are repeated.
THEOREM DepositsAreStoredOnce == Spec => []DepositsOnce
<1>1. IInv => DepositsOnce
  BY DEF IInv
<1> QED
  BY <1>1, Inductive, PTL

\* What an update has changed in a record is undone by deleting it only.
THEOREM UpdatesAreKept == Spec => UpdatesStay
<1> DEFINE A == \A l \in KeyedColls, k \in Keys :
                  k \in changed[l] /\ k \notin changed'[l] => store'[l][k] = 0
<1>1. IInv /\ [Next]_vars => [A]_vars
  <2> SUFFICES ASSUME IInv, NEW c \in Clients, Step(c), NEW l \in KeyedColls, NEW k \in Keys,
                      k \in changed[l], k \notin changed'[l]
               PROVE  store'[l][k] = 0
    BY DEF Next, Step
  <2>1. TypeOK /\ PlaceInv /\ l \in Colls /\ l # Funding
    BY UpsertTable DEF IInv, KeyedColls, Colls
  <2>2. CASE Test(c)
    <3>1. Kind(c) = "upsert" /\ changed' = [changed EXCEPT ![L(c)] = changed'[L(c)]]
      BY <2>1, <2>2 DEF Test, TypeOK
    <3>2. call[c] \in AllMethods
      BY <2>1, <2>2, ConstantsAssumption DEF Test, PlaceInv, InCall, ConstantsAssumption
    <3>3. L(c) = Funding
      BY <3>1, <3>2, UpsertTable DEF L, Kind
    <3> QED
      BY <2>1, <3>1, <3>3 DEF TypeOK
  <2>3. CASE Delete(c)
    <3>1. PICK gone :
            /\ store' = [store EXCEPT ![L(c)] = [i \in Keys |-> IF i \in gone THEN 0 ELSE @[i]]]
            /\ changed' = [changed EXCEPT ![L(c)] = @ \ gone]
      BY <2>3 DEF Delete
    <3> QED
      BY <2>1, <3>1 DEF TypeOK
  <2>4. CASE Change(c)
    <3>1. PICK hit : changed' = [changed EXCEPT ![L(c)] = @ \cup (hit \cap Present(L(c)))]
      BY <2>4 DEF Change
    <3> QED
      BY <2>1, <3>1 DEF TypeOK
  <2>5. CASE Invoke(c)
    BY <2>1, <2>5, InvokeMoves
  <2>6. CASE \/ FindClient(c) \/ CreateClient(c) \/ Attach(c) \/ LockIndexes(c)
             \/ EnsureIndex(c) \/ EnsureDone(c) \/ InitFails(c) \/ Close(c)
    BY <2>1, <2>6, OutsideMoves
  <2>7. CASE CommandFails(c) \/ Filter(c) \/ Add(c) \/ Insert(c) \/ Read(c)
    BY <2>7 DEF CommandFails, Filter, Add, Insert, Read, server
  <2> QED
    BY <2>2, <2>3, <2>4, <2>5, <2>6, <2>7 DEF Step
<1> QED
  BY <1>1, Inductive, PTL DEF Spec, UpdatesStay

=============================================================================
