----------------------- MODULE ListenKeyRenewalProofs -----------------------
(***************************************************************************)
(* Theorems about ListenKeyRenewal, for every number of managers, every    *)
(* length of the sleeps and of a key's life and any number of faults.      *)
(***************************************************************************)
EXTENDS ListenKeyRenewal, TLAPS

LEMMA InitTypeOK == Init => TypeOK
  BY ConstantsAssumption DEF ConstantsAssumption, Init, TypeOK, Kinds

LEMMA Sleeps ==
  /\ ws_ping_sleep \in Nat /\ ws_ping_sleep > 0
  /\ reconnection_time_sleep \in Nat /\ reconnection_time_sleep > 0
  /\ ws_listen_key_sleep \in Nat /\ MaxFaults \in Nat
<1>1. /\ ws_ping_sleep \in Nat \ {0}
      /\ reconnection_time_sleep \in Nat \ {0}
      /\ ws_listen_key_sleep \in Nat \ {0}
  BY ConstantsAssumption, Zenon DEF ConstantsAssumption
<1>2. MaxFaults \in Nat
  BY ConstantsAssumption, Zenon DEF ConstantsAssumption
<1> QED
  BY <1>1, <1>2

LEMMA KindIsAKind == \A m \in Managers : Kind(m) \in Kinds
  BY DEF Kind, Kinds

LEMMA NextKeyIsAKey ==
  ASSUME TypeOK, NEW m \in Managers
  PROVE  NextKey(m) \in Keys /\ NextKey(m) # None
<1>1. made[m] + 1 \in Nat \ {0}
  BY DEF TypeOK
<1>2. [account |-> m, n |-> made[m] + 1] \in Keys
  BY <1>1 DEF Keys
<1>3. key[m] # None => key[m] \in Keys
  BY DEF TypeOK
<1> QED
  BY <1>2, <1>3, ConstantsAssumption DEF NextKey, ConstantsAssumption, Keys

\* What Grant and Extend leave of the exchange is of its type.
LEMMA GrantType ==
  ASSUME TypeOK, NEW m \in Managers, Grant(m)
  PROVE  /\ key' \in [Managers -> Keys \cup {None}]
         /\ left' \in [Managers -> 0..KeyLife]
         /\ made' \in [Managers -> Nat]
<1>1. NextKey(m) \in Keys
  BY NextKeyIsAKey
<1>2. NextKey(m).n \in Nat
  BY <1>1 DEF Keys
<1>3. KeyLife \in 0..KeyLife
  BY ConstantsAssumption DEF ConstantsAssumption
<1> QED
  BY <1>1, <1>2, <1>3 DEF Grant, TypeOK

LEMMA ExtendType ==
  ASSUME TypeOK, NEW m \in Managers, Extend(m)
  PROVE  /\ key' \in [Managers -> Keys \cup {None}]
         /\ left' \in [Managers -> 0..KeyLife]
         /\ made' \in [Managers -> Nat]
  BY ConstantsAssumption DEF ConstantsAssumption, Extend, TypeOK

LEMMA PassesType == TypeOK /\ Passes => TypeOK'
<1> SUFFICES ASSUME TypeOK, Passes PROVE TypeOK'
  OBVIOUS
<1>1. PICK d \in {wake[m] : m \in Asleep} :
        /\ d > 0
        /\ \A m \in Asleep : d <= wake[m]
        /\ wake' = [m \in Managers |-> IF m \in Asleep THEN wake[m] - d ELSE 0]
        /\ since' = [m \in Managers |-> IF m \in Asleep THEN since[m] + d ELSE 0]
        /\ left' = [m \in Managers |-> IF left[m] > d THEN left[m] - d ELSE 0]
        /\ key' = [m \in Managers |-> IF left[m] > d THEN key[m] ELSE None]
        /\ dark' = [m \in Managers |->
                      IF ~Delivering(m) THEN dark[m] + d
                      ELSE IF left[m] > d THEN 0 ELSE d - left[m]]
  BY DEF Passes
<1>2. d \in Nat
  BY DEF TypeOK, Asleep
<1>3. \A m \in Managers : left[m] \in Nat /\ left[m] <= KeyLife /\ wake[m] \in Nat
                          /\ since[m] \in Nat /\ dark[m] \in Nat
  BY ConstantsAssumption DEF TypeOK, ConstantsAssumption
<1>4. wake' \in [Managers -> Nat] /\ since' \in [Managers -> Nat]
  BY <1>1, <1>2, <1>3
<1>5. left' \in [Managers -> 0..KeyLife]
  BY <1>1, <1>2, <1>3, ConstantsAssumption DEF ConstantsAssumption
<1>6. key' \in [Managers -> Keys \cup {None}]
  BY <1>1 DEF TypeOK
<1>7. dark' \in [Managers -> Nat]
  BY <1>1, <1>2, <1>3
<1> QED
  BY <1>4, <1>5, <1>6, <1>7 DEF TypeOK, Passes

LEMMA WriteType ==
  ASSUME TypeOK, NEW m \in Managers, Write(m)
  PROVE  /\ listenKey' \in [Kinds -> Keys \cup {None}]
         /\ overtaken' \in [Managers -> Nat]
  BY NextKeyIsAKey, KindIsAKind DEF Write, TypeOK

LEMMA TypeStep == TypeOK /\ [Next]_vars => TypeOK'
<1> SUFFICES ASSUME TypeOK, [Next]_vars PROVE TypeOK'
  OBVIOUS
<1> USE DEF Goto, Fault, exchangeVars
<1>1. ASSUME NEW m \in Managers, Post(m)
     PROVE  TypeOK'
  BY <1>1, GrantType, WriteType DEF Post, TypeOK
<1>2. ASSUME NEW m \in Managers, PostFails(m)
     PROVE  TypeOK'
  BY <1>2, GrantType, ConstantsAssumption DEF PostFails, TypeOK,
     ConstantsAssumption
<1>3. ASSUME NEW m \in Managers, Bind(m)
     PROVE  TypeOK'
  BY <1>3, KindIsAKind DEF Bind, TypeOK
<1>4. ASSUME NEW m \in Managers, PutOk(m)
     PROVE  TypeOK'
  BY <1>4, ExtendType DEF PutOk, TypeOK
<1>5. ASSUME NEW m \in Managers, PutRefused(m)
     PROVE  TypeOK'
  BY <1>5 DEF PutRefused, TypeOK
<1>6. ASSUME NEW m \in Managers, PutLost(m)
     PROVE  TypeOK'
  BY <1>6, ExtendType, ConstantsAssumption DEF PutLost, TypeOK,
     ConstantsAssumption
<1>7. ASSUME NEW m \in Managers, Repost(m)
     PROVE  TypeOK'
  BY <1>7, GrantType, WriteType DEF Repost, TypeOK
<1>8. ASSUME NEW m \in Managers, RepostFails(m)
     PROVE  TypeOK'
  <2>1. /\ key' \in [Managers -> Keys \cup {None}] /\ left' \in [Managers -> 0..KeyLife]
        /\ made' \in [Managers -> Nat]
    BY <1>8, GrantType DEF RepostFails, TypeOK
  <2>2. wake' \in [Managers -> Nat] /\ faults' \in 0..MaxFaults
    BY <1>8, Sleeps DEF RepostFails, TypeOK
  <2> QED
    BY <1>8, <2>1, <2>2 DEF RepostFails, TypeOK
<1>9. ASSUME NEW m \in Managers, Check(m)
     PROVE  TypeOK'
  BY <1>9, ConstantsAssumption DEF Check, TypeOK, ConstantsAssumption
<1>10. ASSUME NEW m \in Managers, Wakes(m)
      PROVE  TypeOK'
  BY <1>10 DEF Wakes, TypeOK
<1>11. CASE Passes
  BY <1>11, PassesType
<1>12. CASE UNCHANGED vars
  BY <1>12 DEF vars, TypeOK
<1> QED
  BY <1>1, <1>2, <1>3, <1>4, <1>5, <1>6, <1>7, <1>8, <1>9, <1>10, <1>11,
     <1>12 DEF Next, Manager

\* Every variable keeps its type, the nesting of subscribe included
\* (BinanceWsManager).
THEOREM TypeCorrect == Spec => []TypeOK
<1>1. Init => TypeOK
  BY InitTypeOK
<1>2. TypeOK /\ [Next]_vars => TypeOK'
  BY TypeStep
<1> QED
  BY <1>1, <1>2, PTL DEF Spec

-----------------------------------------------------------------------------
(***************************************************************************)
(* The entry of _listen_key a manager reads back is the one it wrote,      *)
(* unless another manager of its kind has written it in between.           *)
(***************************************************************************)
LEMMA AlikeKinds ==
  \A m, o \in Managers : m # o => (Alike(m, o) <=> Kind(m) = Kind(o))
  BY DEF Alike, Kind

LEMMA WriteEffect ==
  ASSUME TypeOK, NEW m \in Managers, Write(m), NEW n \in Managers
  PROVE  /\ overtaken'[n] \in {overtaken[n], overtaken[n] + 1}
         /\ n # m /\ pc[n] = "bind" =>
              \/ listenKey'[Kind(n)] = listenKey[Kind(n)] /\ overtaken'[n] = overtaken[n]
              \/ overtaken'[n] = overtaken[n] + 1
         /\ pc[n] # "bind" \/ n = m => overtaken'[n] = overtaken[n]
         /\ listenKey'[Kind(m)] = NextKey(m)
<1>1. overtaken'[n] = IF Alike(m, n) /\ pc[n] = "bind" THEN overtaken[n] + 1 ELSE overtaken[n]
  BY DEF Write
<1>2. ~Alike(m, m)
  BY DEF Alike
<1>3. n # m /\ ~Alike(m, n) => listenKey'[Kind(n)] = listenKey[Kind(n)]
  BY AlikeKinds, KindIsAKind DEF Write, TypeOK
<1>4. listenKey'[Kind(m)] = NextKey(m)
  BY KindIsAKind DEF Write, TypeOK
<1> QED
  BY <1>1, <1>2, <1>3, <1>4

\* A key of the exchange is its account's own, and so is what a manager reads
\* back and streams if nobody has overtaken it.
OwnKeys(m) ==
  /\ key[m] # None => key[m].account = m
  /\ overtaken[m] = 0 =>
       /\ pc[m] = "bind" => listenKey[Kind(m)].account = m
       /\ stream[m] # None => stream[m].account = m

OwnInv == \A m \in Managers : OwnKeys(m)

LEMMA NextKeyIsOwn ==
  ASSUME OwnInv, NEW m \in Managers
  PROVE  NextKey(m).account = m
  BY DEF NextKey, OwnInv, OwnKeys

LEMMA OwnStep == TypeOK /\ OwnInv /\ [Next]_vars => OwnInv'
<1> SUFFICES ASSUME TypeOK, OwnInv, [Next]_vars, NEW n \in Managers PROVE OwnKeys(n)'
  BY DEF OwnInv
<1> USE KindIsAKind DEF Goto, exchangeVars
<1>a. OwnKeys(n) /\ overtaken[n] \in Nat
  BY DEF OwnInv, TypeOK
<1>1. ASSUME NEW m \in Managers, Post(m) PROVE OwnKeys(n)'
  BY <1>1, <1>a, WriteEffect, NextKeyIsOwn DEF Post, OwnKeys, TypeOK, Grant
<1>2. ASSUME NEW m \in Managers, PostFails(m) PROVE OwnKeys(n)'
  BY <1>2, <1>a, NextKeyIsOwn DEF PostFails, OwnKeys, TypeOK, Grant
<1>3. ASSUME NEW m \in Managers, Bind(m) PROVE OwnKeys(n)'
  BY <1>3, <1>a DEF Bind, OwnKeys, TypeOK
<1>4. ASSUME NEW m \in Managers, PutOk(m) PROVE OwnKeys(n)'
  BY <1>4, <1>a DEF PutOk, OwnKeys, TypeOK, Extend
<1>5. ASSUME NEW m \in Managers, PutRefused(m) PROVE OwnKeys(n)'
  BY <1>5, <1>a DEF PutRefused, OwnKeys, TypeOK
<1>6. ASSUME NEW m \in Managers, PutLost(m) PROVE OwnKeys(n)'
  BY <1>6, <1>a DEF PutLost, OwnKeys, TypeOK, Extend
<1>7. ASSUME NEW m \in Managers, Repost(m) PROVE OwnKeys(n)'
  BY <1>7, <1>a, WriteEffect, NextKeyIsOwn DEF Repost, OwnKeys, TypeOK, Grant
<1>8. ASSUME NEW m \in Managers, RepostFails(m) PROVE OwnKeys(n)'
  BY <1>8, <1>a, NextKeyIsOwn DEF RepostFails, OwnKeys, TypeOK, Grant
<1>9. ASSUME NEW m \in Managers, Check(m) PROVE OwnKeys(n)'
  BY <1>9, <1>a DEF Check, OwnKeys, TypeOK
<1>10. ASSUME NEW m \in Managers, Wakes(m) PROVE OwnKeys(n)'
  BY <1>10, <1>a DEF Wakes, OwnKeys, TypeOK
<1>11. CASE Passes
  BY <1>11, <1>a DEF Passes, OwnKeys, Kind
<1>12. CASE UNCHANGED vars
  BY <1>12, <1>a DEF vars, OwnKeys, Kind
<1> QED
  BY <1>1, <1>2, <1>3, <1>4, <1>5, <1>6, <1>7, <1>8, <1>9, <1>10, <1>11, <1>12
     DEF Next, Manager

\* However many managers share _listen_key, whatever is lost and however their
\* threads interleave: only a manager that was overtaken between its
\* post_listen_key and its read streams another account (subscribe).
THEOREM OnlyOvertakenGoAstray == Spec => []OwnEvents
<1>1. Init => TypeOK /\ OwnInv
  BY InitTypeOK DEF Init, OwnInv, OwnKeys
<1>2. TypeOK /\ OwnInv /\ [Next]_vars => (TypeOK /\ OwnInv)'
  BY TypeStep, OwnStep
<1>3. TypeOK /\ OwnInv => OwnEvents
  BY DEF OwnInv, OwnKeys, OwnEvents
<1> QED
  BY <1>1, <1>2, <1>3, PTL DEF Spec

-----------------------------------------------------------------------------
\* What a manager has at each point of its renewal while nothing was lost and
\* nobody has overtaken it.  Asleep, the key outlives the sleep by what
\* ws_ping_sleep leaves of it.
InStep(m) ==
  /\ pc[m] = "post" => dark[m] = 0
  /\ pc[m] \in {"bind", "put", "repost", "check", "asleep"} =>
       key[m] # None /\ left[m] > 0 /\ dark[m] = 0
  /\ pc[m] = "bind" => listenKey[Kind(m)] = key[m]
  /\ pc[m] \in {"put", "repost", "check", "asleep"} => stream[m] = key[m]
  /\ pc[m] = "check" => left[m] = KeyLife
  /\ pc[m] = "asleep" => left[m] = KeyLife - ws_ping_sleep + wake[m]

RenewalInv == faults = 0 => \A m \in Managers : overtaken[m] = 0 => InStep(m)

LEMMA RenewalStep ==
  ASSUME ws_ping_sleep < KeyLife, TypeOK, RenewalInv, [Next]_vars
  PROVE  RenewalInv'
<1> SUFFICES ASSUME faults' = 0, NEW n \in Managers, overtaken'[n] = 0 PROVE InStep(n)'
  BY DEF RenewalInv
<1> USE KindIsAKind, ConstantsAssumption DEF ConstantsAssumption, Goto
<1>a. faults \in Nat /\ ~Fault /\ overtaken[n] \in Nat
  BY DEF TypeOK, Fault
<1>b. faults = 0 /\ overtaken[n] = 0 => InStep(n)
  BY DEF RenewalInv
<1>1. ASSUME NEW m \in Managers, Post(m) PROVE InStep(n)'
  BY <1>1, <1>a, <1>b, WriteEffect, NextKeyIsAKey DEF Post, InStep, TypeOK, exchangeVars, Grant, NextKey
<1>2. ASSUME NEW m \in Managers, PostFails(m) PROVE InStep(n)'
  BY <1>2, <1>a DEF PostFails
<1>3. ASSUME NEW m \in Managers, Bind(m) PROVE InStep(n)'
  BY <1>3, <1>b DEF Bind, InStep, TypeOK, exchangeVars
<1>4. ASSUME NEW m \in Managers, PutOk(m) PROVE InStep(n)'
  BY <1>4, <1>b DEF PutOk, InStep, TypeOK, exchangeVars, Extend
<1>5. ASSUME NEW m \in Managers, PutRefused(m) PROVE InStep(n)'
  BY <1>5, <1>b DEF PutRefused, InStep, TypeOK, exchangeVars
<1>6. ASSUME NEW m \in Managers, PutLost(m) PROVE InStep(n)'
  BY <1>6, <1>a DEF PutLost
<1>7. ASSUME NEW m \in Managers, Repost(m) PROVE InStep(n)'
  <2>1. overtaken[n] = 0 /\ faults = 0 /\ InStep(n)
    BY <1>7, <1>a, <1>b, WriteEffect DEF Repost
  <2>2. CASE n = m
    <3>1. /\ pc[n] = "repost" /\ pc'[n] = "check" /\ stream'[n] = stream[n] /\ dark'[n] = dark[n]
      BY <1>7, <2>2 DEF Repost, TypeOK
    <3>2. key[n] # None /\ key'[n] = key[n] /\ left'[n] = KeyLife
      BY <1>7, <2>1, <2>2, <3>1 DEF Repost, Grant, TypeOK, NextKey, InStep
    <3> QED
      BY <2>1, <3>1, <3>2 DEF InStep
  <2>3. CASE n # m
    <3>1. /\ pc'[n] = pc[n] /\ stream'[n] = stream[n] /\ dark'[n] = dark[n] /\ key'[n] = key[n]
          /\ left'[n] = left[n] /\ wake'[n] = wake[n]
      BY <1>7, <2>3 DEF Repost, Grant, TypeOK
    <3>2. pc[n] = "bind" => listenKey'[Kind(n)] = listenKey[Kind(n)]
      BY <1>7, <2>1, <2>3, WriteEffect DEF Repost
    <3> QED
      BY <2>1, <3>1, <3>2 DEF InStep, Kind
  <2> QED
    BY <2>2, <2>3
<1>8. ASSUME NEW m \in Managers, RepostFails(m) PROVE InStep(n)'
  BY <1>8, <1>a DEF RepostFails
<1>9. ASSUME NEW m \in Managers, Check(m) PROVE InStep(n)'
  BY <1>9, <1>b DEF Check, InStep, TypeOK, exchangeVars
<1>10. ASSUME NEW m \in Managers, Wakes(m) PROVE InStep(n)'
  BY <1>10, <1>b DEF Wakes, InStep, TypeOK, exchangeVars
<1>11. CASE Passes
  <2>1. PICK d \in {wake[m] : m \in Asleep} :
          /\ d > 0
          /\ \A m \in Asleep : d <= wake[m]
          /\ wake' = [m \in Managers |-> IF m \in Asleep THEN wake[m] - d ELSE 0]
          /\ left' = [m \in Managers |-> IF left[m] > d THEN left[m] - d ELSE 0]
          /\ key' = [m \in Managers |-> IF left[m] > d THEN key[m] ELSE None]
          /\ dark' = [m \in Managers |->
                        IF ~Delivering(m) THEN dark[m] + d
                        ELSE IF left[m] > d THEN 0 ELSE d - left[m]]
    BY <1>11 DEF Passes
  <2>2. d \in Nat
    BY DEF TypeOK, Asleep
  <2>3. UNCHANGED <<listenKey, pc, stream, overtaken, faults>> /\ faults = 0
    BY <1>11 DEF Passes
  <2>4. CASE n \notin Asleep
    <3>1. pc[n] = "over"
      BY <2>4, <1>11 DEF Passes, Asleep
    <3> QED
      BY <3>1, <2>3 DEF InStep
  <2>5. CASE n \in Asleep
    <3>1. /\ key[n] # None /\ stream[n] = key[n]
          /\ left[n] = KeyLife - ws_ping_sleep + wake[n] /\ pc[n] = "asleep"
          /\ dark[n] = 0
      BY <2>5, <2>3, <1>b DEF InStep, Asleep
    <3>2. d <= wake[n] /\ left[n] \in Nat /\ wake[n] \in Nat
      BY <2>1, <2>5 DEF TypeOK
    <3>3. d < left[n]
      BY <2>2, <3>1, <3>2
    <3>4. /\ key'[n] = key[n] /\ left'[n] = left[n] - d /\ wake'[n] = wake[n] - d
          /\ dark'[n] = 0
      BY <2>1, <2>5, <3>1, <3>3 DEF Delivering
    <3> QED
      BY <2>2, <2>3, <3>1, <3>2, <3>3, <3>4 DEF InStep, Kind
  <2> QED
    BY <2>4, <2>5
<1>12. CASE UNCHANGED vars
  BY <1>12, <1>b DEF vars, exchangeVars, InStep, Kind
<1> QED
  BY <1>1, <1>2, <1>3, <1>4, <1>5, <1>6, <1>7, <1>8, <1>9, <1>10, <1>11, <1>12
     DEF Next, Manager

\* _ping keeps the key alive often enough: with keep-alives closer than the
\* life of a key and no request lost, no renewal ever leaves a gap in the
\* events of a manager that is not overtaken, however many share the
\* dictionary (put_listen_key, _ping, subscribe).
THEOREM KeepAliveSuffices ==
  ASSUME ws_ping_sleep < KeyLife
  PROVE  Spec => []Uninterrupted
<1>1. Init => TypeOK /\ RenewalInv
  BY InitTypeOK DEF Init, RenewalInv, InStep
<1>2. TypeOK /\ RenewalInv /\ [Next]_vars => (TypeOK /\ RenewalInv)'
  BY TypeStep, RenewalStep
<1>3. TypeOK /\ RenewalInv => Uninterrupted
  BY DEF RenewalInv, InStep, Uninterrupted, Delivering
<1> QED
  BY <1>1, <1>2, <1>3, PTL DEF Spec

-----------------------------------------------------------------------------
(***************************************************************************)
(* How long a stream can be dark.  A manager lacks events for no longer    *)
(* than since _ping was called, but for what overtaking and retries, which *)
(* do not look at the clock, have cost it.                                 *)
(***************************************************************************)
Owed(f, o) == o * Period + f * ws_listen_key_sleep
Limit(f) == Period + f * ws_listen_key_sleep

Repairs(m) ==
  LET owed == Owed(faults, overtaken[m]) IN
  /\ pc[m] = "bind" => key[m] # None /\ (listenKey[Kind(m)] = key[m] \/ dark[m] <= owed)
  /\ pc[m] \in {"put", "repost", "check", "asleep"} =>
       Delivering(m) \/ dark[m] <= since[m] + owed
  /\ dark[m] <= Period + owed /\ since[m] <= Limit(faults)
  /\ pc[m] = "asleep" =>
       /\ since[m] + wake[m] <= Limit(faults)
       /\ Delivering(m) \/ dark[m] + wake[m] <= Period + owed

RepairInv == \A m \in Managers : pc[m] # "over" => Repairs(m)

LEMMA Products ==
  /\ \A a, b \in Nat : a * b \in Nat /\ (a + 1) * b = a * b + b
  /\ \A a, b, c \in Nat : a <= c => a * b <= c * b
<1>1. \A a, b \in Nat : a * b \in Nat
  BY SMT
<1>2. \A a, b \in Nat : (a + 1) * b = a * b + b
  BY SMT
<1>3. \A a, b, c \in Nat : a <= c => a * b <= c * b
  BY SMT
<1> QED
  BY <1>1, <1>2, <1>3

LEMMA OwedGrows ==
  ASSUME NEW f \in Nat, NEW o \in Nat
  PROVE  /\ Period \in Nat /\ Period = reconnection_time_sleep + ws_ping_sleep
         /\ Owed(f, o) \in Nat /\ Limit(f) \in Nat
         /\ Owed(f + 1, o) = Owed(f, o) + ws_listen_key_sleep
         /\ Owed(f, o + 1) = Owed(f, o) + Period
         /\ Limit(f + 1) = Limit(f) + ws_listen_key_sleep
         /\ Limit(f) >= Period /\ Limit(f) <= Period + Owed(f, o)
<1> DEFINE p == f * ws_listen_key_sleep
           q == (f + 1) * ws_listen_key_sleep
           u == o * Period
           v == (o + 1) * Period
<1>1. Period \in Nat /\ Period = reconnection_time_sleep + ws_ping_sleep
  BY Sleeps DEF Period
<1>2. p \in Nat /\ q = p + ws_listen_key_sleep /\ u \in Nat /\ v = u + Period
  BY <1>1, Products, Sleeps
<1>3. /\ Owed(f, o) = u + p /\ Owed(f + 1, o) = u + q /\ Owed(f, o + 1) = v + p
      /\ Limit(f) = Period + p /\ Limit(f + 1) = Period + q
  BY DEF Owed, Limit
<1> HIDE DEF p, q, u, v
<1> QED
  BY <1>1, <1>2, <1>3, Sleeps

\* A step of another manager takes nothing from manager n but the entry of the
\* dictionary, and that is counted.
LEMMA OthersRepair ==
  ASSUME TypeOK, NEW n \in Managers, Repairs(n),
         key'[n] = key[n], stream'[n] = stream[n], dark'[n] = dark[n],
         since'[n] = since[n], wake'[n] = wake[n], pc'[n] = pc[n],
         faults' = faults \/ Fault,
         \/ /\ overtaken'[n] = overtaken[n]
            /\ pc[n] = "bind" => listenKey'[Kind(n)] = listenKey[Kind(n)]
         \/ overtaken'[n] = overtaken[n] + 1 /\ faults' = faults
  PROVE  Repairs(n)'
<1> DEFINE a == Owed(faults, overtaken[n])
           b == Owed(faults', overtaken'[n])
<1>1. /\ faults \in Nat /\ overtaken[n] \in Nat /\ dark[n] \in Nat /\ since[n] \in Nat
      /\ wake[n] \in Nat
  BY Sleeps DEF TypeOK
<1>2. ws_listen_key_sleep \in Nat /\ MaxFaults \in Nat
  BY Sleeps
<1>3. /\ a \in Nat /\ b \in Nat /\ a <= b /\ Period \in Nat
      /\ Limit(faults) \in Nat /\ Limit(faults') \in Nat /\ Limit(faults) <= Limit(faults')
      /\ overtaken'[n] = overtaken[n] + 1 => a + Period = b
  <2>1. /\ a \in Nat /\ Period \in Nat /\ Limit(faults) \in Nat
        /\ Limit(faults + 1) = Limit(faults) + ws_listen_key_sleep
        /\ Owed(faults + 1, overtaken[n]) = a + ws_listen_key_sleep
        /\ Owed(faults, overtaken[n] + 1) = a + Period
    BY <1>1, OwedGrows
  <2>2. CASE overtaken'[n] = overtaken[n] /\ faults' = faults
    <3>1. b = a
      BY <2>2
    <3> HIDE DEF a, b
    <3> QED
      BY <1>1, <2>1, <2>2, <3>1
  <2>3. CASE overtaken'[n] = overtaken[n] /\ Fault
    <3>1. faults' = faults + 1
      BY <2>3 DEF Fault
    <3>2. b = a + ws_listen_key_sleep
      BY <2>1, <2>3, <3>1
    <3>3. Limit(faults') = Limit(faults) + ws_listen_key_sleep
      BY <2>1, <3>1
    <3> HIDE DEF a, b
    <3> QED
      BY <1>1, <1>2, <2>1, <2>3, <3>2, <3>3
  <2>4. CASE overtaken'[n] = overtaken[n] + 1 /\ faults' = faults
    <3>1. b = a + Period
      BY <2>1, <2>4
    <3> HIDE DEF a, b
    <3> QED
      BY <1>1, <2>1, <2>4, <3>1
  <2> QED
    BY <2>2, <2>3, <2>4
<1>4. /\ pc[n] = "bind" => key[n] # None /\ (listenKey[Kind(n)] = key[n] \/ dark[n] <= a)
      /\ pc[n] \in {"put", "repost", "check", "asleep"} => Delivering(n) \/ dark[n] <= since[n] + a
      /\ dark[n] <= Period + a /\ since[n] <= Limit(faults)
      /\ pc[n] = "asleep" =>
           /\ since[n] + wake[n] <= Limit(faults)
           /\ Delivering(n) \/ dark[n] + wake[n] <= Period + a
  BY DEF Repairs
<1>5. Delivering(n)' <=> Delivering(n)
  BY DEF Delivering
<1>6. Kind(n)' = Kind(n)
  BY DEF Kind
<1> HIDE DEF a, b
<1>7. /\ pc'[n] = "bind" => key'[n] # None /\ (listenKey'[Kind(n)] = key'[n] \/ dark'[n] <= b)
      /\ pc'[n] \in {"put", "repost", "check", "asleep"} =>
           Delivering(n)' \/ dark'[n] <= since'[n] + b
      /\ dark'[n] <= Period + b /\ since'[n] <= Limit(faults')
      /\ pc'[n] = "asleep" =>
           /\ since'[n] + wake'[n] <= Limit(faults')
           /\ Delivering(n)' \/ dark'[n] + wake'[n] <= Period + b
  BY <1>1, <1>3, <1>4, <1>5
<1> QED
  BY <1>6, <1>7 DEF Repairs, b

\* What Repairs is about, for a step that changes neither the count of faults
\* nor that of overtakings.
LEMMA Terms ==
  ASSUME TypeOK, NEW n \in Managers
  PROVE  /\ dark[n] \in Nat /\ since[n] \in Nat /\ wake[n] \in Nat /\ Period \in Nat
         /\ Period = reconnection_time_sleep + ws_ping_sleep
         /\ Owed(faults, overtaken[n]) \in Nat /\ Limit(faults) \in Nat
         /\ Period <= Limit(faults) /\ Limit(faults) <= Period + Owed(faults, overtaken[n])
         /\ Fault => /\ Owed(faults', overtaken[n]) =
                          Owed(faults, overtaken[n]) + ws_listen_key_sleep
                     /\ Limit(faults') = Limit(faults) + ws_listen_key_sleep
<1>1. faults \in Nat /\ overtaken[n] \in Nat
  BY Sleeps DEF TypeOK
<1> QED
  BY <1>1, OwedGrows DEF TypeOK, Fault

LEMMA PostRepairs ==
  ASSUME TypeOK, NEW n \in Managers, Post(n), Repairs(n)
  PROVE  Repairs(n)'
<1>1. /\ pc[n] = "post" /\ pc'[n] = "bind" /\ key'[n] = NextKey(n)
      /\ listenKey'[Kind(n)] = NextKey(n) /\ dark'[n] = dark[n] /\ since'[n] = since[n]
      /\ faults' = faults /\ overtaken'[n] = overtaken[n]
  BY WriteEffect DEF Post, Grant, Goto, TypeOK
<1>2. NextKey(n) # None
  BY NextKeyIsAKey
<1> QED
  BY <1>1, <1>2 DEF Repairs, Kind

LEMMA BindRepairs ==
  ASSUME TypeOK, NEW n \in Managers, Bind(n), Repairs(n)
  PROVE  Repairs(n)'
<1>1. /\ pc[n] = "bind" /\ pc'[n] = "put" /\ key'[n] = key[n] /\ dark'[n] = dark[n]
      /\ stream'[n] = listenKey[Kind(n)] /\ since'[n] = 0
      /\ faults' = faults /\ overtaken'[n] = overtaken[n]
  BY DEF Bind, Goto, TypeOK, exchangeVars
<1>2. Delivering(n)' \/ dark[n] <= Owed(faults, overtaken[n])
  BY <1>1 DEF Repairs, Delivering
<1> QED
  BY <1>1, <1>2, Terms DEF Repairs

\* Keep-alives: the key that lives stays the same.
LEMMA KeepAliveRepairs ==
  ASSUME TypeOK, NEW n \in Managers, Repairs(n), pc[n] \in {"put", "repost"},
         PutOk(n) \/ PutRefused(n) \/ PutLost(n) \/ Repost(n) \/ RepostFails(n)
  PROVE  Repairs(n)'
<1> USE DEF Goto, exchangeVars
<1>1. /\ pc'[n] \in {"check", "repost"} \/ (pc'[n] = "asleep" /\ RepostFails(n))
      /\ stream'[n] = stream[n] /\ dark'[n] = dark[n] /\ since'[n] = since[n]
  BY DEF PutOk, PutRefused, PutLost, Repost, RepostFails, TypeOK
<1>2. overtaken'[n] = overtaken[n]
  BY WriteEffect DEF PutOk, PutRefused, PutLost, Repost, RepostFails
<1>3. Delivering(n) => Delivering(n)'
  <2>1. key[n] # None => key'[n] = key[n]
    BY DEF PutOk, PutRefused, PutLost, Repost, RepostFails, Grant, Extend, NextKey, TypeOK
  <2> QED
    BY <1>1, <2>1 DEF Delivering
<1>4. faults' = faults \/ Fault
  BY DEF PutOk, PutRefused, PutLost, Repost, RepostFails
<1>5. pc'[n] = "asleep" => Fault /\ wake'[n] = ws_listen_key_sleep
  BY <1>1 DEF RepostFails, TypeOK
<1>6. /\ Delivering(n) \/ dark[n] <= since[n] + Owed(faults, overtaken[n])
      /\ dark[n] <= Period + Owed(faults, overtaken[n]) /\ since[n] <= Limit(faults)
  BY DEF Repairs
<1> DEFINE a == Owed(faults, overtaken[n])
           b == Owed(faults', overtaken'[n])
<1>7. /\ a \in Nat /\ Period \in Nat /\ Limit(faults) \in Nat /\ ws_listen_key_sleep \in Nat
      /\ dark[n] \in Nat /\ since[n] \in Nat
      /\ Fault => b = a + ws_listen_key_sleep /\ Limit(faults') = Limit(faults) + ws_listen_key_sleep
      /\ faults' = faults => b = a
  BY <1>2, Terms, Sleeps
<1>8. /\ Delivering(n) \/ dark[n] <= since[n] + a
      /\ dark[n] <= Period + a
  BY <1>6
<1> HIDE DEF a, b
<1>9. /\ Delivering(n)' \/ dark'[n] <= since'[n] + b
      /\ dark'[n] <= Period + b /\ since'[n] <= Limit(faults')
      /\ pc'[n] = "asleep" =>
           since'[n] + wake'[n] <= Limit(faults') /\ dark'[n] + wake'[n] <= Period + b
  BY <1>1, <1>3, <1>4, <1>5, <1>6, <1>7, <1>8
<1> QED
  BY <1>1, <1>9 DEF Repairs, b

LEMMA CheckRepairs ==
  ASSUME TypeOK, NEW n \in Managers, Repairs(n), Check(n), pc'[n] # "over"
  PROVE  Repairs(n)'
<1>1. /\ pc[n] = "check" /\ pc'[n] \in {"post", "asleep"}
      /\ UNCHANGED <<key[n], stream[n], dark[n], since[n], overtaken[n], faults>>
      /\ pc'[n] = "asleep" =>
           since[n] < reconnection_time_sleep /\ wake'[n] = ws_ping_sleep
  BY DEF Check, Goto, exchangeVars, TypeOK
<1>2. Delivering(n)' <=> Delivering(n)
  BY <1>1 DEF Delivering
<1> DEFINE a == Owed(faults, overtaken[n])
<1>3. /\ a \in Nat /\ Period \in Nat /\ Limit(faults) \in Nat /\ Period <= Limit(faults)
      /\ Period = reconnection_time_sleep + ws_ping_sleep
      /\ dark[n] \in Nat /\ since[n] \in Nat
  BY Terms
<1>4. /\ Delivering(n) \/ dark[n] <= since[n] + a
      /\ dark[n] <= Period + a /\ since[n] <= Limit(faults)
  BY <1>1 DEF Repairs
<1> HIDE DEF a
<1>5. pc'[n] = "asleep" =>
        /\ since[n] + wake'[n] <= Limit(faults)
        /\ Delivering(n) \/ dark[n] + wake'[n] <= Period + a
  BY <1>1, <1>3, <1>4, Sleeps
<1> QED
  BY <1>1, <1>2, <1>4, <1>5 DEF Repairs, a

LEMMA PassesRepairs ==
  ASSUME TypeOK, NEW n \in Managers, Repairs(n), Passes, pc[n] # "over"
  PROVE  Repairs(n)'
<1>1. PICK d \in {wake[m] : m \in Asleep} :
        /\ d > 0
        /\ \A m \in Asleep : d <= wake[m]
        /\ wake' = [m \in Managers |-> IF m \in Asleep THEN wake[m] - d ELSE 0]
        /\ since' = [m \in Managers |-> IF m \in Asleep THEN since[m] + d ELSE 0]
        /\ left' = [m \in Managers |-> IF left[m] > d THEN left[m] - d ELSE 0]
        /\ key' = [m \in Managers |-> IF left[m] > d THEN key[m] ELSE None]
        /\ dark' = [m \in Managers |->
                      IF ~Delivering(m) THEN dark[m] + d
                      ELSE IF left[m] > d THEN 0 ELSE d - left[m]]
  BY DEF Passes
<1>2. d \in Nat /\ left[n] \in Nat
  BY ConstantsAssumption DEF ConstantsAssumption, TypeOK, Asleep
<1>3. /\ pc[n] = "asleep" /\ pc'[n] = pc[n] /\ stream'[n] = stream[n]
      /\ UNCHANGED <<overtaken, faults>> /\ d <= wake[n]
      /\ since'[n] = since[n] + d /\ wake'[n] = wake[n] - d
      /\ dark'[n] = IF ~Delivering(n) THEN dark[n] + d
                    ELSE IF left[n] > d THEN 0 ELSE d - left[n]
      /\ key'[n] = IF left[n] > d THEN key[n] ELSE None
  BY <1>1 DEF Passes, Asleep
<1> DEFINE a == Owed(faults, overtaken[n])
<1>4. /\ a \in Nat /\ Period \in Nat /\ Limit(faults) \in Nat
      /\ Limit(faults) <= Period + a
      /\ dark[n] \in Nat /\ since[n] \in Nat /\ wake[n] \in Nat
  BY Terms
<1>5. /\ Delivering(n) \/ (dark[n] <= since[n] + a /\ dark[n] + wake[n] <= Period + a)
      /\ since[n] + wake[n] <= Limit(faults)
  BY <1>3 DEF Repairs
<1>6. Delivering(n) /\ left[n] > d => Delivering(n)'
  BY <1>3 DEF Delivering
<1> HIDE DEF a
<1>7. /\ since'[n] + wake'[n] <= Limit(faults) /\ since'[n] <= Limit(faults)
      /\ Delivering(n)' \/ dark'[n] <= since'[n] + a
      /\ dark'[n] <= Period + a
      /\ Delivering(n)' \/ dark'[n] + wake'[n] <= Period + a
  <2>1. CASE ~Delivering(n)
    BY <1>2, <1>3, <1>4, <1>5, <2>1
  <2>2. CASE Delivering(n) /\ left[n] > d
    BY <1>2, <1>3, <1>4, <1>5, <1>6, <2>2
  <2>3. CASE Delivering(n) /\ ~(left[n] > d)
    BY <1>2, <1>3, <1>4, <1>5, <2>3
  <2> QED
    BY <2>1, <2>2, <2>3
<1> QED
  BY <1>3, <1>7 DEF Repairs, a

LEMMA RepairStep == TypeOK /\ RepairInv /\ [Next]_vars => RepairInv'
<1> SUFFICES ASSUME TypeOK, RepairInv, [Next]_vars, NEW n \in Managers, pc'[n] # "over"
             PROVE  Repairs(n)'
  BY DEF RepairInv
<1>1. ASSUME NEW m \in Managers, Manager(m) PROVE Repairs(n)'
  <2>1. pc[m] # "over"
    BY <1>1 DEF Manager, Post, PostFails, Bind, PutOk, PutRefused, PutLost, Repost,
       RepostFails, Check, Wakes
  <2>2. CASE m = n
    <3>1. Repairs(n)
      BY <2>1, <2>2 DEF RepairInv
    <3>2. CASE PutOk(n) \/ PutRefused(n) \/ PutLost(n) \/ Repost(n) \/ RepostFails(n)
      <4>1. pc[n] \in {"put", "repost"}
        BY <3>2 DEF PutOk, PutRefused, PutLost, Repost, RepostFails
      <4> QED
        BY <3>1, <3>2, <4>1, KeepAliveRepairs
    <3>3. CASE PostFails(n)
      BY <3>3 DEF PostFails, Goto, TypeOK
    <3>4. CASE Wakes(n)
      BY <3>1, <3>4 DEF Wakes, Goto, TypeOK, Repairs, Delivering, exchangeVars
    <3> QED
      BY <1>1, <2>2, <3>1, <3>2, <3>3, <3>4, PostRepairs, BindRepairs, CheckRepairs DEF Manager
  <2>3. CASE m # n
    <3> USE DEF Goto, exchangeVars
    <3>1. /\ pc'[n] = pc[n] /\ stream'[n] = stream[n] /\ dark'[n] = dark[n]
          /\ since'[n] = since[n] /\ wake'[n] = wake[n]
      BY <1>1, <2>3 DEF Manager, Post, PostFails, Bind, PutOk, PutRefused, PutLost, Repost,
         RepostFails, Check, Wakes, TypeOK
    <3>2. key'[n] = key[n]
      BY <1>1, <2>3 DEF Manager, Post, PostFails, Bind, PutOk, PutRefused, PutLost, Repost,
         RepostFails, Check, Wakes, TypeOK, Grant, Extend
    <3>3. faults' = faults \/ Fault
      BY <1>1 DEF Manager, Post, PostFails, Bind, PutOk, PutRefused, PutLost, Repost,
         RepostFails, Check, Wakes
    <3>4. \/ /\ overtaken'[n] = overtaken[n]
             /\ pc[n] = "bind" => listenKey'[Kind(n)] = listenKey[Kind(n)]
          \/ overtaken'[n] = overtaken[n] + 1 /\ faults' = faults
      <4>1. CASE Post(m) \/ Repost(m)
        <5>1. Write(m) /\ faults' = faults
          BY <4>1 DEF Post, Repost
        <5> QED
          BY <2>3, <5>1, WriteEffect
      <4>2. CASE ~(Post(m) \/ Repost(m))
        <5>1. UNCHANGED <<listenKey, overtaken>>
          BY <1>1, <4>2 DEF Manager, PostFails, Bind, PutOk, PutRefused, PutLost,
             RepostFails, Check, Wakes
        <5> QED
          BY <5>1
      <4> QED
        BY <4>1, <4>2
    <3>5. Repairs(n)
      BY <3>1 DEF RepairInv
    <3> QED
      BY <3>1, <3>2, <3>3, <3>4, <3>5, OthersRepair
  <2> QED
    BY <2>2, <2>3
<1>2. CASE Passes
  <2>1. pc[n] # "over"
    BY <1>2 DEF Passes
  <2> QED
    BY <1>2, <2>1, PassesRepairs DEF RepairInv
<1>3. CASE UNCHANGED vars
  BY <1>3 DEF vars, exchangeVars, RepairInv, Repairs, Delivering, Kind
<1> QED
  BY <1>1, <1>2, <1>3 DEF Next

LEMMA OwedHolds ==
  ASSUME NEW f \in 0..MaxFaults, NEW o \in Nat
  PROVE  Period + Owed(f, o) <= (1 + o) * Period + MaxFaults * ws_listen_key_sleep
<1> DEFINE p == f * ws_listen_key_sleep
           q == MaxFaults * ws_listen_key_sleep
           u == o * Period
           v == (1 + o) * Period
<1>1. f \in Nat /\ MaxFaults \in Nat /\ ws_listen_key_sleep \in Nat /\ f <= MaxFaults
  BY Sleeps
<1>2. p \in Nat /\ q \in Nat /\ p <= q
  BY <1>1, Products
<1>3. Period \in Nat
  BY Sleeps DEF Period
<1>4. u \in Nat /\ v = u + Period
  <2>1. 1 + o = o + 1
    OBVIOUS
  <2>2. (o + 1) * Period = u + Period
    BY <1>3, Products
  <2>3. o * Period \in Nat
    BY <1>3, Products
  <2> QED
    BY <2>1, <2>2, <2>3
<1>5. Owed(f, o) = u + p
  BY DEF Owed
<1> HIDE DEF p, q, u, v
<1>6. Period + Owed(f, o) <= v + q
  BY <1>2, <1>3, <1>4, <1>5
<1> QED
  BY <1>6 DEF v, q

\* The periodic subscribe repairs every stream that put_listen_key does not,
\* however many managers share the dictionary and whatever the lengths of the
\* sleeps and of a key's life: while its renewal goes on, no stream is dark for
\* longer than one reconnection_time, one sleep and the retries, and once more
\* for each time it was overtaken.  What ends a renewal is a post_listen_key
\* that fails or the recursion limit; nothing is said of a stream after it
\* (_ping).
THEOREM SubscribeRepairs == Spec => []DarkIsBounded
<1>1. Init => TypeOK /\ RepairInv
  <2> SUFFICES ASSUME Init PROVE TypeOK /\ RepairInv
    OBVIOUS
  <2>1. TypeOK
    BY InitTypeOK
  <2>2. ASSUME NEW m \in Managers PROVE Repairs(m)
    BY <2>1, Terms DEF Init, Repairs
  <2> QED
    BY <2>1, <2>2 DEF RepairInv
<1>2. TypeOK /\ RepairInv /\ [Next]_vars => (TypeOK /\ RepairInv)'
  BY TypeStep, RepairStep
<1>3. TypeOK /\ RepairInv => DarkIsBounded
  <2> SUFFICES ASSUME TypeOK, RepairInv, NEW m \in Managers, pc[m] # "over"
               PROVE  dark[m] <= (1 + overtaken[m]) * Period + MaxFaults * ws_listen_key_sleep
    BY DEF DarkIsBounded
  <2> DEFINE b == (1 + overtaken[m]) * Period + MaxFaults * ws_listen_key_sleep
  <2>1. Period + Owed(faults, overtaken[m]) <= b
    BY OwedHolds DEF TypeOK
  <2>2. dark[m] <= Period + Owed(faults, overtaken[m])
    BY DEF RepairInv, Repairs
  <2>3. b \in Nat
    BY Terms, Sleeps, OwedHolds DEF TypeOK
  <2> HIDE DEF b
  <2>4. dark[m] <= b
    BY <2>1, <2>2, <2>3, Terms
  <2> QED
    BY <2>4 DEF b
<1> QED
  BY <1>1, <1>2, <1>3, PTL DEF Spec

=============================================================================
