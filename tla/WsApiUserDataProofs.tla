------------------------ MODULE WsApiUserDataProofs ------------------------
(***************************************************************************)
(* Theorems about WsApiUserData, for every number of threads, events,      *)
(* starts, lost connections and rejections and both ways of scheduling.    *)
(***************************************************************************)
EXTENDS WsApiUserData, FiniteSetTheorems, TLAPS

Step ==
  \/ StopFlag \/ StopClose
  \/ \E t \in Threads :
       \/ Start(t) \/ Loop(t) \/ RunForever(t) \/ Ended(t) \/ Wake(t)
       \/ OnOpen(t) \/ AckLogon(t) \/ AckSubscribe(t) \/ Rejection(t)
       \/ OnClose(t) \/ Drops(t) \/ \E e \in Events : OnEvent(t, e)
  \/ \E e \in Events : Happens(e)

\* Whatever the scheduling allows is a step of one of the actions.
LEMMA NextSteps == [Next]_vars => Step \/ UNCHANGED vars
  BY DEF Next, Step, AppStep, StopsSocket, ThreadStep, Own, Served

LEMMA InitTypeOK == Init => TypeOK
<1> SUFFICES ASSUME Init PROVE TypeOK
  OBVIOUS
<1> USE ConstantsAssumption DEF ConstantsAssumption, Init
<1>1. running \in BOOLEAN /\ loggedOn \in BOOLEAN /\ subscribed \in BOOLEAN
  OBVIOUS
<1>2. delay \in RECONNECT_BASE_DELAY_S..RECONNECT_MAX_DELAY_S
  OBVIOUS
<1>3. /\ lastSleep \in 0..RECONNECT_MAX_DELAY_S
      /\ starts \in 0..MaxStarts /\ hurried \in 0..starts
      /\ drops \in 0..MaxDrops /\ rejections \in 0..MaxRejections
  OBVIOUS
<1>4. pc \in [Threads -> Pcs]
  BY DEF Pcs
<1>5. counted \in [Events -> Nat] /\ queued \in [Events -> Nat]
  OBVIOUS
<1> QED
  BY <1>1, <1>2, <1>3, <1>4, <1>5 DEF TypeOK

LEMMA TypeStep == TypeOK /\ [Next]_vars => TypeOK'
<1> SUFFICES ASSUME TypeOK, Step \/ UNCHANGED vars
             PROVE  TypeOK'
  BY NextSteps
<1> USE ConstantsAssumption DEF ConstantsAssumption, TypeOK, Goto, Pcs, flags, events, calls, faults
<1>1. ASSUME NEW t \in Threads, Start(t)
      PROVE  TypeOK'
  BY <1>1 DEF Start
<1>2. CASE StopFlag
  BY <1>2 DEF StopFlag
<1>3. CASE StopClose
  BY <1>3 DEF StopClose, Lost
<1>4. ASSUME NEW t \in Threads, Loop(t)
      PROVE  TypeOK'
  BY <1>4 DEF Loop
<1>5. ASSUME NEW t \in Threads, RunForever(t)
      PROVE  TypeOK'
  BY <1>5 DEF RunForever
<1>6. ASSUME NEW t \in Threads, Ended(t)
      PROVE  TypeOK'
  BY <1>6 DEF Ended
<1>7. ASSUME NEW t \in Threads, Wake(t)
      PROVE  TypeOK'
  BY <1>7 DEF Wake, Double
<1>8. ASSUME NEW t \in Threads, OnOpen(t)
      PROVE  TypeOK'
  BY <1>8 DEF OnOpen
<1>9. ASSUME NEW t \in Threads, AckLogon(t)
      PROVE  TypeOK'
  BY <1>9 DEF AckLogon
<1>10. ASSUME NEW t \in Threads, AckSubscribe(t)
      PROVE  TypeOK'
  BY <1>10 DEF AckSubscribe
<1>11. ASSUME NEW t \in Threads, Rejection(t)
      PROVE  TypeOK'
  BY <1>11 DEF Rejection, Lost
<1>12. ASSUME NEW t \in Threads, NEW e \in Events, OnEvent(t, e)
      PROVE  TypeOK'
  BY <1>12 DEF OnEvent
<1>13. ASSUME NEW t \in Threads, OnClose(t)
      PROVE  TypeOK'
  BY <1>13 DEF OnClose
<1>14. ASSUME NEW t \in Threads, Drops(t)
      PROVE  TypeOK'
  BY <1>14 DEF Drops, Lost
<1>15. ASSUME NEW e \in Events, Happens(e)
      PROVE  TypeOK'
  BY <1>15 DEF Happens
<1>16. CASE UNCHANGED vars
  BY <1>16 DEF vars
<1> QED
  BY <1>1, <1>2, <1>3, <1>4, <1>5, <1>6, <1>7, <1>8, <1>9, <1>10, <1>11, <1>12,
     <1>13, <1>14, <1>15, <1>16 DEF Step

\* Every attribute keeps to its type, and the reconnect delay to its bounds.
THEOREM TypeCorrect == Spec => []TypeOK
<1>1. Init => TypeOK
  BY InitTypeOK
<1>2. TypeOK /\ [Next]_vars => TypeOK'
  BY TypeStep
<1> QED
  BY <1>1, <1>2, PTL DEF Spec

-----------------------------------------------------------------------------
\* Health.

\* A subscribed connection is open and waits for no answer: the exchange has
\* nothing left to reject, so its end always goes through _on_close.
Settled ==
  \A t \in Threads :
    session[t] = "subscribed" => pc[t] = "open" /\ pending[t] = "none"

FlagHasCarrier == subscribed => \E t \in Threads : Carries(t)

HealthInv == TypeOK /\ Settled /\ FlagHasCarrier

LEMMA SettledStep == TypeOK /\ Settled /\ [Next]_vars => Settled'
<1> SUFFICES ASSUME TypeOK, Settled, Step \/ UNCHANGED vars
             PROVE  Settled'
  BY NextSteps
<1> USE DEF TypeOK, Settled, Goto, flags, events, calls
<1>1. ASSUME NEW t \in Threads, Start(t)
      PROVE  Settled'
  BY <1>1 DEF Start
<1>2. CASE StopFlag
  BY <1>2 DEF StopFlag
<1>3. CASE StopClose
  BY <1>3 DEF StopClose, Lost
<1>4. ASSUME NEW t \in Threads, Loop(t)
      PROVE  Settled'
  BY <1>4 DEF Loop
<1>5. ASSUME NEW t \in Threads, RunForever(t)
      PROVE  Settled'
  BY <1>5 DEF RunForever
<1>6. ASSUME NEW t \in Threads, Ended(t)
      PROVE  Settled'
  BY <1>6 DEF Ended
<1>7. ASSUME NEW t \in Threads, Wake(t)
      PROVE  Settled'
  BY <1>7 DEF Wake, Double
<1>8. ASSUME NEW t \in Threads, OnOpen(t)
      PROVE  Settled'
  BY <1>8 DEF OnOpen
<1>9. ASSUME NEW t \in Threads, AckLogon(t)
      PROVE  Settled'
  BY <1>9 DEF AckLogon
<1>10. ASSUME NEW t \in Threads, AckSubscribe(t)
      PROVE  Settled'
  BY <1>10 DEF AckSubscribe
<1>11. ASSUME NEW t \in Threads, Rejection(t)
      PROVE  Settled'
  BY <1>11 DEF Rejection, Lost
<1>12. ASSUME NEW t \in Threads, NEW e \in Events, OnEvent(t, e)
      PROVE  Settled'
  BY <1>12 DEF OnEvent
<1>13. ASSUME NEW t \in Threads, OnClose(t)
      PROVE  Settled'
  BY <1>13 DEF OnClose
<1>14. ASSUME NEW t \in Threads, Drops(t)
      PROVE  Settled'
  BY <1>14 DEF Drops, Lost
<1>15. ASSUME NEW e \in Events, Happens(e)
      PROVE  Settled'
  BY <1>15 DEF Happens
<1>16. CASE UNCHANGED vars
  BY <1>16 DEF vars
<1> QED
  BY <1>1, <1>2, <1>3, <1>4, <1>5, <1>6, <1>7, <1>8, <1>9, <1>10, <1>11, <1>12,
     <1>13, <1>14, <1>15, <1>16 DEF Step

\* The one step that ends a carrying connection for good is _on_close, which
\* clears the flag, whatever other connections there are.
LEMMA CarrierStep == HealthInv /\ [Next]_vars => FlagHasCarrier'
<1> SUFFICES ASSUME HealthInv, Step \/ UNCHANGED vars
             PROVE  FlagHasCarrier'
  BY NextSteps
<1> USE DEF HealthInv, TypeOK, Settled, FlagHasCarrier, Carries, Goto, flags, events, calls
<1>1. ASSUME NEW t \in Threads, Start(t)
      PROVE  FlagHasCarrier'
  BY <1>1 DEF Start
<1>2. CASE StopFlag
  BY <1>2 DEF StopFlag
<1>3. CASE StopClose
  BY <1>3 DEF StopClose, Lost
<1>4. ASSUME NEW t \in Threads, Loop(t)
      PROVE  FlagHasCarrier'
  BY <1>4 DEF Loop
<1>5. ASSUME NEW t \in Threads, RunForever(t)
      PROVE  FlagHasCarrier'
  BY <1>5 DEF RunForever
<1>6. ASSUME NEW t \in Threads, Ended(t)
      PROVE  FlagHasCarrier'
  BY <1>6 DEF Ended
<1>7. ASSUME NEW t \in Threads, Wake(t)
      PROVE  FlagHasCarrier'
  BY <1>7 DEF Wake, Double
<1>8. ASSUME NEW t \in Threads, OnOpen(t)
      PROVE  FlagHasCarrier'
  BY <1>8 DEF OnOpen
<1>9. ASSUME NEW t \in Threads, AckLogon(t)
      PROVE  FlagHasCarrier'
  BY <1>9 DEF AckLogon
<1>10. ASSUME NEW t \in Threads, AckSubscribe(t)
      PROVE  FlagHasCarrier'
  BY <1>10 DEF AckSubscribe
<1>11. ASSUME NEW t \in Threads, Rejection(t)
      PROVE  FlagHasCarrier'
  BY <1>11 DEF Rejection, Lost
<1>12. ASSUME NEW t \in Threads, NEW e \in Events, OnEvent(t, e)
      PROVE  FlagHasCarrier'
  BY <1>12 DEF OnEvent
<1>13. ASSUME NEW t \in Threads, OnClose(t)
      PROVE  FlagHasCarrier'
  BY <1>13 DEF OnClose
<1>14. ASSUME NEW t \in Threads, Drops(t)
      PROVE  FlagHasCarrier'
  BY <1>14 DEF Drops, Lost
<1>15. ASSUME NEW e \in Events, Happens(e)
      PROVE  FlagHasCarrier'
  BY <1>15 DEF Happens
<1>16. CASE UNCHANGED vars
  BY <1>16 DEF vars
<1> QED
  BY <1>1, <1>2, <1>3, <1>4, <1>5, <1>6, <1>7, <1>8, <1>9, <1>10, <1>11, <1>12,
     <1>13, <1>14, <1>15, <1>16 DEF Step

\* A client that calls itself healthy has a subscribed connection, or one
\* whose end is about to be noticed: for any number of run threads.
THEOREM HealthNeverLies == Spec => []HealthIsTrue
<1>1. Init => HealthInv
  BY InitTypeOK DEF Init, HealthInv, Settled, FlagHasCarrier
<1>2. HealthInv /\ [Next]_vars => HealthInv'
  BY TypeStep, SettledStep, CarrierStep DEF HealthInv
<1>3. HealthInv => HealthIsTrue
  BY DEF HealthInv, FlagHasCarrier, HealthIsTrue, is_healthy
<1> QED
  BY <1>1, <1>2, <1>3, PTL DEF Spec

-----------------------------------------------------------------------------
(***************************************************************************)
(* Delivery.  Run threads are made by start() only, and a start() that     *)
(* finds one at work is counted.  A copy of an event is on its way to a    *)
(* thread that was subscribed when it happened, or has been queued.        *)
(***************************************************************************)
Live == {t \in Threads : pc[t] # "off"}
Holders(e) == {t \in Threads : e \in inbox[t]}

LoopsCounted == IsFiniteSet(Live) /\ Cardinality(Live) <= 1 + hurried

CopiesCounted ==
  /\ \A t \in Threads : inbox[t] # {} => pc[t] = "open"
  /\ \A e \in fresh : queued[e] = 0 /\ Holders(e) = {}
  /\ \A e \in Events : queued[e] + Cardinality(Holders(e)) <= 1 + hurried

DeliveryInv == TypeOK /\ Settled /\ LoopsCounted /\ CopiesCounted

\* What is on its way goes to run threads that are at work.
LEMMA HoldersAreLive ==
  ASSUME TypeOK, LoopsCounted, CopiesCounted, NEW e \in Events
  PROVE  /\ Holders(e) \subseteq Live /\ IsFiniteSet(Holders(e))
         /\ Cardinality(Holders(e)) \in Nat /\ Cardinality(Live) \in Nat
         /\ hurried \in Nat /\ queued[e] \in Nat
<1>1. Holders(e) \subseteq Live
  BY DEF Holders, Live, CopiesCounted
<1>2. IsFiniteSet(Holders(e))
  BY <1>1, FS_Subset DEF LoopsCounted
<1>3. starts \in Nat
  BY ConstantsAssumption DEF ConstantsAssumption, TypeOK
<1> QED
  BY <1>1, <1>2, <1>3, FS_CardinalityType DEF LoopsCounted, TypeOK

\* Steps that make no thread and deliver nothing.
Quiet ==
  /\ Live' \subseteq Live /\ hurried' = hurried /\ queued' = queued /\ fresh' = fresh
  /\ \A t \in Threads : inbox'[t] \subseteq inbox[t] /\ (inbox'[t] # {} => pc'[t] = "open")

LEMMA MostAreQuiet ==
  ASSUME TypeOK, Settled, CopiesCounted, Step \/ UNCHANGED vars
  PROVE  \/ Quiet \/ \E t \in Threads : Start(t) \/ \E e \in Events : OnEvent(t, e)
         \/ \E e \in Events : Happens(e)
<1> USE DEF TypeOK, Settled, CopiesCounted, Quiet, Live, Goto, flags, events, calls
<1>1. CASE StopFlag
  BY <1>1 DEF StopFlag
<1>2. CASE StopClose
  BY <1>2 DEF StopClose, Lost
<1>3. ASSUME NEW t \in Threads, Loop(t) PROVE Quiet
  BY <1>3 DEF Loop
<1>4. ASSUME NEW t \in Threads, RunForever(t) PROVE Quiet
  BY <1>4 DEF RunForever
<1>5. ASSUME NEW t \in Threads, Ended(t) PROVE Quiet
  BY <1>5 DEF Ended
<1>6. ASSUME NEW t \in Threads, Wake(t) PROVE Quiet
  BY <1>6 DEF Wake
<1>7. ASSUME NEW t \in Threads, OnOpen(t) PROVE Quiet
  BY <1>7 DEF OnOpen
<1>8. ASSUME NEW t \in Threads, AckLogon(t) PROVE Quiet
  BY <1>8 DEF AckLogon
<1>9. ASSUME NEW t \in Threads, AckSubscribe(t) PROVE Quiet
  BY <1>9 DEF AckSubscribe
<1>10. ASSUME NEW t \in Threads, Rejection(t) PROVE Quiet
  BY <1>10 DEF Rejection, Lost
<1>11. ASSUME NEW t \in Threads, OnClose(t) PROVE Quiet
  BY <1>11 DEF OnClose
<1>12. ASSUME NEW t \in Threads, Drops(t) PROVE Quiet
  BY <1>12 DEF Drops, Lost
<1>13. CASE UNCHANGED vars
  BY <1>13 DEF vars
<1> QED
  BY <1>1, <1>2, <1>3, <1>4, <1>5, <1>6, <1>7, <1>8, <1>9, <1>10, <1>11, <1>12, <1>13 DEF Step

LEMMA QuietDelivery == DeliveryInv /\ TypeOK' /\ Quiet => LoopsCounted' /\ CopiesCounted'
<1> SUFFICES ASSUME DeliveryInv, TypeOK', Quiet PROVE LoopsCounted' /\ CopiesCounted'
  OBVIOUS
<1>1. LoopsCounted'
  <2>1. IsFiniteSet(Live') /\ Cardinality(Live') <= Cardinality(Live)
    BY FS_Subset DEF DeliveryInv, LoopsCounted, Quiet
  <2>2. Cardinality(Live') \in Nat /\ Cardinality(Live) \in Nat /\ hurried \in Nat
    <3>1. starts \in Nat
      BY ConstantsAssumption DEF ConstantsAssumption, DeliveryInv, TypeOK
    <3> QED
      BY <2>1, <3>1, FS_CardinalityType DEF DeliveryInv, LoopsCounted, TypeOK
  <2> QED
    BY <2>1, <2>2 DEF DeliveryInv, LoopsCounted, Quiet
<1>2. ASSUME NEW e \in Events PROVE Holders(e)' \subseteq Holders(e)
  BY DEF Quiet, Holders
<1>3. ASSUME NEW e \in Events PROVE queued'[e] + Cardinality(Holders(e)') <= 1 + hurried'
  <2>1. IsFiniteSet(Holders(e)) /\ Holders(e)' \in SUBSET Holders(e)
    BY <1>2, HoldersAreLive DEF DeliveryInv
  <2>2. Cardinality(Holders(e)') \in Nat /\ Cardinality(Holders(e)') <= Cardinality(Holders(e))
    BY <2>1, FS_Subset, FS_CardinalityType
  <2>3. queued[e] + Cardinality(Holders(e)) <= 1 + hurried
    BY DEF DeliveryInv, CopiesCounted
  <2> QED
    BY <2>2, <2>3, HoldersAreLive DEF DeliveryInv, Quiet
<1>4. \A e \in fresh' : queued'[e] = 0 /\ Holders(e)' = {}
  BY <1>2 DEF DeliveryInv, CopiesCounted, TypeOK, Quiet
<1> QED
  BY <1>1, <1>3, <1>4 DEF CopiesCounted, Quiet

LEMMA StartDelivery ==
  ASSUME DeliveryInv, TypeOK', NEW t \in Threads, Start(t)
  PROVE  LoopsCounted' /\ CopiesCounted'
<1>1. Live' = Live \cup {t} /\ t \notin Live
  BY DEF Live, Start, Goto, DeliveryInv, TypeOK
<1>2. /\ IsFiniteSet(Live) /\ Cardinality(Live) \in Nat /\ hurried \in Nat
      /\ Cardinality(Live) <= 1 + hurried
  <2>1. starts \in Nat
    BY ConstantsAssumption DEF ConstantsAssumption, DeliveryInv, TypeOK
  <2> QED
    BY <2>1, FS_CardinalityType DEF DeliveryInv, LoopsCounted, TypeOK
<1>3. IsFiniteSet(Live') /\ Cardinality(Live') = Cardinality(Live) + 1
  BY <1>1, <1>2, FS_AddElement
<1>4. CASE NoThread
  <2>1. Live = {}
    BY <1>4 DEF NoThread, Live
  <2>2. Cardinality(Live) = 0
    BY <2>1, FS_EmptySet
  <2>3. LoopsCounted'
    BY <1>2, <1>3, <1>4, <2>2 DEF LoopsCounted, Start
  <2> QED
    BY <1>4, <2>3 DEF CopiesCounted, Holders, Start, Goto, events, DeliveryInv, TypeOK
<1>5. CASE ~NoThread
  <2>1. hurried' = hurried + 1
    BY <1>5 DEF Start
  <2>2. LoopsCounted'
    BY <1>2, <1>3, <2>1 DEF LoopsCounted
  <2>3. ASSUME NEW e \in Events PROVE (queued[e] + Cardinality(Holders(e)) <= 1 + hurried)'
    <3>1. queued[e] + Cardinality(Holders(e)) <= 1 + hurried
      BY DEF DeliveryInv, CopiesCounted
    <3>2. queued'[e] = queued[e] /\ Cardinality(Holders(e)') = Cardinality(Holders(e))
      BY DEF Holders, Start, events
    <3> QED
      BY <2>1, <3>1, <3>2, HoldersAreLive DEF DeliveryInv
  <2> QED
    BY <2>2, <2>3 DEF CopiesCounted, Holders, Start, Goto, events, DeliveryInv, TypeOK
<1> QED
  BY <1>4, <1>5

LEMMA OnEventDelivery ==
  ASSUME DeliveryInv, TypeOK', NEW t \in Threads, NEW e \in Events, OnEvent(t, e)
  PROVE  LoopsCounted' /\ CopiesCounted'
<1> USE DEF DeliveryInv, TypeOK
<1>1. LoopsCounted'
  BY DEF LoopsCounted, Live, OnEvent, calls
<1>2. /\ \A u \in Threads : inbox'[u] = IF u = t THEN inbox[t] \ {e} ELSE inbox[u]
      /\ \A d \in Events : queued'[d] <= IF d = e THEN queued[d] + 1 ELSE queued[d]
      /\ \A d \in Events : d # e => queued'[d] = queued[d]
      /\ hurried' = hurried /\ fresh' = fresh /\ pc' = pc /\ e \in inbox[t]
  BY DEF OnEvent, calls
<1>3. Holders(e)' = Holders(e) \ {t} /\ t \in Holders(e)
  BY <1>2 DEF Holders
<1>4. ASSUME NEW d \in Events, d # e PROVE Holders(d)' = Holders(d)
  BY <1>2, <1>4 DEF Holders
<1>5. ASSUME NEW d \in Events PROVE (queued[d] + Cardinality(Holders(d)) <= 1 + hurried)'
  <2>1. /\ queued[d] + Cardinality(Holders(d)) <= 1 + hurried
        /\ IsFiniteSet(Holders(d)) /\ Cardinality(Holders(d)) \in Nat
        /\ queued[d] \in Nat /\ hurried \in Nat
    BY HoldersAreLive DEF CopiesCounted
  <2>2. CASE d = e
    <3>1. Cardinality(Holders(d)') = Cardinality(Holders(d)) - 1
      BY <1>3, <2>1, <2>2, FS_RemoveElement
    <3>2. queued'[d] \in Nat
      OBVIOUS
    <3>3. queued'[d] <= queued[d] + 1
      BY <1>2, <2>2
    <3> QED
      BY <1>2, <2>1, <3>1, <3>2, <3>3
  <2>3. CASE d # e
    BY <1>2, <1>4, <2>1, <2>3
  <2> QED
    BY <2>2, <2>3
<1>6. e \notin fresh
  BY <1>3 DEF CopiesCounted
<1>7. \A d \in fresh' : queued'[d] = 0 /\ Holders(d)' = {}
  BY <1>2, <1>4, <1>6 DEF CopiesCounted
<1>8. \A u \in Threads : inbox'[u] # {} => pc'[u] = "open"
  BY <1>2 DEF CopiesCounted
<1> QED
  BY <1>1, <1>5, <1>7, <1>8 DEF CopiesCounted

LEMMA HappensDelivery ==
  ASSUME DeliveryInv, TypeOK', NEW e \in Events, Happens(e)
  PROVE  LoopsCounted' /\ CopiesCounted'
<1> USE DEF DeliveryInv, TypeOK
<1>1. LoopsCounted'
  BY DEF LoopsCounted, Live, Happens, calls
<1>2. /\ e \in fresh /\ fresh' = fresh \ {e}
      /\ queued' = queued /\ hurried' = hurried /\ pc' = pc
      /\ \A t \in Threads : inbox'[t] =
            IF session[t] = "subscribed" THEN inbox[t] \cup {e} ELSE inbox[t]
  BY DEF Happens, calls
<1>3. \A t \in Threads : inbox'[t] # {} => pc'[t] = "open"
  BY <1>2 DEF CopiesCounted, Settled
<1>4. ASSUME NEW d \in Events, d # e PROVE Holders(d)' = Holders(d)
  BY <1>2, <1>4 DEF Holders
<1>5. (queued[e] + Cardinality(Holders(e)) <= 1 + hurried)'
  <2>1. Holders(e)' \in SUBSET Live
    BY <1>2, <1>3 DEF Holders, Live
  <2>2. Cardinality(Holders(e)') \in Nat /\ Cardinality(Holders(e)') <= Cardinality(Live)
    BY <2>1, FS_Subset, FS_CardinalityType DEF LoopsCounted
  <2>3. queued'[e] = 0
    BY <1>2 DEF CopiesCounted
  <2> QED
    BY <1>2, <2>2, <2>3, HoldersAreLive DEF LoopsCounted
<1>6. ASSUME NEW d \in Events, d # e
      PROVE  (queued[d] + Cardinality(Holders(d)) <= 1 + hurried)'
  BY <1>2, <1>4, <1>6 DEF CopiesCounted
<1>7. \A d \in fresh' : queued'[d] = 0 /\ Holders(d)' = {}
  BY <1>2, <1>4 DEF CopiesCounted
<1> QED
  BY <1>1, <1>3, <1>5, <1>6, <1>7 DEF CopiesCounted

LEMMA DeliveryStep == DeliveryInv /\ [Next]_vars => DeliveryInv'
<1> SUFFICES ASSUME DeliveryInv, [Next]_vars PROVE DeliveryInv'
  OBVIOUS
<1>1. TypeOK' /\ Settled'
  BY TypeStep, SettledStep DEF DeliveryInv
<1>2. \/ Quiet \/ \E t \in Threads : Start(t) \/ \E e \in Events : OnEvent(t, e)
      \/ \E e \in Events : Happens(e)
  BY NextSteps, MostAreQuiet DEF DeliveryInv
<1> QED
  BY <1>1, <1>2, QuietDelivery, StartDelivery, OnEventDelivery, HappensDelivery DEF DeliveryInv

\* An event is queued once, and at most once more for each start() that was
\* called while an older run thread was at work: for any number of starts,
\* stops, lost connections and rejections, under both ways of scheduling.
THEOREM CopiesArePaidFor == Spec => []CopiesAreBounded
<1>1. Init => DeliveryInv
  <2> SUFFICES ASSUME Init PROVE DeliveryInv
    OBVIOUS
  <2>1. Live = {} /\ \A e \in Events : Holders(e) = {}
    BY DEF Init, Live, Holders
  <2>2. LoopsCounted
    BY <2>1, FS_EmptySet DEF LoopsCounted, Init
  <2>3. CopiesCounted
    BY <2>1, FS_EmptySet DEF CopiesCounted, Init
  <2> QED
    BY <2>2, <2>3, InitTypeOK DEF Init, DeliveryInv, Settled
<1>2. DeliveryInv => CopiesAreBounded
  <2> SUFFICES ASSUME DeliveryInv, NEW e \in Events PROVE queued[e] <= 1 + hurried
    BY DEF CopiesAreBounded
  <2> QED
    BY HoldersAreLive DEF DeliveryInv, CopiesCounted
<1> QED
  BY <1>1, <1>2, DeliveryStep, PTL DEF Spec

=============================================================================
