------------------------- MODULE RestRequestsProofs -------------------------
(***************************************************************************)
(* Theorems about RestRequests, for every number of calls, every table of  *)
(* operations that satisfies MenuAssumption and every number of retries,   *)
(* receive window and Retry-After.                                         *)
(***************************************************************************)
EXTENDS RestRequests, Integers, TLAPS

Local(k) ==
  \/ Invoke(k) \/ Refuse(k) \/ Break(k) \/ Proceed(k)
  \/ Arrive(k) \/ ArriveLate(k) \/ Fill(k)

(***************************************************************************)
(* What the caller's side of a step can do to the control of a call: sign  *)
(* the second request, return, wait, or send again.                        *)
(***************************************************************************)
Says(k, r, e) ==
  /\ r = "data" => e = "data" /\ leg[k] = 2
  /\ r \in {"refused", "body", "none"} => e = r \/ O(k).after = "rate"

LEMMA FinishCases ==
  ASSUME TypeOK, NEW k \in Calls, NEW e \in Ends, Finish(k, e)
  PROVE  \/ leg[k] = 1 /\ \E m \in BOOLEAN : NextLeg(k, m)
         \/ \E r \in Ends : Return(k, r) /\ Says(k, r, e)
<1>1. "raised" \in Ends /\ Says(k, "raised", e)
  BY DEF Ends, Says
<1>2. Outcome(k, e) \in Ends /\ Says(k, Outcome(k, "raised"), e)
     /\ Outcome(k, "raised") \in Ends
  BY DEF Ends, Outcome, Says
<1>3. leg[k] = 2 => Says(k, Outcome(k, e), e)
  BY DEF Ends, Outcome, Says
<1>4. CASE leg[k] = 2
  BY <1>1, <1>2, <1>3, <1>4 DEF Finish, Return
<1>5. CASE leg[k] = 1 /\ Enough(k, e)
  <2> DEFINE m == e # "data" /\ (O(k).before = "cached" \/ e = "none")
  <2>1. m \in BOOLEAN /\ NextLeg(k, m)
    BY <1>5 DEF Finish
  <2> QED
    BY <1>5, <2>1 DEF NextLeg
<1>6. CASE leg[k] = 1 /\ ~Enough(k, e)
  BY <1>2, <1>6 DEF Finish, Return
<1> QED
  BY <1>4, <1>5, <1>6 DEF TypeOK

Failed == {"raised", "value", "error"}

LEMMA FailCases ==
  ASSUME TypeOK, NEW k \in Calls, Fail(k)
  PROVE  (Async(k) /\ Pause(k, 1)) \/ \E e \in Failed : Finish(k, e)
<1>1. By(k).failed \in Failures
  BY DEF TypeOK, By, Senders
<1>2. IF Async(k) THEN TRUE ELSE By(k).failed \in Failed
  BY <1>1 DEF Async, Failures, Failed
<1> QED
  BY <1>2 DEF Fail, Failed

-----------------------------------------------------------------------------
LEMMA InitTypeOK == Init => TypeOK
<1>1. Op0 \in Operations /\ BinanceSync \in Senders
  BY DEF Op0, Op, Operations, BinanceSync, Senders, Waits, Failures, Ends
<1>2. 0 \in 0..MaxAge /\ 0 \in 0..MaxTimer /\ 0 \in 0..Resends /\ 0 \in 0..RetryAfter
  BY ConstantsAssumption DEF ConstantsAssumption, MaxAge, MaxTimer
<1> QED
  BY <1>1, <1>2 DEF Init, TypeOK, Ends

\* The control of a call: what the steps of its caller have in common.
ControlOK ==
  /\ pc \in [Calls -> {"idle", "ready", "wait", "sleep", "limited", "done"}]
  /\ leg \in [Calls -> {1, 2}]
  /\ amiss \in [Calls -> BOOLEAN]
  /\ age \in [Calls -> 0..MaxAge]
  /\ timer \in [Calls -> 0..MaxTimer]
  /\ tries \in [Calls -> Nat]
  /\ resent \in [Calls -> 0..Resends]
  /\ result \in [Calls -> Ends]

LEMMA ControlType ==
  ASSUME TypeOK, NEW k \in Calls
  PROVE  /\ \A e \in Ends : Finish(k, e) => ControlOK'
         /\ \A n \in 0..MaxTimer : Pause(k, n) => ControlOK'
         /\ Fail(k) => ControlOK'
         /\ Resend(k) /\ resent[k] < Resends => ControlOK'
<1>1. 0 \in 0..MaxAge /\ 0 \in 0..Resends /\ 1 \in 0..MaxTimer
  BY ConstantsAssumption DEF ConstantsAssumption, MaxAge, MaxTimer
<1>2. ASSUME NEW e \in Ends, Finish(k, e) PROVE ControlOK'
  <2>1. CASE \E m \in BOOLEAN : NextLeg(k, m)
    BY <1>1, <2>1 DEF NextLeg, ControlOK, TypeOK, Set
  <2>2. CASE \E r \in Ends : Return(k, r)
    BY <2>2 DEF Return, ControlOK, TypeOK, Set
  <2> QED
    BY <1>2, <2>1, <2>2, FinishCases
<1>3. ASSUME NEW n \in 0..MaxTimer, Pause(k, n) PROVE ControlOK'
  BY <1>3 DEF Pause, ControlOK, TypeOK, Set
<1>4. ASSUME Fail(k) PROVE ControlOK'
  <2>1. Failed \subseteq Ends
    BY DEF Failed, Ends
  <2> QED
    BY <1>1, <1>2, <1>3, <1>4, <2>1, FailCases
<1>5. ASSUME Resend(k), resent[k] < Resends PROVE ControlOK'
  BY <1>5, ConstantsAssumption DEF Resend, ControlOK, TypeOK, Set, ConstantsAssumption
<1> QED
  BY <1>2, <1>3, <1>4, <1>5

\* What the exchange does with a request, and what one that is given up leaves.
LEMMA ExecuteEffect ==
  ASSUME TypeOK, NEW k \in Calls, Execute(k)
  PROVE  /\ executed' \in [Calls -> Nat] /\ resting' \in [Calls -> BOOLEAN]
         /\ \A j \in Calls \ {k} : executed'[j] = executed[j]
         /\ leg[k] = 1 => executed' = executed
         /\ leg[k] = 2 /\ O(k).kind = "read" => executed'[k] = 1
         /\ leg[k] = 2 /\ O(k).kind # "read" => executed'[k] = executed[k] + 1
<1>1. resting' \in [Calls -> BOOLEAN]
  BY DEF Execute, TypeOK, Set
<1>2. CASE leg[k] = 1
  BY <1>1, <1>2 DEF Execute, TypeOK
<1>3. CASE leg[k] = 2 /\ O(k).kind = "read"
  <2>1. executed' = [executed EXCEPT ![k] = 1]
    BY <1>3 DEF Execute, Set
  <2> QED
    BY <1>1, <1>3, <2>1 DEF TypeOK
<1>4. CASE leg[k] = 2 /\ O(k).kind # "read"
  <2>1. executed' = [executed EXCEPT ![k] = executed[k] + 1]
    BY <1>4 DEF Execute, Set
  <2> QED
    BY <1>1, <1>4, <2>1 DEF TypeOK
<1> QED
  BY <1>2, <1>3, <1>4 DEF TypeOK

LEMMA GiveUpEffect ==
  ASSUME TypeOK, NEW k \in Calls, GiveUp(k)
  PROVE  /\ reply' = [reply EXCEPT ![k] = "none"]
         /\ \E left \in {0, 1} :
              /\ stale' = [stale EXCEPT ![k] = stale[k] + left]
              /\ left = 1 => reply[k] = "out" /\ Http(k) # "GET"
         /\ row' = row /\ executed' = executed /\ resting' = resting /\ loop' = loop
         /\ \/ Resend(k) /\ Http(k) = "GET" /\ resent[k] < Resends
            \/ Fail(k)
  BY DEF GiveUp, Set, exchange

LEMMA TypeStep == TypeOK /\ [Next]_vars => TypeOK'
<1> SUFFICES ASSUME TypeOK, [Next]_vars PROVE TypeOK'
  OBVIOUS
<1> USE ConstantsAssumption
<1>1. 0 \in 0..MaxAge /\ 0 \in 0..MaxTimer /\ 1 \in 0..MaxTimer /\ MaxAge \in 0..MaxTimer
      /\ MaxTimer \in 0..MaxTimer /\ RetryAfter \in 0..MaxTimer /\ RetryAfter \in 0..RetryAfter
      /\ MaxAge \in Nat /\ MaxTimer \in Nat
  BY DEF ConstantsAssumption, MaxAge, MaxTimer
<1>2. ASSUME NEW k \in Calls, Invoke(k) PROVE TypeOK'
  BY <1>1, <1>2 DEF Invoke, TypeOK, Set, exchange, ConstantsAssumption
<1>3. ASSUME NEW k \in Calls, Refuse(k) PROVE TypeOK'
  <2>1. ControlOK'
    BY <1>3, ControlType DEF Refuse
  <2> QED
    BY <1>3, <2>1 DEF Refuse, TypeOK, ControlOK, exchange
<1>4. ASSUME NEW k \in Calls, Break(k) \/ TimeOut(k) PROVE TypeOK'
  <2>1. GiveUp(k)
    BY <1>4 DEF Break, TimeOut
  <2>2. ControlOK'
    BY <2>1, GiveUpEffect, ControlType
  <2>3. stale' \in [Calls -> Nat] /\ reply' \in [Calls -> {"none", "out", "data", "refused", "limited"}]
    <3>1. PICK left \in {0, 1} : stale' = [stale EXCEPT ![k] = stale[k] + left]
      BY <2>1, GiveUpEffect
    <3>2. stale[k] + left \in Nat
      BY DEF TypeOK
    <3> QED
      BY <2>1, <3>1, <3>2, GiveUpEffect DEF TypeOK
  <2> QED
    BY <2>1, <2>2, <2>3, GiveUpEffect DEF TypeOK, ControlOK
<1>5. ASSUME NEW k \in Calls, Send(k) PROVE TypeOK'
  BY <1>1, <1>5 DEF Send, TypeOK, Set, exchange
<1>6. ASSUME NEW k \in Calls, Take(k) PROVE TypeOK'
  <2>1. By(k).good \subseteq Ends /\ By(k).refused \subseteq Ends
    BY DEF TypeOK, By, Senders
  <2>2. ControlOK'
    BY <1>6, <2>1, ControlType DEF Take
  <2> QED
    BY <1>6, <2>2 DEF Take, TypeOK, ControlOK, exchange, Set
<1>7. ASSUME NEW k \in Calls, TakeLimited(k) PROVE TypeOK'
  <2>1. By(k).refused \subseteq Ends /\ "none" \in Ends
    BY DEF TypeOK, By, Senders, Ends
  <2>2. ControlOK' /\ loop' \in 0..RetryAfter
    <3>1. CASE Limited(k) /\ By(k).limited \in {"none", "block"}
      BY <1>1, <3>1 DEF Limited, TypeOK, ControlOK, Set
    <3>2. CASE Limited(k) /\ By(k).limited = "again"
      BY <1>1, <2>1, <3>2, ControlType DEF Limited, TypeOK
    <3>3. CASE Limited(k) /\ By(k).limited \notin {"none", "block", "again"}
      BY <2>1, <3>3, ControlType DEF Limited, TypeOK
    <3>4. CASE resent[k] < Resends /\ Resend(k) /\ loop' = loop
      BY <3>4, ControlType DEF TypeOK
    <3> QED
      BY <1>7, <3>1, <3>2, <3>3, <3>4 DEF TakeLimited
  <2> QED
    BY <1>7, <2>2 DEF TakeLimited, TypeOK, ControlOK, exchange, Set
<1>8. ASSUME NEW k \in Calls, AfterLimit(k) PROVE TypeOK'
  <2>1. ControlOK'
    BY <1>8, ControlType DEF AfterLimit, Ends
  <2> QED
    BY <1>8, <2>1 DEF AfterLimit, TypeOK, ControlOK, exchange
<1>9. ASSUME NEW k \in Calls, Wake(k) PROVE TypeOK'
  BY <1>9 DEF Wake, TypeOK, Set, exchange
<1>10. ASSUME NEW k \in Calls, Arrive(k) PROVE TypeOK'
  <2>1. executed' \in [Calls -> Nat] /\ resting' \in [Calls -> BOOLEAN]
    BY <1>10, ExecuteEffect DEF Arrive, TypeOK, exchange
  <2> QED
    BY <1>10, <2>1 DEF Arrive, TypeOK, Set
<1>11. ASSUME NEW k \in Calls, ArriveLate(k) PROVE TypeOK'
  <2>1. executed' \in [Calls -> Nat] /\ resting' \in [Calls -> BOOLEAN]
    BY <1>11, ExecuteEffect DEF ArriveLate, TypeOK, exchange
  <2>2. stale[k] - 1 \in Nat /\ stale' = [stale EXCEPT ![k] = stale[k] - 1]
    BY <1>11 DEF ArriveLate, TypeOK, Set
  <2> QED
    BY <1>11, <2>1, <2>2 DEF ArriveLate, TypeOK
<1>12. ASSUME NEW k \in Calls, Fill(k) PROVE TypeOK'
  BY <1>12 DEF Fill, TypeOK, Set
<1>13. ASSUME Tick PROVE TypeOK'
  BY <1>1, <1>13 DEF Tick, TypeOK, Older, Less, exchange, ConstantsAssumption
<1>14. ASSUME UNCHANGED vars PROVE TypeOK'
  BY <1>14 DEF vars, exchange, TypeOK
<1> QED
  BY <1>2, <1>3, <1>4, <1>5, <1>6, <1>7, <1>8, <1>9, <1>10, <1>11, <1>12, <1>13, <1>14
     DEF Next, Proceed

\* Every call keeps its types: a request is repeated by the session at most
\* Resends times, and the caller gets one of the results of Ends.
THEOREM TypeCorrect == Spec => []TypeOK
  BY InitTypeOK, TypeStep, PTL DEF Spec

-----------------------------------------------------------------------------
(***************************************************************************)
(* The inductive invariant.  A request is executed, on its way for nobody, *)
(* or on its way for its call; a call has sent at most one more than it    *)
(* has counted tries, and time passes between two tries.                   *)
(***************************************************************************)
Out(k) == IF reply[k] = "out" THEN 1 ELSE 0
Sum(k) == executed[k] + stale[k]

\* A call that has not been made yet, and the reply of one that does not wait.
Fresh(k) ==
  /\ pc[k] = "idle" => Sum(k) = 0 /\ tries[k] = 0
  /\ pc[k] # "idle" => row[k] \in Menu[k]
  /\ reply[k] # "none" => pc[k] = "wait"
  /\ leg[k] = 1 => Sum(k) = 0

\* The age of its signature bounds the tries of a call that may be accepted.
Paced(k) ==
  age[k] <= RecvWindow =>
    /\ tries[k] <= age[k]
    /\ pc[k] = "sleep" /\ timer[k] = 0 => tries[k] < age[k]

Counted(k) ==
  O(k).http # "GET" =>
    /\ Sum(k) + Out(k) <= tries[k] + 1
    /\ pc[k] \in {"ready", "limited"} \/ reply[k] \in {"refused", "limited"} => Sum(k) <= tries[k]

Told(k) ==
  O(k).http # "GET" =>
    /\ reply[k] = "data" /\ leg[k] = 2 => executed[k] > 0
    /\ pc[k] = "done" /\ result[k] = "data" => executed[k] > 0
    /\ pc[k] = "done" /\ result[k] \in {"refused", "body", "none"} => Sum(k) <= tries[k]

Bounded(k) ==
  /\ executed[k] <= RecvWindow + 1
  /\ O(k).kind = "read" => executed[k] <= 1

\* The session sends such a request at most once.
Single(k) ==
  ~Async(k) /\ O(k).http # "GET" =>
    /\ Sum(k) + Out(k) <= 1
    /\ pc[k] # "done" => stale[k] = 0
    /\ pc[k] # "done" /\ reply[k] # "data" => executed[k] = 0

CallInv(k) ==
  Fresh(k) /\ Paced(k) /\ Counted(k) /\ Told(k) /\ Bounded(k) /\ Single(k)
IInv == TypeOK /\ \A k \in Calls : CallInv(k)

LEMMA InitInv == Init => IInv
<1> SUFFICES ASSUME Init PROVE IInv
  OBVIOUS
<1>1. TypeOK
  BY InitTypeOK
<1>2. ASSUME NEW k \in Calls PROVE CallInv(k)
  <2> USE ConstantsAssumption DEF ConstantsAssumption
  <2>1. O(k).http = "GET" /\ O(k).kind = "read"
    BY DEF Init, O, Op0, Op
  <2> QED
    BY <2>1 DEF Init, CallInv, Fresh, Paced, Counted, Told, Bounded, Single, Sum, Out
<1> QED
  BY <1>1, <1>2 DEF IInv

\* A step of one call leaves the others alone.
SameCall(j) ==
  /\ row'[j] = row[j] /\ pc'[j] = pc[j] /\ leg'[j] = leg[j] /\ age'[j] = age[j]
  /\ timer'[j] = timer[j] /\ tries'[j] = tries[j] /\ reply'[j] = reply[j]
  /\ stale'[j] = stale[j] /\ executed'[j] = executed[j] /\ result'[j] = result[j]
  /\ resent'[j] = resent[j]

LEMMA SameInv ==
  ASSUME NEW j \in Calls, CallInv(j), SameCall(j)
  PROVE  CallInv(j)'
BY DEF SameCall, CallInv, Fresh, Paced, Counted, Told, Bounded, Single, Sum, Out, O, By, Async

\* What Finish, Pause and Resend leave alone.
SameControl(j) ==
  /\ pc'[j] = pc[j] /\ leg'[j] = leg[j] /\ age'[j] = age[j]
  /\ timer'[j] = timer[j] /\ tries'[j] = tries[j] /\ result'[j] = result[j]
  /\ resent'[j] = resent[j]

LEMMA ControlLocal ==
  ASSUME TypeOK, NEW k \in Calls, NEW j \in Calls \ {k}
  PROVE  /\ \A e \in Ends : Finish(k, e) => SameControl(j)
         /\ \A n \in 0..MaxTimer : Pause(k, n) => SameControl(j)
         /\ Resend(k) => SameControl(j)
         /\ Fail(k) => SameControl(j)
<1>1. \A n \in 0..MaxTimer : Pause(k, n) => SameControl(j)
  BY DEF Pause, TypeOK, Set, SameControl
<1>2. Resend(k) => SameControl(j)
  BY DEF Resend, TypeOK, Set, SameControl
<1>3. ASSUME NEW e \in Ends, Finish(k, e) PROVE SameControl(j)
  <2>1. CASE \E m \in BOOLEAN : NextLeg(k, m)
    BY <2>1 DEF NextLeg, TypeOK, Set, SameControl
  <2>2. CASE \E r \in Ends : Return(k, r)
    BY <2>2 DEF Return, TypeOK, Set, SameControl
  <2> QED
    BY <1>3, <2>1, <2>2, FinishCases
<1>4. Failed \subseteq Ends /\ 1 \in 0..MaxTimer
  BY ConstantsAssumption DEF ConstantsAssumption, MaxAge, MaxTimer, Failed, Ends
<1> QED
  BY <1>1, <1>2, <1>3, <1>4, FailCases

LEMMA Elsewhere ==
  ASSUME TypeOK, NEW k \in Calls, NEW j \in Calls \ {k}, Local(k)
  PROVE  SameCall(j)
<1>1. CASE Invoke(k)
  BY <1>1 DEF Invoke, TypeOK, Set, SameCall, exchange
<1>2. CASE Refuse(k)
  BY <1>2, ControlLocal DEF Refuse, SameCall, SameControl, exchange
<1>3. CASE Break(k) \/ TimeOut(k)
  <2>1. GiveUp(k)
    BY <1>3 DEF Break, TimeOut
  <2>2. SameControl(j)
    BY <2>1, GiveUpEffect, ControlLocal
  <2> QED
    BY <2>1, <2>2, GiveUpEffect DEF SameCall, SameControl, TypeOK
<1>4. CASE Send(k)
  BY <1>4 DEF Send, TypeOK, Set, SameCall, exchange
<1>5. CASE Take(k)
  <2>1. By(k).good \subseteq Ends /\ By(k).refused \subseteq Ends
    BY DEF TypeOK, By, Senders
  <2>2. SameControl(j)
    BY <1>5, <2>1, ControlLocal DEF Take
  <2> QED
    BY <1>5, <2>2 DEF Take, TypeOK, Set, SameCall, SameControl, exchange
<1>6. CASE TakeLimited(k)
  <2>1. By(k).refused \subseteq Ends /\ "none" \in Ends /\ MaxTimer \in 0..MaxTimer
    BY ConstantsAssumption
       DEF TypeOK, By, Senders, Ends, ConstantsAssumption, MaxAge, MaxTimer
  <2>2. SameControl(j)
    <3>1. CASE Limited(k) /\ By(k).limited \in {"none", "block"}
      BY <3>1 DEF Limited, TypeOK, SameControl, Set
    <3>2. CASE Limited(k) /\ By(k).limited = "again"
      BY <2>1, <3>2, ControlLocal DEF Limited
    <3>3. CASE Limited(k) /\ By(k).limited \notin {"none", "block", "again"}
      BY <2>1, <3>3, ControlLocal DEF Limited
    <3> QED
      BY <1>6, <3>1, <3>2, <3>3, ControlLocal DEF TakeLimited
  <2> QED
    BY <1>6, <2>2 DEF TakeLimited, TypeOK, Set, SameCall, SameControl, exchange
<1>7. CASE AfterLimit(k)
  BY <1>7, ControlLocal DEF AfterLimit, SameCall, SameControl, exchange, Ends
<1>8. CASE Wake(k)
  BY <1>8 DEF Wake, TypeOK, Set, SameCall, exchange
<1>9. CASE Arrive(k)
  <2>1. executed'[j] = executed[j]
    BY <1>9, ExecuteEffect DEF Arrive, exchange
  <2> QED
    BY <1>9, <2>1 DEF Arrive, TypeOK, Set, SameCall
<1>10. CASE ArriveLate(k)
  <2>1. executed'[j] = executed[j]
    BY <1>10, ExecuteEffect DEF ArriveLate, exchange
  <2> QED
    BY <1>10, <2>1 DEF ArriveLate, TypeOK, Set, SameCall
<1>11. CASE Fill(k)
  BY <1>11 DEF Fill, SameCall
<1> QED
  BY <1>1, <1>2, <1>3, <1>4, <1>5, <1>6, <1>7, <1>8, <1>9, <1>10, <1>11 DEF Local, Proceed

-----------------------------------------------------------------------------
(***************************************************************************)
(* The call itself.  Ending, pausing or sending again keeps the invariant  *)
(* if nothing is on its way for the call any more, and what it is told     *)
(* agrees with what was done.                                              *)
(***************************************************************************)
Over(k, e) ==
  /\ pc[k] \in {"ready", "wait", "limited"}
  /\ row'[k] = row[k] /\ executed'[k] = executed[k]
  /\ reply'[k] = "none"
  /\ stale'[k] = stale[k] \/ (stale'[k] = stale[k] + 1 /\ reply[k] = "out" /\ Http(k) # "GET")
  /\ O(k).http # "GET" /\ e = "data" => reply[k] = "data"
  /\ O(k).http # "GET" /\ e \in {"refused", "body", "none"} =>
       pc[k] = "limited" \/ reply[k] \in {"refused", "limited"}

LEMMA OverSum ==
  ASSUME TypeOK, NEW k \in Calls, NEW e \in Ends, CallInv(k), Over(k, e)
  PROVE  /\ Sum(k)' <= Sum(k) + Out(k) /\ Out(k)' = 0
         /\ Sum(k)' \in Nat /\ Sum(k) \in Nat /\ Out(k) \in {0, 1}
         /\ Http(k) = "GET" => Sum(k)' = Sum(k)
         /\ reply[k] # "out" => Sum(k)' = Sum(k)
         /\ O(k)' = O(k) /\ By(k)' = By(k)
         /\ row[k] \in Menu[k]
BY DEF TypeOK, Over, Sum, Out, O, By, CallInv, Fresh

LEMMA ReturnInv ==
  ASSUME TypeOK, NEW k \in Calls, NEW e \in Ends, NEW r \in Ends,
         CallInv(k), Over(k, e), Return(k, r), Says(k, r, e)
  PROVE  CallInv(k)'
<1> USE OverSum
<1>1. /\ pc'[k] = "done" /\ result'[k] = r /\ leg'[k] = leg[k] /\ age'[k] = age[k]
      /\ timer'[k] = timer[k] /\ tries'[k] = tries[k] /\ tries[k] \in Nat /\ age[k] \in Nat
  BY DEF Return, TypeOK, Set, MaxAge
<1>2. leg[k] = 1 => Http(k) = "GET"
  BY DEF Http
<1>3. O(k).http # "GET" => O(k).after # "rate"
  BY MenuAssumption DEF MenuAssumption, O
<1>4. Fresh(k)'
  BY <1>1, <1>2 DEF Fresh, CallInv, Over
<1>5. Paced(k)'
  BY <1>1 DEF Paced, CallInv
<1>6. Counted(k)'
  BY <1>1 DEF Counted, CallInv, Over
<1>7. Told(k)'
  <2> SUFFICES ASSUME O(k).http # "GET" PROVE Told(k)'
    BY DEF Told
  <2>1. r = "data" => executed'[k] > 0
    BY <1>1 DEF Says, Over, Told, CallInv
  <2>2. r \in {"refused", "body", "none"} => Sum(k)' <= tries'[k]
    BY <1>1, <1>3 DEF Says, Over, Counted, CallInv, Fresh
  <2> QED
    BY <1>1, <2>1, <2>2 DEF Told, Over
<1>8. Bounded(k)'
  BY DEF Bounded, CallInv, Over
<1>9. Single(k)'
  BY <1>1 DEF Single, CallInv, Over, Async
<1> QED
  BY <1>4, <1>5, <1>6, <1>7, <1>8, <1>9 DEF CallInv

LEMMA NextLegInv ==
  ASSUME TypeOK, NEW k \in Calls, NEW e \in Ends, NEW m \in BOOLEAN,
         CallInv(k), Over(k, e), NextLeg(k, m), leg[k] = 1
  PROVE  CallInv(k)'
<1> USE OverSum, ConstantsAssumption DEF ConstantsAssumption
<1>1. pc'[k] = "ready" /\ leg'[k] = 2 /\ age'[k] = 0 /\ tries'[k] = 0
  BY DEF NextLeg, TypeOK, Set
<1>2. Sum(k)' = 0
  BY DEF Http, CallInv, Fresh
<1>3. executed'[k] = 0 /\ stale'[k] = 0 /\ reply'[k] = "none"
  <2>1. executed[k] = 0 /\ stale[k] = 0
    BY DEF CallInv, Fresh, Sum, TypeOK
  <2> QED
    BY <2>1 DEF Over, Http
<1>4. Fresh(k)'
  BY <1>1, <1>2, <1>3 DEF Fresh, Over
<1>5. Paced(k)'
  BY <1>1 DEF Paced
<1>6. Counted(k)'
  BY <1>1, <1>2 DEF Counted
<1>7. Told(k)'
  BY <1>1, <1>3 DEF Told
<1>8. Bounded(k)'
  BY <1>3 DEF Bounded
<1>9. Single(k)'
  BY <1>2, <1>3 DEF Single
<1> QED
  BY <1>4, <1>5, <1>6, <1>7, <1>8, <1>9 DEF CallInv

LEMMA FinishInv ==
  ASSUME TypeOK, NEW k \in Calls, NEW e \in Ends, CallInv(k), Over(k, e), Finish(k, e)
  PROVE  CallInv(k)'
BY FinishCases, ReturnInv, NextLegInv

LEMMA PauseInv ==
  ASSUME TypeOK, NEW k \in Calls, NEW n \in 1..MaxTimer, CallInv(k), Over(k, "raised"),
         Pause(k, n), Async(k) \/ reply[k] = "limited"
  PROVE  CallInv(k)'
<1>0. "raised" \in Ends
  BY DEF Ends
<1> USE <1>0, OverSum
<1>1. /\ pc'[k] = "sleep" /\ timer'[k] = n /\ leg'[k] = leg[k] /\ age'[k] = age[k]
      /\ tries'[k] = tries[k] /\ tries[k] \in Nat /\ age[k] \in Nat /\ n > 0
  BY ConstantsAssumption DEF Pause, TypeOK, Set, MaxAge, MaxTimer, ConstantsAssumption
<1>2. leg[k] = 1 => Http(k) = "GET"
  BY DEF Http
<1>3. Fresh(k)'
  BY <1>1, <1>2 DEF Fresh, CallInv, Over
<1>4. Paced(k)'
  BY <1>1 DEF Paced, CallInv
<1>5. Counted(k)'
  BY <1>1 DEF Counted, CallInv, Over
<1>6. Told(k)' /\ Bounded(k)'
  BY <1>1 DEF Told, Bounded, CallInv, Over
<1>7. Single(k)'
  BY <1>1 DEF Single, CallInv, Over, Async
<1> QED
  BY <1>3, <1>4, <1>5, <1>6, <1>7 DEF CallInv

LEMMA FailInv ==
  ASSUME TypeOK, NEW k \in Calls, CallInv(k), Over(k, "raised"), Fail(k)
  PROVE  CallInv(k)'
<1>1. 1 \in 1..MaxTimer
  BY ConstantsAssumption DEF ConstantsAssumption, MaxAge, MaxTimer
<1>2. \A e \in Failed : e \in Ends /\ Over(k, e)
  BY DEF Failed, Ends, Over
<1> QED
  BY <1>1, <1>2, FailCases, FinishInv, PauseInv

LEMMA ResendInv ==
  ASSUME TypeOK, NEW k \in Calls, CallInv(k), Over(k, "raised"), Resend(k),
         Http(k) = "GET" \/ pc[k] = "ready"
  PROVE  CallInv(k)'
<1>0. "raised" \in Ends
  BY DEF Ends
<1> USE <1>0, OverSum
<1>1. /\ pc'[k] = "ready" /\ leg'[k] = leg[k] /\ age'[k] = age[k] /\ timer'[k] = timer[k]
      /\ tries'[k] = tries[k] /\ tries[k] \in Nat /\ age[k] \in Nat /\ result'[k] = result[k]
  BY DEF Resend, TypeOK, Set, MaxAge
<1>2. O(k).http # "GET" /\ Http(k) = "GET" => leg[k] = 1
  BY DEF Http
<1>3. pc[k] = "ready" => reply[k] = "none"
  BY DEF CallInv, Fresh
<1>4. Sum(k)' = Sum(k)
  BY <1>3
<1>5. executed'[k] = executed[k] /\ stale'[k] = stale[k] /\ reply'[k] = "none"
  BY <1>3 DEF Over
<1>6. leg[k] = 1 => executed[k] = 0 /\ stale[k] = 0
  BY DEF CallInv, Fresh, Sum, TypeOK
<1>7. Fresh(k)' /\ Paced(k)'
  BY <1>1, <1>4, <1>5 DEF Fresh, Paced, CallInv, Over
<1>8. Counted(k)'
  BY <1>1, <1>2, <1>3, <1>4, <1>5 DEF Counted, CallInv, Fresh
<1>9. Told(k)' /\ Bounded(k)'
  BY <1>1, <1>5 DEF Told, Bounded, CallInv
<1>10. Single(k)'
  BY <1>1, <1>2, <1>3, <1>4, <1>5, <1>6 DEF Single, CallInv, Async
<1> QED
  BY <1>7, <1>8, <1>9, <1>10 DEF CallInv

\* The steps of the caller that end or repeat an attempt.
LEMMA RefuseInv ==
  ASSUME TypeOK, NEW k \in Calls, CallInv(k), Refuse(k)
  PROVE  CallInv(k)'
<1>1. reply[k] = "none"
  BY DEF Refuse, CallInv, Fresh
<1>2. Over(k, "raised")
  BY <1>1 DEF Refuse, Over, exchange
<1> QED
  BY <1>2, FailInv, ResendInv DEF Refuse

LEMMA GiveUpInv ==
  ASSUME TypeOK, NEW k \in Calls, CallInv(k), GiveUp(k), pc[k] = "wait"
  PROVE  CallInv(k)'
<1>1. reply'[k] = "none" /\ row' = row /\ executed' = executed
  BY GiveUpEffect DEF TypeOK
<1>2. PICK left \in {0, 1} :
        /\ stale' = [stale EXCEPT ![k] = stale[k] + left]
        /\ left = 1 => reply[k] = "out" /\ Http(k) # "GET"
  BY GiveUpEffect
<1>3. stale'[k] = stale[k] + left /\ stale[k] \in Nat
  BY <1>2 DEF TypeOK
<1>4. Over(k, "raised")
  <2>1. stale'[k] = stale[k] \/ (stale'[k] = stale[k] + 1 /\ reply[k] = "out" /\ Http(k) # "GET")
    BY <1>2, <1>3
  <2> QED
    BY <1>1, <2>1 DEF Over
<1> QED
  BY <1>4, GiveUpEffect, FailInv, ResendInv

LEMMA TakeInv ==
  ASSUME TypeOK, NEW k \in Calls, CallInv(k), Take(k)
  PROVE  CallInv(k)'
<1>1. row[k] \in Menu[k]
  BY DEF Take, CallInv, Fresh
<1>2. "data" \notin By(k).refused /\ By(k).good \cap {"refused", "body", "none"} = {}
  BY <1>1, MenuAssumption DEF MenuAssumption, By
<1>3. By(k).good \subseteq Ends /\ By(k).refused \subseteq Ends
  BY DEF TypeOK, By, Senders
<1>4. PICK e \in IF reply[k] = "data" THEN By(k).good ELSE By(k).refused : Finish(k, e)
  BY DEF Take
<1>5. e \in Ends
  BY <1>3, <1>4
<1>6. reply'[k] = "none"
  BY DEF Take, TypeOK, Set
<1>7. Over(k, e)
  BY <1>2, <1>4, <1>6 DEF Take, Over, exchange
<1> QED
  BY <1>4, <1>5, <1>7, FinishInv

LEMMA TakeLimitedInv ==
  ASSUME TypeOK, NEW k \in Calls, CallInv(k), TakeLimited(k)
  PROVE  CallInv(k)'
<1>1. row[k] \in Menu[k]
  BY DEF TakeLimited, CallInv, Fresh
<1>2. "data" \notin By(k).refused /\ By(k).refused \subseteq Ends /\ "none" \in Ends
  BY <1>1, MenuAssumption DEF MenuAssumption, By, TypeOK, Senders, Ends
<1>3. reply'[k] = "none" /\ reply[k] = "limited" /\ pc[k] = "wait" /\ row' = row
      /\ stale' = stale /\ executed' = executed
  BY DEF TakeLimited, TypeOK, Set, exchange
<1>4. \A e \in Ends : e # "data" => Over(k, e)
  BY <1>3 DEF Over
<1>5. CASE Limited(k) /\ By(k).limited \in {"none", "block"}
  <2>1. pc'[k] = "limited" /\ leg' = leg /\ age' = age /\ tries' = tries /\ result' = result
    BY <1>5 DEF Limited, TypeOK, Set
  <2>2. Sum(k)' = Sum(k) /\ Out(k)' = 0 /\ Out(k) = 0
    BY <1>3 DEF Sum, Out
  <2>3. Fresh(k)' /\ Paced(k)' /\ Bounded(k)'
    BY <1>3, <2>1, <2>2 DEF CallInv, Fresh, Paced, Bounded, O
  <2>4. Counted(k)' /\ Told(k)'
    BY <1>3, <2>1, <2>2 DEF CallInv, Counted, Told, O
  <2>5. Single(k)'
    BY <1>3, <2>1, <2>2 DEF CallInv, Single, O, By, Async
  <2> QED
    BY <2>3, <2>4, <2>5 DEF CallInv
<1>6. CASE Limited(k) /\ By(k).limited = "again"
  <2>1. MaxTimer \in 1..MaxTimer
    BY ConstantsAssumption DEF ConstantsAssumption, MaxAge, MaxTimer
  <2>2. Over(k, "raised") /\ Over(k, "none")
    BY <1>4 DEF Ends
  <2> QED
    BY <1>2, <1>3, <1>6, <2>1, <2>2, PauseInv, FinishInv DEF Limited
<1>7. CASE Limited(k) /\ By(k).limited \notin {"none", "block", "again"}
  <2>1. PICK e \in By(k).refused : Finish(k, e)
    BY <1>7 DEF Limited
  <2> QED
    BY <1>2, <1>4, <2>1, FinishInv
<1>8. CASE Http(k) = "GET" /\ Resend(k)
  <2>1. Over(k, "raised")
    BY <1>4 DEF Ends
  <2> QED
    BY <1>8, <2>1, ResendInv
<1> QED
  BY <1>5, <1>6, <1>7, <1>8 DEF TakeLimited

LEMMA AfterLimitInv ==
  ASSUME TypeOK, NEW k \in Calls, CallInv(k), AfterLimit(k)
  PROVE  CallInv(k)'
<1>1. reply[k] = "none"
  BY DEF AfterLimit, CallInv, Fresh
<1>2. Over(k, "none") /\ Over(k, "refused") /\ Over(k, "raised")
  BY <1>1 DEF AfterLimit, Over, exchange
<1>3. "none" \in Ends /\ "refused" \in Ends
  BY DEF Ends
<1> QED
  BY <1>2, <1>3, FinishInv, FailInv DEF AfterLimit

\* Making a call, sending its request and waking up for the next try.
LEMMA InvokeInv ==
  ASSUME TypeOK, NEW k \in Calls, CallInv(k), Invoke(k)
  PROVE  CallInv(k)'
<1> USE ConstantsAssumption DEF ConstantsAssumption
<1>1. /\ pc'[k] = "ready" /\ age'[k] = 0 /\ row'[k] \in Menu[k]
      /\ reply' = reply /\ stale' = stale /\ executed' = executed /\ tries' = tries
  BY DEF Invoke, TypeOK, Set, exchange
<1>2. reply[k] = "none" /\ executed[k] = 0 /\ stale[k] = 0 /\ tries[k] = 0
  BY DEF Invoke, CallInv, Fresh, Sum, TypeOK
<1>3. Sum(k)' = 0 /\ Out(k)' = 0 /\ executed'[k] = 0 /\ stale'[k] = 0
      /\ reply'[k] = "none" /\ tries'[k] = 0
  BY <1>1, <1>2 DEF Sum, Out
<1>4. Fresh(k)' /\ Paced(k)' /\ Bounded(k)'
  BY <1>1, <1>3 DEF Fresh, Paced, Bounded
<1>5. Counted(k)' /\ Told(k)' /\ Single(k)'
  BY <1>1, <1>3 DEF Counted, Told, Single
<1> QED
  BY <1>4, <1>5 DEF CallInv

LEMMA SendInv ==
  ASSUME TypeOK, NEW k \in Calls, CallInv(k), Send(k)
  PROVE  CallInv(k)'
<1>1. /\ pc[k] = "ready" /\ pc'[k] = "wait" /\ reply'[k] = "out" /\ row' = row /\ leg' = leg
      /\ age' = age /\ tries' = tries /\ stale' = stale /\ executed' = executed
      /\ result' = result
  BY DEF Send, TypeOK, Set, exchange
<1>2. reply[k] = "none" /\ tries[k] \in Nat /\ executed[k] \in Nat /\ stale[k] \in Nat
  BY <1>1 DEF CallInv, Fresh, TypeOK
<1>3. Sum(k)' = Sum(k) /\ Out(k)' = 1 /\ Sum(k) \in Nat
  BY <1>1, <1>2 DEF Sum, Out
<1>4. Fresh(k)' /\ Paced(k)' /\ Bounded(k)'
  BY <1>1, <1>3 DEF CallInv, Fresh, Paced, Bounded, O
<1>5. Counted(k)' /\ Told(k)'
  BY <1>1, <1>2, <1>3 DEF CallInv, Counted, Told, O
<1>6. Single(k)'
  BY <1>1, <1>2, <1>3 DEF CallInv, Single, Sum, O, By, Async
<1> QED
  BY <1>4, <1>5, <1>6 DEF CallInv

LEMMA WakeInv ==
  ASSUME TypeOK, NEW k \in Calls, CallInv(k), Wake(k)
  PROVE  CallInv(k)'
<1>1. /\ pc[k] = "sleep" /\ timer[k] = 0 /\ pc'[k] = "ready" /\ tries'[k] = tries[k] + 1
      /\ reply' = reply /\ row' = row /\ leg' = leg /\ age' = age /\ stale' = stale
      /\ executed' = executed /\ result' = result
  BY DEF Wake, TypeOK, Set, exchange
<1>2. reply[k] = "none" /\ tries[k] \in Nat /\ age[k] \in Nat
  BY <1>1 DEF CallInv, Fresh, TypeOK, MaxAge
<1>3. Sum(k)' = Sum(k) /\ Out(k)' = 0 /\ Out(k) = 0 /\ Sum(k) \in Nat
  BY <1>1, <1>2 DEF Sum, Out, TypeOK
<1>4. Fresh(k)' /\ Bounded(k)'
  BY <1>1, <1>3 DEF CallInv, Fresh, Bounded, O
<1>5. Paced(k)'
  BY <1>1, <1>2 DEF CallInv, Paced
<1>6. Counted(k)' /\ Told(k)'
  BY <1>1, <1>2, <1>3 DEF CallInv, Counted, Told, O
<1>7. Single(k)'
  BY <1>1, <1>2, <1>3 DEF CallInv, Single, O, By, Async
<1> QED
  BY <1>4, <1>5, <1>6, <1>7 DEF CallInv

(***************************************************************************)
(* The exchange.  A signed request that it accepts is at most RecvWindow   *)
(* old, so that at most RecvWindow tries came before it.                   *)
(***************************************************************************)
LEMMA ExecuteCount ==
  ASSUME TypeOK, NEW k \in Calls, CallInv(k), row[k] \in Menu[k], Accepts(k), Execute(k),
         O(k).http # "GET" => executed[k] <= tries[k]
  PROVE  /\ executed'[k] <= RecvWindow + 1
         /\ O(k).kind = "read" => executed'[k] <= 1
         /\ executed'[k] \in Nat /\ executed'[k] <= executed[k] + 1
         /\ leg[k] = 1 => executed'[k] = executed[k]
         /\ leg[k] = 2 => executed'[k] > 0
<1> USE ConstantsAssumption DEF ConstantsAssumption
<1>1. leg[k] \in {1, 2} /\ tries[k] \in Nat /\ age[k] \in Nat /\ executed[k] \in Nat
  BY DEF TypeOK, MaxAge
<1>2. executed[k] <= RecvWindow + 1 /\ (O(k).kind = "read" => executed[k] <= 1)
  BY DEF CallInv, Bounded
<1>3. CASE leg[k] = 1
  BY <1>1, <1>2, <1>3, ExecuteEffect
<1>4. CASE leg[k] = 2 /\ O(k).kind = "read"
  BY <1>1, <1>4, ExecuteEffect
<1>5. CASE leg[k] = 2 /\ O(k).kind # "read"
  <2>1. O(k).http # "GET" /\ O(k).signed # "public"
    BY <1>5, MenuAssumption DEF MenuAssumption, O
  <2>2. O(k).signed = "signed"
    BY <2>1 DEF TypeOK, O, Operations, Accepts
  <2>3. tries[k] <= RecvWindow
    BY <1>1, <2>2 DEF Accepts, CallInv, Paced
  <2>4. executed'[k] = executed[k] + 1
    BY <1>5, ExecuteEffect
  <2> QED
    BY <1>1, <1>5, <2>1, <2>3, <2>4
<1> QED
  BY <1>1, <1>3, <1>4, <1>5

LEMMA ArriveInv ==
  ASSUME TypeOK, NEW k \in Calls, CallInv(k), Arrive(k)
  PROVE  CallInv(k)'
<1>1. /\ reply[k] = "out" /\ pc[k] = "wait" /\ row' = row /\ pc' = pc /\ leg' = leg /\ age' = age
      /\ timer' = timer /\ tries' = tries /\ stale' = stale /\ result' = result
  BY DEF Arrive, CallInv, Fresh
<1>2. /\ row[k] \in Menu[k] /\ Out(k) = 1 /\ tries[k] \in Nat /\ executed[k] \in Nat
      /\ stale[k] \in Nat /\ leg[k] \in {1, 2}
  BY <1>1 DEF CallInv, Fresh, Out, TypeOK
<1>3. O(k).http # "GET" => executed[k] + stale[k] <= tries[k]
  BY <1>2 DEF CallInv, Counted, Sum
<1>4. ~Async(k) /\ O(k).http # "GET" => executed[k] = 0 /\ stale[k] = 0
  BY <1>1 DEF CallInv, Single
<1>5. leg[k] = 1 => executed[k] = 0 /\ stale[k] = 0
  BY <1>2 DEF CallInv, Fresh, Sum
<1>6. CASE Accepts(k) /\ Execute(k) /\ reply' = Set(reply, k, "data")
  <2>1. reply'[k] = "data"
    BY <1>6 DEF TypeOK, Set
  <2>2. /\ executed'[k] <= RecvWindow + 1
        /\ O(k).kind = "read" => executed'[k] <= 1
        /\ executed'[k] \in Nat /\ executed'[k] <= executed[k] + 1
        /\ leg[k] = 1 => executed'[k] = executed[k]
        /\ leg[k] = 2 => executed'[k] > 0
    BY <1>2, <1>3, <1>6, ExecuteCount
  <2>3. Fresh(k)' /\ Paced(k)' /\ Bounded(k)'
    BY <1>1, <1>2, <1>5, <2>1, <2>2 DEF CallInv, Fresh, Paced, Bounded, Sum, O
  <2>4. Counted(k)' /\ Told(k)'
    BY <1>1, <1>2, <1>3, <2>1, <2>2 DEF Counted, Told, Sum, Out, O
  <2>5. Single(k)'
    BY <1>1, <1>2, <1>4, <2>1, <2>2 DEF Single, Sum, Out, O, By, Async
  <2> QED
    BY <2>3, <2>4, <2>5 DEF CallInv
<1>7. CASE executed' = executed /\ (reply' = Set(reply, k, "refused") \/ reply' = Set(reply, k, "limited"))
  <2>1. reply'[k] \in {"refused", "limited"}
    BY <1>7 DEF TypeOK, Set
  <2>2. Fresh(k)' /\ Paced(k)' /\ Bounded(k)'
    BY <1>1, <1>5, <1>7, <2>1 DEF CallInv, Fresh, Paced, Bounded, Sum, O
  <2>3. Counted(k)' /\ Told(k)'
    BY <1>1, <1>2, <1>3, <1>7, <2>1 DEF Counted, Told, Sum, Out, O
  <2>4. Single(k)'
    BY <1>1, <1>2, <1>4, <1>7, <2>1 DEF Single, Sum, Out, O, By, Async
  <2> QED
    BY <2>2, <2>3, <2>4 DEF CallInv
<1> QED
  BY <1>6, <1>7 DEF Arrive, exchange

LEMMA ArriveLateInv ==
  ASSUME TypeOK, NEW k \in Calls, CallInv(k), ArriveLate(k)
  PROVE  CallInv(k)'
<1>1. /\ stale[k] > 0 /\ row' = row /\ pc' = pc /\ leg' = leg /\ age' = age /\ reply' = reply
      /\ timer' = timer /\ tries' = tries /\ result' = result /\ stale'[k] = stale[k] - 1
  BY DEF ArriveLate, TypeOK, Set
<1>2. /\ tries[k] \in Nat /\ executed[k] \in Nat /\ stale[k] \in Nat /\ leg[k] \in {1, 2}
      /\ Out(k) \in {0, 1}
  BY <1>1 DEF Out, TypeOK
<1>3. leg[k] = 2 /\ row[k] \in Menu[k] /\ pc[k] # "idle"
  BY <1>1, <1>2 DEF CallInv, Fresh, Sum
<1>4. O(k).http # "GET" => executed[k] <= tries[k]
  BY <1>1, <1>2 DEF CallInv, Counted, Sum
<1>5. CASE Accepts(k) /\ Execute(k)
  <2>1. /\ executed'[k] <= RecvWindow + 1
        /\ O(k).kind = "read" => executed'[k] <= 1
        /\ executed'[k] \in Nat /\ executed'[k] <= executed[k] + 1 /\ executed'[k] > 0
    BY <1>3, <1>4, <1>5, ExecuteCount
  <2>2. Sum(k)' <= Sum(k) /\ Sum(k)' \in Nat /\ Sum(k) \in Nat /\ Out(k)' = Out(k)
    BY <1>1, <1>2, <2>1 DEF Sum, Out
  <2>3. Fresh(k)' /\ Paced(k)' /\ Bounded(k)'
    BY <1>1, <1>3, <2>1 DEF CallInv, Fresh, Paced, Bounded, O
  <2>4. Counted(k)' /\ Told(k)'
    BY <1>1, <1>2, <2>1, <2>2 DEF CallInv, Counted, Told, O
  <2>5. Single(k)'
    BY <1>1, <1>2, <2>1, <2>2 DEF CallInv, Single, O, By, Async
  <2> QED
    BY <2>3, <2>4, <2>5 DEF CallInv
<1>6. CASE executed' = executed
  <2>1. Sum(k)' <= Sum(k) /\ Sum(k)' \in Nat /\ Sum(k) \in Nat /\ Out(k)' = Out(k)
    BY <1>1, <1>2, <1>6 DEF Sum, Out
  <2>2. Fresh(k)' /\ Paced(k)' /\ Bounded(k)'
    BY <1>1, <1>3, <1>6 DEF CallInv, Fresh, Paced, Bounded, O
  <2>3. Counted(k)' /\ Told(k)'
    BY <1>1, <1>2, <1>6, <2>1 DEF CallInv, Counted, Told, O
  <2>4. Single(k)'
    BY <1>1, <1>2, <1>6, <2>1 DEF CallInv, Single, O, By, Async
  <2> QED
    BY <2>2, <2>3, <2>4 DEF CallInv
<1> QED
  BY <1>5, <1>6 DEF ArriveLate, exchange

LEMMA TickInv ==
  ASSUME TypeOK, NEW k \in Calls, CallInv(k), Tick
  PROVE  CallInv(k)'
<1> USE ConstantsAssumption DEF ConstantsAssumption
<1>1. /\ row' = row /\ pc' = pc /\ leg' = leg /\ tries' = tries /\ reply' = reply
      /\ stale' = stale /\ executed' = executed /\ result' = result
  BY DEF Tick, exchange
<1>2. age'[k] = IF pc[k] = "idle" THEN 0 ELSE Older(age[k])
  BY DEF Tick
<1>3. timer'[k] = Less(timer[k])
  BY DEF Tick
<1>4. tries[k] \in Nat /\ age[k] \in Nat /\ timer[k] \in Nat /\ age[k] <= MaxAge
      /\ MaxAge = RecvWindow + 1
  BY DEF TypeOK, MaxAge, MaxTimer
<1>5. Paced(k)'
  <2>1. CASE pc[k] = "idle"
    BY <1>1, <1>2, <1>4, <2>1 DEF CallInv, Fresh, Paced
  <2>2. CASE pc[k] # "idle"
    BY <1>1, <1>2, <1>4, <2>2 DEF CallInv, Paced, Older
  <2> QED
    BY <2>1, <2>2
<1>6. Fresh(k)' /\ Bounded(k)' /\ Told(k)'
  BY <1>1 DEF CallInv, Fresh, Bounded, Told, Sum, O
<1>7. Counted(k)' /\ Single(k)'
  BY <1>1 DEF CallInv, Counted, Single, Sum, Out, O, By, Async
<1> QED
  BY <1>5, <1>6, <1>7 DEF CallInv

LEMMA InvStep == IInv /\ [Next]_vars => IInv'
<1> SUFFICES ASSUME IInv, [Next]_vars PROVE IInv'
  OBVIOUS
<1>1. TypeOK /\ TypeOK' /\ \A j \in Calls : CallInv(j)
  BY TypeStep DEF IInv
<1>2. ASSUME NEW k \in Calls, Local(k) PROVE \A j \in Calls : CallInv(j)'
  <2>1. ASSUME NEW j \in Calls \ {k} PROVE CallInv(j)'
    BY <1>1, <1>2, <2>1, Elsewhere, SameInv
  <2>2. CallInv(k)'
    <3>1. CASE Invoke(k)
      BY <1>1, <3>1, InvokeInv
    <3>2. CASE Refuse(k)
      BY <1>1, <3>2, RefuseInv
    <3>3. CASE Break(k) \/ TimeOut(k)
      BY <1>1, <3>3, GiveUpInv DEF Break, TimeOut
    <3>4. CASE Send(k)
      BY <1>1, <3>4, SendInv
    <3>5. CASE Take(k)
      BY <1>1, <3>5, TakeInv
    <3>6. CASE TakeLimited(k)
      BY <1>1, <3>6, TakeLimitedInv
    <3>7. CASE AfterLimit(k)
      BY <1>1, <3>7, AfterLimitInv
    <3>8. CASE Wake(k)
      BY <1>1, <3>8, WakeInv
    <3>9. CASE Arrive(k)
      BY <1>1, <3>9, ArriveInv
    <3>10. CASE ArriveLate(k)
      BY <1>1, <3>10, ArriveLateInv
    <3>11. CASE Fill(k)
      BY <1>1, <3>11, SameInv DEF Fill, SameCall
    <3> QED
      BY <1>2, <3>1, <3>2, <3>3, <3>4, <3>5, <3>6, <3>7, <3>8, <3>9, <3>10, <3>11
         DEF Local, Proceed
  <2> QED
    BY <2>1, <2>2
<1>3. ASSUME Tick PROVE \A j \in Calls : CallInv(j)'
  BY <1>1, <1>3, TickInv
<1>4. ASSUME UNCHANGED vars PROVE \A j \in Calls : CallInv(j)'
  BY <1>1, <1>4, SameInv DEF vars, SameCall
<1> QED
  BY <1>1, <1>2, <1>3, <1>4 DEF Next, Local, IInv

LEMMA Inductive == Spec => []IInv
  BY InitInv, InvStep, PTL DEF Spec

-----------------------------------------------------------------------------
\* A request other than a GET that a synchronous client sends is executed at
\* most once: the session never repeats it once it may have arrived.
THEOREM OnceCorrect == Spec => []SyncOnce
<1>1. IInv => SyncOnce
  <2> SUFFICES ASSUME IInv, NEW k \in Calls, ~Async(k), O(k).http # "GET"
               PROVE  executed[k] <= 1
    BY DEF SyncOnce
  <2>1. TypeOK /\ Single(k)
    BY DEF IInv, CallInv
  <2> QED
    BY <2>1 DEF Single, Sum, Out, TypeOK
<1> QED
  BY <1>1, Inductive, PTL

\* async_retry_decorator repeats what is already executed, whatever the number
\* of its retries, but the time stamp that all attempts share stops it: no
\* request is executed more than RecvWindow + 1 times.
THEOREM DuplicatesCorrect == Spec => []BoundedDuplicates
<1>1. IInv => BoundedDuplicates
  BY DEF IInv, CallInv, Bounded, BoundedDuplicates
<1> QED
  BY <1>1, Inductive, PTL

\* What a caller is told is true of the attempt it is told about, after any
\* number of retries: a result only for what the exchange has executed, and a
\* refusal or None only if the last attempt is not executed and never will be,
\* so that each execution belongs to a retried attempt of its own.
THEOREM ToldCorrect == Spec => []TruthfulResult
<1>1. IInv => TruthfulResult
  BY DEF IInv, CallInv, Told, Sum, TruthfulResult
<1> QED
  BY <1>1, Inductive, PTL

-----------------------------------------------------------------------------
(***************************************************************************)
(* Why a call ends: a measure of what the clients' loops have left of it.  *)
(* A second try costs a try or a resend, and they are not given back but   *)
(* between the first and the second request of a call.                     *)
(***************************************************************************)
MaxTries == RetryTimes + HashkeyTries
PerLeg == 4 * MaxTries + 4 * Resends + 5
Stage(l) == CASE l = "done" -> 0 [] l = "sleep" -> 1 [] l = "limited" -> 2
              [] l = "wait" -> 3 [] OTHER -> 4
Left(k) ==
  (IF leg[k] = 1 THEN PerLeg ELSE 0) + 4 * (MaxTries - tries[k]) + 4 * (Resends - resent[k])
  + Stage(pc[k])

Counts(k) == tries[k] <= MaxTries /\ (pc[k] = "sleep" => tries[k] < MaxTries)
Nearer(k) == Left(k)' \in Nat /\ Left(k)' < Left(k) /\ Counts(k)'
Unmoved(k) == pc'[k] = pc[k] /\ leg'[k] = leg[k] /\ tries'[k] = tries[k] /\ resent'[k] = resent[k]

\* The measure in terms of numbers, so that steps can be compared.
LEMMA LeftType ==
  ASSUME TypeOK, NEW k \in Calls, Counts(k)
  PROVE  /\ MaxTries \in Nat /\ Resends \in Nat /\ PerLeg = 4 * MaxTries + 4 * Resends + 5
         /\ tries[k] \in 0..MaxTries /\ resent[k] \in 0..Resends
         /\ leg[k] \in {1, 2} /\ Stage(pc[k]) \in 0..4
         /\ Left(k) \in Nat
<1>1. /\ MaxTries \in Nat /\ Resends \in Nat /\ PerLeg = 4 * MaxTries + 4 * Resends + 5
      /\ tries[k] \in Nat /\ resent[k] \in 0..Resends /\ leg[k] \in {1, 2}
  BY ConstantsAssumption DEF ConstantsAssumption, MaxTries, HashkeyTries, PerLeg, TypeOK
<1>2. tries[k] \in 0..MaxTries
  BY <1>1 DEF Counts
<1>3. Stage(pc[k]) \in 0..4
  BY DEF Stage
<1>4. Left(k) \in Nat
  <2>1. 4 * (MaxTries - tries[k]) \in Nat /\ 4 * (Resends - resent[k]) \in Nat
    <3>1. \A n \in Nat : \A i \in 0..n : n - i \in Nat /\ 4 * (n - i) \in Nat
      OBVIOUS
    <3> QED
      BY <1>1, <1>2, <3>1
  <2>2. (IF leg[k] = 1 THEN PerLeg ELSE 0) \in Nat
    BY <1>1
  <2> QED
    BY <1>3, <2>1, <2>2 DEF Left
<1> QED
  BY <1>1, <1>2, <1>3, <1>4

LEMMA LeftTypeAfter ==
  ASSUME TypeOK', NEW k \in Calls, Counts(k)'
  PROVE  Stage(pc'[k]) \in 0..4 /\ Left(k)' \in Nat
<1>1. /\ MaxTries \in Nat /\ Resends \in Nat /\ PerLeg = 4 * MaxTries + 4 * Resends + 5
      /\ tries'[k] \in Nat /\ resent'[k] \in 0..Resends /\ leg'[k] \in {1, 2}
  BY ConstantsAssumption DEF ConstantsAssumption, MaxTries, HashkeyTries, PerLeg, TypeOK
<1>2. tries'[k] \in 0..MaxTries
  BY <1>1 DEF Counts
<1>3. Stage(pc'[k]) \in 0..4
  BY DEF Stage
<1>4. 4 * (MaxTries - tries'[k]) \in Nat /\ 4 * (Resends - resent'[k]) \in Nat
  <2>1. \A n \in Nat : \A i \in 0..n : n - i \in Nat /\ 4 * (n - i) \in Nat
    OBVIOUS
  <2> QED
    BY <1>1, <1>2, <2>1
<1>5. (IF leg'[k] = 1 THEN PerLeg ELSE 0) \in Nat
  BY <1>1
<1>6. Left(k)' = (IF leg'[k] = 1 THEN PerLeg ELSE 0) + 4 * (MaxTries - tries'[k])
                 + 4 * (Resends - resent'[k]) + Stage(pc'[k])
  BY DEF Left
<1> QED
  BY <1>3, <1>4, <1>5, <1>6

\* A step that keeps what is left of tries and goes on to a later stage.
LEMMA StageNears ==
  ASSUME TypeOK, TypeOK', NEW k \in Calls, Counts(k), Counts(k)', leg'[k] = leg[k],
         tries'[k] = tries[k], resent'[k] = resent[k], Stage(pc'[k]) < Stage(pc[k])
  PROVE  Nearer(k)
<1> DEFINE a == (IF leg[k] = 1 THEN PerLeg ELSE 0)
                + 4 * (MaxTries - tries[k]) + 4 * (Resends - resent[k])
<1>1. Left(k) = a + Stage(pc[k]) /\ Left(k)' = a + Stage(pc'[k])
  BY DEF Left
<1>2. /\ Left(k) \in Nat /\ Left(k)' \in Nat
      /\ Stage(pc[k]) \in 0..4 /\ Stage(pc'[k]) \in 0..4
  BY LeftType, LeftTypeAfter
<1>3. a \in Int
  <2>1. \A n \in Nat : \A i \in 0..n : 4 * (n - i) \in Int
    OBVIOUS
  <2>2. 4 * (MaxTries - tries[k]) \in Int /\ 4 * (Resends - resent[k]) \in Int
    BY <2>1, LeftType
  <2>3. (IF leg[k] = 1 THEN PerLeg ELSE 0) \in Int
    BY LeftType
  <2> QED
    BY <2>2, <2>3
<1> HIDE DEF a
<1> QED
  BY <1>1, <1>2, <1>3 DEF Nearer

LEMMA ReturnNears ==
  ASSUME TypeOK, TypeOK', NEW k \in Calls, Counts(k), pc[k] \in {"ready", "wait", "limited"},
         NEW r, Return(k, r)
  PROVE  Nearer(k)
<1>1. pc'[k] = "done" /\ leg'[k] = leg[k] /\ tries'[k] = tries[k] /\ resent'[k] = resent[k]
  BY DEF Return, TypeOK, Set
<1>2. Counts(k)' /\ Stage(pc'[k]) < Stage(pc[k])
  BY <1>1 DEF Counts, Stage
<1> QED
  BY <1>1, <1>2, StageNears

LEMMA NextLegNears ==
  ASSUME TypeOK, TypeOK', NEW k \in Calls, Counts(k), pc[k] \in {"ready", "wait", "limited"},
         leg[k] = 1, NEW m, NextLeg(k, m)
  PROVE  Nearer(k)
<1>1. pc'[k] = "ready" /\ leg'[k] = 2 /\ tries'[k] = 0 /\ resent'[k] = 0
  BY DEF NextLeg, TypeOK, Set
<1>2. Counts(k)'
  BY <1>1, LeftType DEF Counts
<1>3. /\ Left(k)' = 0 + 4 * (MaxTries - 0) + 4 * (Resends - 0) + 4
      /\ Left(k) = PerLeg + 4 * (MaxTries - tries[k]) + 4 * (Resends - resent[k]) + Stage(pc[k])
  BY <1>1 DEF Left, Stage
<1>4. Left(k)' \in Nat /\ Left(k)' < Left(k)
  <2>1. \A a, b \in Nat : \A i \in 0..a, j \in 0..b, s \in 0..4 :
          0 + 4 * (a - 0) + 4 * (b - 0) + 4 < (4 * a + 4 * b + 5) + 4 * (a - i) + 4 * (b - j) + s
    OBVIOUS
  <2> QED
    BY <1>2, <1>3, <2>1, LeftType
<1> QED
  BY <1>2, <1>4 DEF Nearer

LEMMA PauseNears ==
  ASSUME TypeOK, TypeOK', NEW k \in Calls, Counts(k), pc[k] \in {"ready", "wait", "limited"},
         NEW n, Pause(k, n), tries[k] < MaxTries
  PROVE  Nearer(k)
<1>1. pc'[k] = "sleep" /\ leg'[k] = leg[k] /\ tries'[k] = tries[k] /\ resent'[k] = resent[k]
  BY DEF Pause, TypeOK, Set
<1>2. Counts(k)' /\ Stage(pc'[k]) < Stage(pc[k])
  BY <1>1 DEF Counts, Stage
<1> QED
  BY <1>1, <1>2, StageNears

LEMMA ResendNears ==
  ASSUME TypeOK, TypeOK', NEW k \in Calls, Counts(k), pc[k] \in {"ready", "wait"},
         Resend(k), resent[k] < Resends
  PROVE  Nearer(k)
<1>1. /\ pc'[k] = "ready" /\ leg'[k] = leg[k] /\ tries'[k] = tries[k]
      /\ resent'[k] = resent[k] + 1
  BY DEF Resend, TypeOK, Set
<1>2. Counts(k)'
  BY <1>1 DEF Counts
<1> DEFINE a == (IF leg[k] = 1 THEN PerLeg ELSE 0) + 4 * (MaxTries - tries[k])
<1>3. /\ Left(k)' = a + 4 * (Resends - (resent[k] + 1)) + 4
      /\ Left(k) = a + 4 * (Resends - resent[k]) + Stage(pc[k])
      /\ Stage(pc[k]) \in {3, 4}
  BY <1>1 DEF Left, Stage
<1>4. a \in Int
  <2>1. \A n \in Nat : \A i \in 0..n : 4 * (n - i) \in Int
    OBVIOUS
  <2>2. 4 * (MaxTries - tries[k]) \in Int
    BY <2>1, LeftType
  <2>3. (IF leg[k] = 1 THEN PerLeg ELSE 0) \in Int
    BY LeftType
  <2> QED
    BY <2>2, <2>3
<1> HIDE DEF a
<1>5. Left(k)' < Left(k)
  <2>1. \A b \in Nat, c \in Int : \A j \in 0..b, s \in {3, 4} :
          c + 4 * (b - (j + 1)) + 4 < c + 4 * (b - j) + s
    OBVIOUS
  <2> QED
    BY <1>3, <1>4, <2>1, LeftType
<1> QED
  BY <1>2, <1>5, LeftTypeAfter DEF Nearer

LEMMA FinishNears ==
  ASSUME TypeOK, TypeOK', NEW k \in Calls, Counts(k), pc[k] \in {"ready", "wait", "limited"},
         NEW e \in Ends, Finish(k, e)
  PROVE  Nearer(k)
  BY FinishCases, ReturnNears, NextLegNears

LEMMA FailNears ==
  ASSUME TypeOK, TypeOK', NEW k \in Calls, Counts(k), pc[k] \in {"ready", "wait", "limited"}, Fail(k)
  PROVE  Nearer(k)
<1>1. CASE Async(k) /\ tries[k] < RetryTimes
  <2>1. tries[k] < MaxTries
    BY <1>1, ConstantsAssumption DEF ConstantsAssumption, MaxTries, HashkeyTries, TypeOK
  <2> QED
    BY <1>1, <2>1, PauseNears DEF Fail
<1>2. CASE ~(Async(k) /\ tries[k] < RetryTimes)
  <2>1. \E e \in Failed : Finish(k, e)
    <3>1. By(k).failed \in Failures
      BY DEF TypeOK, By, Senders
    <3> QED
      BY <1>2, <3>1 DEF Fail, Async, Failures, Failed
  <2>2. Failed \subseteq Ends
    BY DEF Failed, Ends
  <2> QED
    BY <2>1, <2>2, FinishNears
<1> QED
  BY <1>1, <1>2

LEMMA CallNears ==
  ASSUME TypeOK, TypeOK', NEW k \in Calls, Counts(k), Local(k), ~Invoke(k)
  PROVE  Nearer(k) \/ Unmoved(k)
<1>1. CASE Refuse(k)
  BY <1>1, ResendNears, FailNears DEF Refuse
<1>2. CASE Break(k) \/ TimeOut(k)
  <2>1. GiveUp(k) /\ pc[k] = "wait"
    BY <1>2 DEF Break, TimeOut
  <2> QED
    BY <2>1, GiveUpEffect, ResendNears, FailNears
<1>3. CASE Send(k)
  <2>1. /\ pc[k] = "ready" /\ pc'[k] = "wait" /\ leg'[k] = leg[k] /\ tries'[k] = tries[k]
        /\ resent'[k] = resent[k]
    BY <1>3 DEF Send, TypeOK, Set
  <2>2. Counts(k)' /\ Stage(pc'[k]) < Stage(pc[k])
    BY <2>1 DEF Counts, Stage
  <2> QED
    BY <2>1, <2>2, StageNears
<1>4. CASE Take(k)
  <2>1. By(k).good \subseteq Ends /\ By(k).refused \subseteq Ends
    BY DEF TypeOK, By, Senders
  <2> QED
    BY <1>4, <2>1, FinishNears DEF Take
<1>5. CASE TakeLimited(k)
  <2>1. By(k).refused \subseteq Ends /\ "none" \in Ends
    BY DEF TypeOK, By, Senders, Ends
  <2>2. pc[k] = "wait"
    BY <1>5 DEF TakeLimited
  <2>3. CASE Limited(k) /\ By(k).limited \in {"none", "block"}
    <3>1. /\ pc'[k] = "limited" /\ leg'[k] = leg[k] /\ tries'[k] = tries[k]
          /\ resent'[k] = resent[k]
      BY <2>3 DEF Limited, TypeOK, Set
    <3>2. Counts(k)' /\ Stage(pc'[k]) < Stage(pc[k])
      BY <2>2, <3>1 DEF Counts, Stage
    <3> QED
      BY <3>1, <3>2, StageNears
  <2>4. CASE Limited(k) /\ By(k).limited = "again"
    <3>1. CASE tries[k] + 1 < HashkeyTries
      <4>1. tries[k] < MaxTries
        BY <3>1, ConstantsAssumption DEF ConstantsAssumption, MaxTries, HashkeyTries, TypeOK
      <4> QED
        BY <2>2, <2>4, <3>1, <4>1, PauseNears DEF Limited
    <3>2. CASE ~(tries[k] + 1 < HashkeyTries)
      BY <2>1, <2>2, <2>4, <3>2, FinishNears DEF Limited
    <3> QED
      BY <3>1, <3>2
  <2>5. CASE Limited(k) /\ By(k).limited \notin {"none", "block", "again"}
    BY <2>1, <2>2, <2>5, FinishNears DEF Limited
  <2> QED
    BY <1>5, <2>2, <2>3, <2>4, <2>5, ResendNears DEF TakeLimited
<1>6. CASE AfterLimit(k)
  BY <1>6, FinishNears, FailNears DEF AfterLimit, Ends
<1>7. CASE Wake(k)
  <2>1. /\ pc[k] = "sleep" /\ pc'[k] = "ready" /\ leg'[k] = leg[k]
        /\ tries'[k] = tries[k] + 1 /\ resent'[k] = resent[k]
    BY <1>7 DEF Wake, TypeOK, Set
  <2>2. tries[k] < MaxTries /\ tries[k] \in Nat /\ MaxTries \in Nat
    BY <2>1, LeftType DEF Counts
  <2>3. Counts(k)'
    BY <2>1, <2>2 DEF Counts
  <2> DEFINE a == (IF leg[k] = 1 THEN PerLeg ELSE 0)
             b == 4 * (Resends - resent[k])
  <2>4. /\ Left(k)' = a + 4 * (MaxTries - (tries[k] + 1)) + b + 4
        /\ Left(k) = a + 4 * (MaxTries - tries[k]) + b + 1
    BY <2>1 DEF Left, Stage
  <2>5. a \in Int /\ b \in Int
    <3>1. \A n \in Nat : \A i \in 0..n : 4 * (n - i) \in Int
      OBVIOUS
    <3> QED
      BY <3>1, LeftType
  <2> HIDE DEF a, b
  <2>6. Left(k)' < Left(k)
    <3>1. \A c, d \in Int : \A n \in Nat : \A i \in 0..n :
            c + 4 * (n - (i + 1)) + d + 4 < c + 4 * (n - i) + d + 1
      OBVIOUS
    <3> QED
      BY <2>4, <2>5, <3>1, LeftType
  <2> QED
    BY <2>3, <2>6, LeftTypeAfter DEF Nearer
<1>8. CASE Arrive(k) \/ ArriveLate(k) \/ Fill(k)
  BY <1>8 DEF Arrive, ArriveLate, Fill, Unmoved
<1> QED
  BY <1>1, <1>2, <1>3, <1>4, <1>5, <1>6, <1>7, <1>8 DEF Local, Proceed

LEMMA CountsStep ==
  ASSUME TypeOK, TypeOK', \A k \in Calls : Counts(k), [Next]_vars
  PROVE  \A k \in Calls : Counts(k)' /\ (pc[k] # "idle" => Nearer(k) \/ Unmoved(k))
<1> SUFFICES ASSUME NEW k \in Calls
             PROVE  Counts(k)' /\ (pc[k] # "idle" => Nearer(k) \/ Unmoved(k))
  OBVIOUS
<1>1. Unmoved(k) => Counts(k)'
  BY DEF Unmoved, Counts
<1>2. CASE \E j \in Calls \ {k} : Local(j)
  <2>1. Unmoved(k)
    BY <1>2, Elsewhere DEF SameCall, Unmoved
  <2> QED
    BY <1>1, <2>1
<1>3. CASE Local(k) /\ ~Invoke(k)
  BY <1>1, <1>3, CallNears DEF Nearer
<1>4. CASE Invoke(k)
  <2>1. pc[k] = "idle" /\ pc'[k] = "ready" /\ tries' = tries
    BY <1>4 DEF Invoke, TypeOK, Set
  <2> QED
    BY <2>1 DEF Counts
<1>5. CASE Tick \/ UNCHANGED vars
  <2>1. Unmoved(k)
    BY <1>5 DEF Tick, vars, Unmoved
  <2> QED
    BY <1>1, <2>1
<1> QED
  BY <1>2, <1>3, <1>4, <1>5 DEF Next, Local

\* No loop of a client goes round for ever: whatever the network and the
\* exchange do, a call that has been made is as it was or has less left of its
\* two requests, their tries (async_retry_decorator, the loop of HashKey) and
\* the session's resends; at most 2 * PerLeg steps in all.
THEOREM CallsRunDown ==
  Spec => [][\A k \in Calls : pc[k] # "idle" =>
               \/ Left(k)' \in Nat /\ Left(k)' < Left(k)
               \/ UNCHANGED <<pc[k], leg[k], tries[k], resent[k]>>]_vars
<1> DEFINE Inv == TypeOK /\ \A k \in Calls : Counts(k)
<1>1. Init => Inv
  <2> SUFFICES ASSUME Init PROVE Inv
    OBVIOUS
  <2>1. MaxTries \in Nat
    BY ConstantsAssumption DEF ConstantsAssumption, MaxTries, HashkeyTries
  <2> QED
    BY <2>1, InitTypeOK DEF Init, Counts
<1>2. Inv /\ [Next]_vars => Inv'
  BY TypeStep, CountsStep
<1>3. Inv /\ [Next]_vars =>
        [\A k \in Calls : pc[k] # "idle" =>
           \/ Left(k)' \in Nat /\ Left(k)' < Left(k)
           \/ UNCHANGED <<pc[k], leg[k], tries[k], resent[k]>>]_vars
  BY TypeStep, CountsStep DEF Nearer, Unmoved
<1> HIDE DEF Inv
<1> QED
  BY <1>1, <1>2, <1>3, PTL DEF Spec
=============================================================================
