------------------------ MODULE BaseWsManagerProofs ------------------------
(***************************************************************************)
(* Theorems about BaseWsManager, for every number of threads, connections  *)
(* and faults and for both ways of scheduling threads.                     *)
(***************************************************************************)
EXTENDS BaseWsManager, TLAPS

\* A thread that is in send, or that connects on behalf of send, has a
\* subscription to send: what is streamed is always a subscription
\* (send_json, _reconnect_streams).
SendsAStream ==
  \A t \in Threads :
    pc[t] \in SendPcs \/ (pc[t] \in ConnectPcs /\ ret[t] = "sendWs") =>
      arg[t] \in Streams

TypeInv == TypeOK /\ SendsAStream

LEMMA InitTypeInv == Init => TypeInv
<1> SUFFICES ASSUME Init PROVE TypeInv
  OBVIOUS
<1> USE DEF Init
<1>1. TypeOK
  <2>1. faults \in 0..MaxFaults
    BY ConstantsAssumption DEF ConstantsAssumption
  <2>2. pc \in [Threads -> Pcs]
    BY DEF Pcs, AppPcs, MonitorPcs
  <2>3. ret \in [Threads -> ReturnPoints]
    BY DEF ReturnPoints
  <2> QED
    BY <2>1, <2>2, <2>3 DEF TypeOK, Status
<1>2. SendsAStream
  BY DEF SendsAStream, SendPcs, ConnectPcs
<1> QED
  BY <1>1, <1>2 DEF TypeInv

LEMMA TypeStep == TypeInv /\ [Next]_vars => TypeOK'
<1> SUFFICES ASSUME TypeInv, [Next]_vars
             PROVE  TypeOK'
  OBVIOUS
<1> USE DEF TypeInv, TypeOK, Goto, Status, Pcs, AppPcs, MonitorPcs, SendPcs,
            ConnectPcs, ReturnPoints, connVars, threadVars
<1>1. ASSUME NEW t \in Apps, AppStep(t)
      PROVE  TypeOK'
  <2>1. ASSUME NEW s \in Streams, StartStream(t, s)
        PROVE  TypeOK'
    BY <2>1 DEF StartStream, Threads
  <2>2. CASE CloseStatus(t)
    BY <2>2 DEF CloseStatus, Threads
  <2>3. CASE Rebind(t)
    BY <2>3 DEF Rebind, Threads
  <2> QED
    BY <1>1, <2>1, <2>2, <2>3 DEF AppStep
<1>2. ASSUME NEW t \in Threads, CallStep(t)
      PROVE  TypeOK'
  <2>1. CASE Acquire(t)
    BY <2>1 DEF Acquire
  <2>2. CASE SendInit(t)
    BY <2>2 DEF SendInit
  <2>3. CASE SendWs(t)
    <3>1. arg[t] \in Streams
      BY <2>3 DEF SendWs, SendsAStream
    <3> QED
      BY <2>3, <3>1, ConstantsAssumption DEF SendWs, Connected,
         ConstantsAssumption
  <2>4. CASE CloseWs(t)
    BY <2>4 DEF CloseWs, ShutIfAny, Shut
  <2>5. CASE CloseForget(t)
    BY <2>5 DEF CloseForget
  <2>6. CASE Connect(t)
    <3>1. CASE ConnectEntry(t) BY <3>1 DEF ConnectEntry
    <3>2. CASE ConnectWhile(t) BY <3>2 DEF ConnectWhile
    <3>3. CASE Dial(t) BY <3>3 DEF Dial, FreeMonitors, Threads
    <3>4. CASE AssertionError(t) BY <3>4 DEF AssertionError
    <3>5. CASE MakeWs(t) BY <3>5 DEF MakeWs, FreeConns
    <3>6. CASE WaitEnds(t) BY <3>6 DEF WaitEnds
    <3>7. CASE WaitTimeout(t) BY <3>7, ConstantsAssumption DEF WaitTimeout
    <3>8. CASE Activate(t) BY <3>8 DEF Activate
    <3> QED BY <2>6, <3>1, <3>2, <3>3, <3>4, <3>5, <3>6, <3>7, <3>8 DEF Connect
  <2>7. CASE RebindClose(t)
    BY <2>7 DEF RebindClose, ShutIfAny, Shut
  <2>8. CASE RebindForget(t)
    BY <2>8 DEF RebindForget
  <2>9. CASE RebindConnect(t)
    BY <2>9 DEF RebindConnect
  <2> QED
    BY <1>2, <2>1, <2>2, <2>3, <2>4, <2>5, <2>6, <2>7, <2>8, <2>9 DEF CallStep
<1>3. ASSUME NEW m \in Monitors, MonitorStep(m)
      PROVE  TypeOK'
  <2> m \in Threads
    BY DEF Threads
  <2>1. CASE MonitorStops(m) BY <2>1 DEF MonitorStops
  <2>2. CASE MonitorStarts(m) BY <2>2 DEF MonitorStarts
  <2>3. CASE MonitorCheck(m) BY <2>3 DEF MonitorCheck
  <2>4. CASE MonitorMark(m) BY <2>4 DEF MonitorMark
  <2>5. CASE RecoveryClose(m) BY <2>5 DEF RecoveryClose, ShutIfAny, Shut
  <2>6. CASE RecoveryForget(m) BY <2>6 DEF RecoveryForget
  <2>7. CASE ReconnectStreams(m) BY <2>7 DEF ReconnectStreams
  <2> QED
    BY <1>3, <2>1, <2>2, <2>3, <2>4, <2>5, <2>6, <2>7 DEF MonitorStep, Monitor
<1>4. ASSUME NEW c \in Conns, Opens(c) \/ Drops(c) \/ RunStep(c)
      PROVE  TypeOK'
  <2>1. CASE Opens(c) BY <2>1 DEF Opens
  <2>2. CASE Drops(c) BY <2>2, ConstantsAssumption DEF Drops, Shut
  <2>3. CASE CallbackRaises(c) BY <2>3, ConstantsAssumption DEF CallbackRaises
  <2>4. CASE Callback(c) BY <2>4 DEF Callback, AfterCallback
  <2>5. CASE SetNeedRecovery(c) BY <2>5 DEF SetNeedRecovery, AsksPending, AfterCallback
  <2> QED
    BY <1>4, <2>1, <2>2, <2>3, <2>4, <2>5 DEF RunStep, RunForever
<1>5. CASE UNCHANGED vars
  BY <1>5 DEF vars
<1> QED
  BY <1>1, <1>2, <1>3, <1>4, <1>5 DEF Next

LEMMA SendsAStreamStep == TypeInv /\ [Next]_vars => SendsAStream'
<1> SUFFICES ASSUME TypeInv, [Next]_vars
             PROVE  SendsAStream'
  OBVIOUS
<1> USE DEF TypeInv, TypeOK, SendsAStream, Goto, Status, Pcs, AppPcs, MonitorPcs, SendPcs,
            ConnectPcs, ReturnPoints, connVars, threadVars
<1>1. ASSUME NEW t \in Apps, AppStep(t)
      PROVE  SendsAStream'
  <2>1. ASSUME NEW s \in Streams, StartStream(t, s)
        PROVE  SendsAStream'
    BY <2>1 DEF StartStream, Threads
  <2>2. CASE CloseStatus(t)
    BY <2>2 DEF CloseStatus, Threads
  <2>3. CASE Rebind(t)
    BY <2>3 DEF Rebind, Threads
  <2> QED
    BY <1>1, <2>1, <2>2, <2>3 DEF AppStep
<1>2. ASSUME NEW t \in Threads, CallStep(t)
      PROVE  SendsAStream'
  <2>1. CASE Acquire(t)
    BY <2>1 DEF Acquire
  <2>2. CASE SendInit(t)
    BY <2>2 DEF SendInit
  <2>3. CASE SendWs(t)
    <3>1. arg[t] \in Streams
      BY <2>3 DEF SendWs, SendsAStream
    <3> QED
      BY <2>3, <3>1, ConstantsAssumption DEF SendWs, Connected,
         ConstantsAssumption
  <2>4. CASE CloseWs(t)
    BY <2>4 DEF CloseWs, ShutIfAny, Shut
  <2>5. CASE CloseForget(t)
    BY <2>5 DEF CloseForget
  <2>6. CASE Connect(t)
    <3>1. CASE ConnectEntry(t) BY <3>1 DEF ConnectEntry
    <3>2. CASE ConnectWhile(t) BY <3>2 DEF ConnectWhile
    <3>3. CASE Dial(t) BY <3>3 DEF Dial, FreeMonitors, Threads
    <3>4. CASE AssertionError(t) BY <3>4 DEF AssertionError
    <3>5. CASE MakeWs(t) BY <3>5 DEF MakeWs, FreeConns
    <3>6. CASE WaitEnds(t) BY <3>6 DEF WaitEnds
    <3>7. CASE WaitTimeout(t) BY <3>7, ConstantsAssumption DEF WaitTimeout
    <3>8. CASE Activate(t) BY <3>8 DEF Activate
    <3> QED BY <2>6, <3>1, <3>2, <3>3, <3>4, <3>5, <3>6, <3>7, <3>8 DEF Connect
  <2>7. CASE RebindClose(t)
    BY <2>7 DEF RebindClose, ShutIfAny, Shut
  <2>8. CASE RebindForget(t)
    BY <2>8 DEF RebindForget
  <2>9. CASE RebindConnect(t)
    BY <2>9 DEF RebindConnect
  <2> QED
    BY <1>2, <2>1, <2>2, <2>3, <2>4, <2>5, <2>6, <2>7, <2>8, <2>9 DEF CallStep
<1>3. ASSUME NEW m \in Monitors, MonitorStep(m)
      PROVE  SendsAStream'
  <2> m \in Threads
    BY DEF Threads
  <2>1. CASE MonitorStops(m) BY <2>1 DEF MonitorStops
  <2>2. CASE MonitorStarts(m) BY <2>2 DEF MonitorStarts
  <2>3. CASE MonitorCheck(m) BY <2>3 DEF MonitorCheck
  <2>4. CASE MonitorMark(m) BY <2>4 DEF MonitorMark
  <2>5. CASE RecoveryClose(m) BY <2>5 DEF RecoveryClose, ShutIfAny, Shut
  <2>6. CASE RecoveryForget(m) BY <2>6 DEF RecoveryForget
  <2>7. CASE ReconnectStreams(m) BY <2>7 DEF ReconnectStreams
  <2> QED
    BY <1>3, <2>1, <2>2, <2>3, <2>4, <2>5, <2>6, <2>7 DEF MonitorStep, Monitor
<1>4. ASSUME NEW c \in Conns, Opens(c) \/ Drops(c) \/ RunStep(c)
      PROVE  SendsAStream'
  <2>1. CASE Opens(c) BY <2>1 DEF Opens
  <2>2. CASE Drops(c) BY <2>2, ConstantsAssumption DEF Drops, Shut
  <2>3. CASE CallbackRaises(c) BY <2>3, ConstantsAssumption DEF CallbackRaises
  <2>4. CASE Callback(c) BY <2>4 DEF Callback, AfterCallback
  <2>5. CASE SetNeedRecovery(c) BY <2>5 DEF SetNeedRecovery, AsksPending, AfterCallback
  <2> QED
    BY <1>4, <2>1, <2>2, <2>3, <2>4, <2>5 DEF RunStep, RunForever
<1>5. CASE UNCHANGED vars
  BY <1>5 DEF vars
<1> QED
  BY <1>1, <1>2, <1>3, <1>4, <1>5 DEF Next

\* Every step of the manager keeps the state well typed
\* (BaseWsManager.__init__ and every assignment after it).
THEOREM TypeCorrect == Spec => [](TypeOK /\ SendsAStream)
<1>1. TypeInv /\ [Next]_vars => TypeInv'
  BY TypeStep, SendsAStreamStep DEF TypeInv
<1> QED
  BY InitTypeInv, <1>1, PTL DEF Spec, TypeInv

-----------------------------------------------------------------------------
\* RecoveryHasOwner alone is not inductive: a thread at the head of the while
\* loop of connect leaves when it finds a WebSocketApp in ws.  If status is
\* RECOVERY then, some other thread must be about to drop that WebSocketApp
\* or to declare the manager ACTIVE.
Settles(t) == pc[t] \in {"rclose", "rnil", "wait", "activate"}

ConnectionIsSettled ==
  status = "RECOVERY" /\ ws # None => \E t \in Threads : Settles(t)

RecoveryInv == RecoveryHasOwner /\ ConnectionIsSettled

LEMMA InitRecoveryInv == Init => RecoveryInv
  BY DEF Init, RecoveryInv, RecoveryHasOwner, ConnectionIsSettled

\* A step that leaves status, ws and the labels of the recovering threads
\* alone keeps the invariant.
LEMMA RecoveryUntouched ==
  ASSUME TypeOK, RecoveryInv, status' = status, ws' \in {ws, None},
         \A t \in Threads : /\ OnPath(t) => OnPath(t)'
                            /\ Settles(t) => Settles(t)' \/ ws' = None
  PROVE  RecoveryInv'
  BY DEF RecoveryInv, RecoveryHasOwner, ConnectionIsSettled

LEMMA RecoveryStep == TypeInv /\ RecoveryInv /\ [Next]_vars => RecoveryInv'
<1> SUFFICES ASSUME TypeInv, RecoveryInv, [Next]_vars
             PROVE  RecoveryInv'
  OBVIOUS
<1> TypeOK
  BY DEF TypeInv
<1> USE DEF Goto, connVars, threadVars, ConnectPcs, ReturnPoints
<1>1. ASSUME NEW t \in Apps, AppStep(t)
      PROVE  RecoveryInv'
  <2> t \in Threads
    BY DEF Threads
  <2>1. ASSUME NEW s \in Streams, StartStream(t, s)
        PROVE  RecoveryInv'
    BY <2>1, RecoveryUntouched DEF StartStream, OnPath, Settles, TypeOK
  <2>2. CASE CloseStatus(t)
    BY <2>2 DEF CloseStatus, RecoveryInv, RecoveryHasOwner, ConnectionIsSettled
  <2>3. CASE Rebind(t)
    BY <2>3, RecoveryUntouched DEF Rebind, OnPath, Settles, TypeOK
  <2> QED
    BY <1>1, <2>1, <2>2, <2>3 DEF AppStep
<1>2. ASSUME NEW t \in Threads, CallStep(t)
      PROVE  RecoveryInv'
  <2>1. CASE Acquire(t)
    BY <2>1, RecoveryUntouched DEF Acquire, OnPath, Settles, TypeOK
  <2>2. CASE SendInit(t)
    BY <2>2, RecoveryUntouched DEF SendInit, OnPath, Settles, TypeOK
  <2>3. CASE SendWs(t)
    BY <2>3, RecoveryUntouched DEF SendWs, OnPath, Settles, TypeOK
  <2>4. CASE CloseWs(t)
    BY <2>4, RecoveryUntouched DEF CloseWs, OnPath, Settles, TypeOK
  <2>5. CASE CloseForget(t)
    BY <2>5, RecoveryUntouched DEF CloseForget, OnPath, Settles, TypeOK
  <2>6. CASE ConnectEntry(t)
    <3>1. status = "RECOVERY" => pc' = [pc EXCEPT ![t] = "while"]
      BY <2>6 DEF ConnectEntry
    <3>2. CASE status = "RECOVERY"
      BY <2>6, <3>1, <3>2, RecoveryUntouched
         DEF ConnectEntry, OnPath, Settles, TypeOK
    <3>3. CASE status # "RECOVERY"
      BY <2>6, <3>3
         DEF ConnectEntry, RecoveryInv, RecoveryHasOwner, ConnectionIsSettled
    <3> QED
      BY <3>2, <3>3
  <2>7. CASE ConnectWhile(t)
    <3>1. CASE ws = None
      BY <2>7, <3>1, RecoveryUntouched DEF ConnectWhile, OnPath, Settles, TypeOK
    <3>2. CASE ws # None /\ status = "RECOVERY"
      <4>1. PICK u \in Threads : Settles(u)
        BY <3>2 DEF RecoveryInv, ConnectionIsSettled
      <4>2. u # t /\ pc'[u] = pc[u]
        BY <2>7, <4>1 DEF ConnectWhile, Settles, TypeOK
      <4>3. Settles(u)' /\ OnPath(u)'
        BY <4>1, <4>2 DEF Settles, OnPath
      <4> QED
        BY <4>3 DEF RecoveryInv, RecoveryHasOwner, ConnectionIsSettled
    <3>3. CASE status # "RECOVERY"
      BY <2>7, <3>3
         DEF ConnectWhile, RecoveryInv, RecoveryHasOwner, ConnectionIsSettled
    <3> QED
      BY <3>1, <3>2, <3>3
  <2>8. CASE Dial(t)
    <3>1. CASE ws = None
      BY <2>8, <3>1, RecoveryUntouched
         DEF Dial, FreeMonitors, OnPath, Settles, TypeOK, Threads
    <3>2. CASE ws # None /\ status = "RECOVERY"
      <4>1. PICK u \in Threads : Settles(u)
        BY <3>2 DEF RecoveryInv, ConnectionIsSettled
      <4>2. u # t /\ pc'[u] = pc[u]
        BY <2>8, <3>2, <4>1 DEF Dial, Settles, TypeOK
      <4>3. Settles(u)' /\ OnPath(u)'
        BY <4>1, <4>2 DEF Settles, OnPath
      <4> QED
        BY <4>3 DEF RecoveryInv, RecoveryHasOwner, ConnectionIsSettled
    <3>3. CASE status # "RECOVERY"
      BY <2>8, <3>3
         DEF Dial, RecoveryInv, RecoveryHasOwner, ConnectionIsSettled
    <3> QED
      BY <3>1, <3>2, <3>3
  <2>9. CASE AssertionError(t)
    BY <2>9, RecoveryUntouched DEF AssertionError, OnPath, Settles, TypeOK
  <2>10. CASE MakeWs(t)
    <3>1. Settles(t)' /\ OnPath(t)'
      BY <2>10 DEF MakeWs, Settles, OnPath, TypeOK
    <3> QED
      BY <3>1 DEF RecoveryInv, RecoveryHasOwner, ConnectionIsSettled
  <2>11. CASE WaitEnds(t)
    BY <2>11, RecoveryUntouched DEF WaitEnds, OnPath, Settles, TypeOK
  <2>12. CASE WaitTimeout(t)
    BY <2>12, RecoveryUntouched DEF WaitTimeout, OnPath, Settles, TypeOK
  <2>13. CASE Activate(t)
    BY <2>13 DEF Activate, RecoveryInv, RecoveryHasOwner, ConnectionIsSettled
  <2>14. CASE RebindClose(t)
    BY <2>14, RecoveryUntouched DEF RebindClose, OnPath, Settles, TypeOK
  <2>15. CASE RebindForget(t)
    BY <2>15, RecoveryUntouched DEF RebindForget, OnPath, Settles, TypeOK
  <2>16. CASE RebindConnect(t)
    BY <2>16 DEF RebindConnect, RecoveryInv, RecoveryHasOwner,
       ConnectionIsSettled
  <2> QED
    BY <1>2, <2>1, <2>2, <2>3, <2>4, <2>5, <2>6, <2>7, <2>8, <2>9, <2>10,
       <2>11, <2>12, <2>13, <2>14, <2>15, <2>16 DEF CallStep, Connect
<1>3. ASSUME NEW m \in Monitors, MonitorStep(m)
      PROVE  RecoveryInv'
  <2> m \in Threads
    BY DEF Threads
  <2>1. CASE MonitorStops(m)
    BY <2>1, RecoveryUntouched DEF MonitorStops, OnPath, Settles, TypeOK
  <2>2. CASE MonitorStarts(m)
    BY <2>2, RecoveryUntouched DEF MonitorStarts, OnPath, Settles, TypeOK
  <2>3. CASE MonitorCheck(m)
    BY <2>3, RecoveryUntouched DEF MonitorCheck, OnPath, Settles, TypeOK
  <2>4. CASE MonitorMark(m)
    <3>1. Settles(m)' /\ OnPath(m)'
      BY <2>4 DEF MonitorMark, Settles, OnPath, TypeOK
    <3> QED
      BY <3>1 DEF RecoveryInv, RecoveryHasOwner, ConnectionIsSettled
  <2>5. CASE RecoveryClose(m)
    BY <2>5, RecoveryUntouched DEF RecoveryClose, OnPath, Settles, TypeOK
  <2>6. CASE RecoveryForget(m)
    BY <2>6, RecoveryUntouched DEF RecoveryForget, OnPath, Settles, TypeOK
  <2>7. CASE ReconnectStreams(m)
    BY <2>7, RecoveryUntouched DEF ReconnectStreams, OnPath, Settles, TypeOK
  <2> QED
    BY <1>3, <2>1, <2>2, <2>3, <2>4, <2>5, <2>6, <2>7 DEF MonitorStep, Monitor
<1>4. ASSUME NEW c \in Conns, Opens(c) \/ Drops(c) \/ RunStep(c)
      PROVE  RecoveryInv'
  <2>1. UNCHANGED <<status, ws, pc>>
    BY <1>4 DEF Opens, Drops, RunStep, CallbackRaises, RunForever, Callback,
                SetNeedRecovery
  <2> QED
    BY <2>1, RecoveryUntouched DEF OnPath, Settles
<1>5. CASE UNCHANGED vars
  BY <1>5, RecoveryUntouched DEF vars, OnPath, Settles
<1> QED
  BY <1>1, <1>2, <1>3, <1>4, <1>5 DEF Next

\* The manager is never stranded in RECOVERY, whatever the number of threads
\* and connections and wherever the interpreter switches threads
\* (_monitor, reconnect, _recovery, connect).
THEOREM RecoveryAlwaysOwned == Spec => []RecoveryHasOwner
<1>1. TypeInv /\ [Next]_vars => TypeInv'
  BY TypeStep, SendsAStreamStep DEF TypeInv
<1>2. TypeInv /\ RecoveryInv /\ [Next]_vars => RecoveryInv'
  BY RecoveryStep
<1>3. RecoveryInv => RecoveryHasOwner
  BY DEF RecoveryInv
<1> QED
  BY InitTypeInv, InitRecoveryInv, <1>1, <1>2, <1>3, PTL DEF Spec

-----------------------------------------------------------------------------
\* The manager of an application that neither closes it nor renews its URL,
\* with threads switched only where a thread waits.  One thread at a time
\* replaces the connection: the first sender, which holds the semaphore until
\* it is done, and later the monitor that has marked the loss.
Cooperative == ~MayClose /\ ~MayRebind /\ ~Preemptive

Roles ==
  /\ status # "STOP"
  /\ \A t \in Threads :
       /\ pc[t] \notin {"close1", "close2", "rebindClose", "rebindNil",
                        "rebindInit", "assertFail"}
       /\ pc[t] \in MonitorPcs => t \in Monitors
       /\ pc[t] = "idle" => t \in Apps
       /\ pc[t] \in ConnectPcs =>
            \/ ret[t] = "sendWs"
            \/ ret[t] = "resend" /\ t \in Monitors /\ done[t] = {}

Holders ==
  \A t \in Threads :
    \/ pc[t] \in {"sendInit", "sendWs"}
    \/ pc[t] \in ConnectPcs /\ ret[t] = "sendWs"
    => sem = t

Working(t) == pc[t] \in {"mark", "rclose", "rnil"} \cup ConnectPcs

OneWorker == \A t, u \in Threads : Working(t) /\ Working(u) => t = u

\* What status and ws are while a thread is at work.
Phases ==
  \A t \in Threads :
    /\ pc[t] = "mark" => status = "ACTIVE"
    /\ pc[t] \in {"rclose", "rnil"} => status = "RECOVERY"
    /\ pc[t] \in ConnectPcs =>
         \/ pc[t] = "while" /\ status = "ACTIVE" /\ ws # None
         \/ status = IF ret[t] = "sendWs" THEN "INIT" ELSE "RECOVERY"
    /\ pc[t] \in {"connect", "dial", "mkws"} => ws = None
    /\ pc[t] = "while" /\ status # "ACTIVE" => ws = None
    /\ pc[t] \in {"wait", "activate"} => ws # None
    /\ pc[t] = "activate" => conn[ws] # "dialing"
    /\ pc[t] = "sendWs" => status # "INIT"

Unmade ==
  status = "INIT" /\ ws # None =>
    \E t \in Threads : pc[t] \in {"wait", "activate"}

Settled == status = "ACTIVE" => ws # None /\ conn[ws] # "dialing"

\* A connection has the monitor that was started for it.
Dialed == \E t \in Threads : pc[t] \in {"mkws", "wait", "activate"}

Watching == \E m \in Monitors : pc[m] \in {"poll", "watch", "mark"}

Watched == status = "ACTIVE" \/ Dialed => Watching

\* A thread will still send the subscription.
WillSend(t, x) ==
  /\ arg[t] = x
  /\ pc[t] \in SendPcs \/ (pc[t] \in ConnectPcs /\ ret[t] = "sendWs")

WillResend(t, x) ==
  /\ t \in Monitors /\ x \notin done[t]
  /\ pc[t] \in SendPcs \cup ConnectPcs \cup {"resend"}

Owes(t, x) == WillSend(t, x) \/ WillResend(t, x)

Kept ==
  status = "INIT" \/ (status = "ACTIVE" /\ Connected) =>
    \A x \in subs :
      \/ status = "ACTIVE" /\ x \in listed[ws]
      \/ \E t \in Threads : Owes(t, x)

OrderInv == Roles /\ Holders /\ OneWorker /\ Phases /\ Unmade
CalmInv == OrderInv /\ Settled /\ Watched /\ Kept

\* A step of a manager that is left alone: the other actions are never taken.
\* A monitor looks at the connection only when no thread stands between two
\* accesses to the shared attributes.
Others(m) == \A u \in Threads \ {m} : pc[u] \in Yields

CalmStep ==
  \/ \E t \in Apps, x \in Streams : StartStream(t, x)
  \/ \E t \in Threads : \/ Acquire(t) \/ SendInit(t) \/ SendWs(t)
                        \/ ConnectEntry(t) \/ ConnectWhile(t) \/ Dial(t)
                        \/ MakeWs(t) \/ WaitEnds(t) \/ WaitTimeout(t)
                        \/ Activate(t)
  \/ \E m \in Monitors : \/ MonitorStarts(m) \/ (MonitorCheck(m) /\ Others(m))
                         \/ MonitorMark(m) \/ RecoveryClose(m)
                         \/ RecoveryForget(m) \/ ReconnectStreams(m)
  \/ \E c \in Conns : Opens(c) \/ Drops(c)
  \/ UNCHANGED <<status, ws, subs, sem, conn, listed, threadVars>>

LEMMA OnlyCalmSteps ==
  ASSUME Cooperative, TypeInv, Roles, [Next]_vars
  PROVE  CalmStep
<1>1. ASSUME NEW t \in Apps, AppStep(t)
      PROVE  CalmStep
  BY <1>1 DEF AppStep, Cooperative, CloseStatus, Rebind, CalmStep
<1>2. ASSUME NEW t \in Threads, CallStep(t)
      PROVE  CalmStep
  <2>1. ~CloseWs(t) /\ ~CloseForget(t) /\ ~RebindClose(t) /\ ~RebindForget(t)
        /\ ~RebindConnect(t) /\ ~AssertionError(t)
    BY DEF Roles, CloseWs, CloseForget, RebindClose, RebindForget,
       RebindConnect, AssertionError
  <2> QED
    BY <1>2, <2>1 DEF CallStep, Connect, CalmStep
<1>3. ASSUME NEW m \in Monitors, MonitorStep(m)
      PROVE  CalmStep
  <2>1. ~MonitorStops(m)
    BY DEF MonitorStops, Roles
  <2>2. Others(m)
    BY <1>3 DEF MonitorStep, Scheduled, Cooperative, Others
  <2> QED
    BY <1>3, <2>1, <2>2 DEF MonitorStep, Monitor, CalmStep
<1>4. ASSUME NEW c \in Conns, Opens(c) \/ Drops(c) \/ RunStep(c)
      PROVE  CalmStep
  BY <1>4 DEF RunStep, CallbackRaises, RunForever, Callback, SetNeedRecovery,
     CalmStep, threadVars
<1>5. CASE UNCHANGED vars
  BY <1>5 DEF vars, connVars, threadVars, CalmStep
<1> QED
  BY <1>1, <1>2, <1>3, <1>4, <1>5 DEF Next

\* connect() returns to the send or the recovery that called it.
LEMMA RolesStep ==
  ASSUME TypeInv, OrderInv, CalmStep
  PROVE  Roles'
<1> TypeOK /\ Roles /\ Holders /\ OneWorker /\ Phases /\ Unmade
  BY DEF TypeInv, OrderInv
<1> USE DEF Roles, MonitorPcs, SendPcs, ConnectPcs, TypeOK, Goto, connVars, threadVars,
            Threads
<1>1. ASSUME NEW t \in Apps, NEW x \in Streams, StartStream(t, x)
      PROVE  Roles'
  BY <1>1 DEF StartStream
<1>2. ASSUME NEW t \in Threads, Acquire(t)
      PROVE  Roles'
  BY <1>2 DEF Acquire
<1>3. ASSUME NEW t \in Threads, SendInit(t)
      PROVE  Roles'
  BY <1>3 DEF SendInit
<1>4. ASSUME NEW t \in Threads, SendWs(t)
      PROVE  Roles'
  BY <1>4 DEF SendWs
<1>5. ASSUME NEW t \in Threads, ConnectEntry(t)
      PROVE  Roles'
  BY <1>5 DEF ConnectEntry
<1>6. ASSUME NEW t \in Threads, ConnectWhile(t)
      PROVE  Roles'
  BY <1>6 DEF ConnectWhile
<1>7. ASSUME NEW t \in Threads, Dial(t)
      PROVE  Roles'
  BY <1>7 DEF Dial, FreeMonitors, Phases
<1>8. ASSUME NEW t \in Threads, MakeWs(t)
      PROVE  Roles'
  BY <1>8 DEF MakeWs
<1>9. ASSUME NEW t \in Threads, WaitEnds(t)
      PROVE  Roles'
  BY <1>9 DEF WaitEnds
<1>10. ASSUME NEW t \in Threads, WaitTimeout(t)
      PROVE  Roles'
  BY <1>10 DEF WaitTimeout
<1>11. ASSUME NEW t \in Threads, Activate(t)
      PROVE  Roles'
  BY <1>11 DEF Activate
<1>12. ASSUME NEW m \in Monitors, MonitorStarts(m)
      PROVE  Roles'
  BY <1>12 DEF MonitorStarts
<1>13. ASSUME NEW m \in Monitors, MonitorCheck(m), Others(m)
      PROVE  Roles'
  BY <1>13 DEF MonitorCheck
<1>14. ASSUME NEW m \in Monitors, MonitorMark(m)
      PROVE  Roles'
  BY <1>14 DEF MonitorMark
<1>15. ASSUME NEW m \in Monitors, RecoveryClose(m)
      PROVE  Roles'
  BY <1>15 DEF RecoveryClose
<1>16. ASSUME NEW m \in Monitors, RecoveryForget(m)
      PROVE  Roles'
  BY <1>16 DEF RecoveryForget
<1>17. ASSUME NEW m \in Monitors, ReconnectStreams(m)
      PROVE  Roles'
  BY <1>17 DEF ReconnectStreams
<1>18. ASSUME NEW c \in Conns, Opens(c)
      PROVE  Roles'
  BY <1>18 DEF Opens
<1>19. ASSUME NEW c \in Conns, Drops(c)
      PROVE  Roles'
  BY <1>19 DEF Drops
<1>20. CASE UNCHANGED <<status, ws, subs, sem, conn, listed, threadVars>>
  BY <1>20 DEF threadVars
<1> QED
  BY <1>1, <1>2, <1>3, <1>4, <1>5, <1>6, <1>7, <1>8, <1>9, <1>10, <1>11,
     <1>12, <1>13, <1>14, <1>15, <1>16, <1>17, <1>18, <1>19, <1>20 DEF
     CalmStep

\* Nothing but the end of send gives the semaphore back.
LEMMA HoldersStep ==
  ASSUME TypeInv, OrderInv, CalmStep
  PROVE  Holders'
<1> TypeOK /\ Roles /\ Holders /\ OneWorker /\ Phases /\ Unmade
  BY DEF TypeInv, OrderInv
<1> USE DEF Holders, ConnectPcs, TypeOK, Goto, connVars, threadVars,
            Threads
<1>1. ASSUME NEW t \in Apps, NEW x \in Streams, StartStream(t, x)
      PROVE  Holders'
  BY <1>1 DEF StartStream
<1>2. ASSUME NEW t \in Threads, Acquire(t)
      PROVE  Holders'
  BY <1>2, ConstantsAssumption DEF Acquire, ConstantsAssumption
<1>3. ASSUME NEW t \in Threads, SendInit(t)
      PROVE  Holders'
  BY <1>3 DEF SendInit
<1>4. ASSUME NEW t \in Threads, SendWs(t)
      PROVE  Holders'
  BY <1>4 DEF SendWs
<1>5. ASSUME NEW t \in Threads, ConnectEntry(t)
      PROVE  Holders'
  BY <1>5 DEF ConnectEntry, Roles
<1>6. ASSUME NEW t \in Threads, ConnectWhile(t)
      PROVE  Holders'
  BY <1>6 DEF ConnectWhile, Roles
<1>7. ASSUME NEW t \in Threads, Dial(t)
      PROVE  Holders'
  BY <1>7 DEF Dial, FreeMonitors
<1>8. ASSUME NEW t \in Threads, MakeWs(t)
      PROVE  Holders'
  BY <1>8 DEF MakeWs
<1>9. ASSUME NEW t \in Threads, WaitEnds(t)
      PROVE  Holders'
  BY <1>9 DEF WaitEnds
<1>10. ASSUME NEW t \in Threads, WaitTimeout(t)
      PROVE  Holders'
  BY <1>10 DEF WaitTimeout
<1>11. ASSUME NEW t \in Threads, Activate(t)
      PROVE  Holders'
  BY <1>11 DEF Activate
<1>12. ASSUME NEW m \in Monitors, MonitorStarts(m)
      PROVE  Holders'
  BY <1>12 DEF MonitorStarts
<1>13. ASSUME NEW m \in Monitors, MonitorCheck(m), Others(m)
      PROVE  Holders'
  BY <1>13 DEF MonitorCheck
<1>14. ASSUME NEW m \in Monitors, MonitorMark(m)
      PROVE  Holders'
  BY <1>14 DEF MonitorMark
<1>15. ASSUME NEW m \in Monitors, RecoveryClose(m)
      PROVE  Holders'
  BY <1>15 DEF RecoveryClose
<1>16. ASSUME NEW m \in Monitors, RecoveryForget(m)
      PROVE  Holders'
  BY <1>16 DEF RecoveryForget
<1>17. ASSUME NEW m \in Monitors, ReconnectStreams(m)
      PROVE  Holders'
  BY <1>17 DEF ReconnectStreams
<1>18. ASSUME NEW c \in Conns, Opens(c)
      PROVE  Holders'
  BY <1>18 DEF Opens
<1>19. ASSUME NEW c \in Conns, Drops(c)
      PROVE  Holders'
  BY <1>19 DEF Drops
<1>20. CASE UNCHANGED <<status, ws, subs, sem, conn, listed, threadVars>>
  BY <1>20 DEF threadVars
<1> QED
  BY <1>1, <1>2, <1>3, <1>4, <1>5, <1>6, <1>7, <1>8, <1>9, <1>10, <1>11,
     <1>12, <1>13, <1>14, <1>15, <1>16, <1>17, <1>18, <1>19, <1>20 DEF
     CalmStep

\* A sender connects only in INIT, where no monitor acts and the semaphore
\* keeps other senders away; a monitor marks a loss only in ACTIVE, where no
\* thread that waits is connecting.
LEMMA OneWorkerStep ==
  ASSUME TypeInv, OrderInv, CalmStep
  PROVE  OneWorker'
<1> TypeOK /\ Roles /\ Holders /\ OneWorker /\ Phases /\ Unmade
  BY DEF TypeInv, OrderInv
<1> USE DEF OneWorker, Working, ConnectPcs, TypeOK, Goto, connVars, threadVars,
            Threads
<1>1. ASSUME NEW t \in Apps, NEW x \in Streams, StartStream(t, x)
      PROVE  OneWorker'
  BY <1>1 DEF StartStream
<1>2. ASSUME NEW t \in Threads, Acquire(t)
      PROVE  OneWorker'
  BY <1>2 DEF Acquire
<1>3. ASSUME NEW t \in Threads, SendInit(t)
      PROVE  OneWorker'
  BY <1>3 DEF SendInit, Phases, Holders, Roles
<1>4. ASSUME NEW t \in Threads, SendWs(t)
      PROVE  OneWorker'
  BY <1>4 DEF SendWs
<1>5. ASSUME NEW t \in Threads, ConnectEntry(t)
      PROVE  OneWorker'
  BY <1>5 DEF ConnectEntry
<1>6. ASSUME NEW t \in Threads, ConnectWhile(t)
      PROVE  OneWorker'
  BY <1>6 DEF ConnectWhile
<1>7. ASSUME NEW t \in Threads, Dial(t)
      PROVE  OneWorker'
  BY <1>7 DEF Dial, FreeMonitors, Roles
<1>8. ASSUME NEW t \in Threads, MakeWs(t)
      PROVE  OneWorker'
  BY <1>8 DEF MakeWs
<1>9. ASSUME NEW t \in Threads, WaitEnds(t)
      PROVE  OneWorker'
  BY <1>9 DEF WaitEnds
<1>10. ASSUME NEW t \in Threads, WaitTimeout(t)
      PROVE  OneWorker'
  BY <1>10 DEF WaitTimeout
<1>11. ASSUME NEW t \in Threads, Activate(t)
      PROVE  OneWorker'
  BY <1>11 DEF Activate
<1>12. ASSUME NEW m \in Monitors, MonitorStarts(m)
      PROVE  OneWorker'
  BY <1>12 DEF MonitorStarts
<1>13. ASSUME NEW m \in Monitors, MonitorCheck(m), Others(m)
      PROVE  OneWorker'
  BY <1>13 DEF MonitorCheck, Others, Yields, Phases
<1>14. ASSUME NEW m \in Monitors, MonitorMark(m)
      PROVE  OneWorker'
  BY <1>14 DEF MonitorMark
<1>15. ASSUME NEW m \in Monitors, RecoveryClose(m)
      PROVE  OneWorker'
  BY <1>15 DEF RecoveryClose
<1>16. ASSUME NEW m \in Monitors, RecoveryForget(m)
      PROVE  OneWorker'
  BY <1>16 DEF RecoveryForget
<1>17. ASSUME NEW m \in Monitors, ReconnectStreams(m)
      PROVE  OneWorker'
  BY <1>17 DEF ReconnectStreams
<1>18. ASSUME NEW c \in Conns, Opens(c)
      PROVE  OneWorker'
  BY <1>18 DEF Opens
<1>19. ASSUME NEW c \in Conns, Drops(c)
      PROVE  OneWorker'
  BY <1>19 DEF Drops
<1>20. CASE UNCHANGED <<status, ws, subs, sem, conn, listed, threadVars>>
  BY <1>20 DEF threadVars
<1> QED
  BY <1>1, <1>2, <1>3, <1>4, <1>5, <1>6, <1>7, <1>8, <1>9, <1>10, <1>11,
     <1>12, <1>13, <1>14, <1>15, <1>16, <1>17, <1>18, <1>19, <1>20 DEF
     CalmStep

\* Only the thread at work moves status and ws on.
LEMMA PhasesStep ==
  ASSUME TypeInv, OrderInv, CalmStep
  PROVE  Phases'
<1> TypeOK /\ Roles /\ Holders /\ OneWorker /\ Phases /\ Unmade
  BY DEF TypeInv, OrderInv
<1> USE DEF Phases, ConnectPcs, TypeOK, Goto, connVars, threadVars,
            Threads
<1>1. ASSUME NEW t \in Apps, NEW x \in Streams, StartStream(t, x)
      PROVE  Phases'
  BY <1>1 DEF StartStream, OneWorker, Working, Holders, Roles, Unmade
<1>2. ASSUME NEW t \in Threads, Acquire(t)
      PROVE  Phases'
  BY <1>2 DEF Acquire, OneWorker, Working, Holders, Roles, Unmade
<1>3. ASSUME NEW t \in Threads, SendInit(t)
      PROVE  Phases'
  BY <1>3 DEF SendInit, OneWorker, Working, Holders, Roles, Unmade
<1>4. ASSUME NEW t \in Threads, SendWs(t)
      PROVE  Phases'
  BY <1>4 DEF SendWs, OneWorker, Working, Holders, Roles, Unmade
<1>5. ASSUME NEW t \in Threads, ConnectEntry(t)
      PROVE  Phases'
  BY <1>5 DEF ConnectEntry, OneWorker, Working, Holders, Roles, Unmade
<1>6. ASSUME NEW t \in Threads, ConnectWhile(t)
      PROVE  Phases'
  BY <1>6 DEF ConnectWhile, OneWorker, Working, Holders, Roles, Unmade
<1>7. ASSUME NEW t \in Threads, Dial(t)
      PROVE  Phases'
  BY <1>7 DEF Dial, FreeMonitors, OneWorker, Working
<1>8. ASSUME NEW t \in Threads, MakeWs(t)
      PROVE  Phases'
  BY <1>8, ConstantsAssumption DEF MakeWs, FreeConns, OneWorker, Working,
     ConstantsAssumption
<1>9. ASSUME NEW t \in Threads, WaitEnds(t)
      PROVE  Phases'
  BY <1>9 DEF WaitEnds, Connected, OneWorker, Working
<1>10. ASSUME NEW t \in Threads, WaitTimeout(t)
      PROVE  Phases'
  BY <1>10 DEF WaitTimeout, OneWorker, Working, Holders, Roles, Unmade
<1>11. ASSUME NEW t \in Threads, Activate(t)
      PROVE  Phases'
  BY <1>11 DEF Activate, OneWorker, Working, Holders, Roles, Unmade
<1>12. ASSUME NEW m \in Monitors, MonitorStarts(m)
      PROVE  Phases'
  BY <1>12 DEF MonitorStarts, OneWorker, Working, Holders, Roles, Unmade
<1>13. ASSUME NEW m \in Monitors, MonitorCheck(m), Others(m)
      PROVE  Phases'
  BY <1>13 DEF MonitorCheck, Roles, Status
<1>14. ASSUME NEW m \in Monitors, MonitorMark(m)
      PROVE  Phases'
  BY <1>14 DEF MonitorMark, OneWorker, Working, Holders, Roles, Unmade
<1>15. ASSUME NEW m \in Monitors, RecoveryClose(m)
      PROVE  Phases'
  BY <1>15 DEF RecoveryClose, ShutIfAny, Shut, OneWorker, Working
<1>16. ASSUME NEW m \in Monitors, RecoveryForget(m)
      PROVE  Phases'
  BY <1>16 DEF RecoveryForget, OneWorker, Working, Holders, Roles, Unmade
<1>17. ASSUME NEW m \in Monitors, ReconnectStreams(m)
      PROVE  Phases'
  BY <1>17 DEF ReconnectStreams, OneWorker, Working, Holders, Roles, Unmade
<1>18. ASSUME NEW c \in Conns, Opens(c)
      PROVE  Phases'
  BY <1>18 DEF Opens
<1>19. ASSUME NEW c \in Conns, Drops(c)
      PROVE  Phases'
  BY <1>19 DEF Drops, Shut
<1>20. CASE UNCHANGED <<status, ws, subs, sem, conn, listed, threadVars>>
  BY <1>20 DEF threadVars
<1> QED
  BY <1>1, <1>2, <1>3, <1>4, <1>5, <1>6, <1>7, <1>8, <1>9, <1>10, <1>11,
     <1>12, <1>13, <1>14, <1>15, <1>16, <1>17, <1>18, <1>19, <1>20 DEF
     CalmStep

\* In INIT there is a WebSocketApp only while its maker waits for it.
LEMMA UnmadeStep ==
  ASSUME TypeInv, OrderInv, CalmStep
  PROVE  Unmade'
<1> TypeOK /\ Roles /\ Holders /\ OneWorker /\ Phases /\ Unmade
  BY DEF TypeInv, OrderInv
<1> USE DEF Unmade, ConnectPcs, TypeOK, Goto, connVars, threadVars,
            Threads
<1>1. ASSUME NEW t \in Apps, NEW x \in Streams, StartStream(t, x)
      PROVE  Unmade'
  BY <1>1 DEF StartStream
<1>2. ASSUME NEW t \in Threads, Acquire(t)
      PROVE  Unmade'
  BY <1>2 DEF Acquire
<1>3. ASSUME NEW t \in Threads, SendInit(t)
      PROVE  Unmade'
  BY <1>3 DEF SendInit
<1>4. ASSUME NEW t \in Threads, SendWs(t)
      PROVE  Unmade'
  BY <1>4 DEF SendWs
<1>5. ASSUME NEW t \in Threads, ConnectEntry(t)
      PROVE  Unmade'
  BY <1>5 DEF ConnectEntry, Phases
<1>6. ASSUME NEW t \in Threads, ConnectWhile(t)
      PROVE  Unmade'
  BY <1>6 DEF ConnectWhile, Phases, Roles
<1>7. ASSUME NEW t \in Threads, Dial(t)
      PROVE  Unmade'
  BY <1>7 DEF Dial, FreeMonitors
<1>8. ASSUME NEW t \in Threads, MakeWs(t)
      PROVE  Unmade'
  BY <1>8 DEF MakeWs
<1>9. ASSUME NEW t \in Threads, WaitEnds(t)
      PROVE  Unmade'
  BY <1>9 DEF WaitEnds
<1>10. ASSUME NEW t \in Threads, WaitTimeout(t)
      PROVE  Unmade'
  BY <1>10 DEF WaitTimeout
<1>11. ASSUME NEW t \in Threads, Activate(t)
      PROVE  Unmade'
  BY <1>11 DEF Activate
<1>12. ASSUME NEW m \in Monitors, MonitorStarts(m)
      PROVE  Unmade'
  BY <1>12 DEF MonitorStarts
<1>13. ASSUME NEW m \in Monitors, MonitorCheck(m), Others(m)
      PROVE  Unmade'
  BY <1>13 DEF MonitorCheck
<1>14. ASSUME NEW m \in Monitors, MonitorMark(m)
      PROVE  Unmade'
  BY <1>14 DEF MonitorMark
<1>15. ASSUME NEW m \in Monitors, RecoveryClose(m)
      PROVE  Unmade'
  BY <1>15 DEF RecoveryClose
<1>16. ASSUME NEW m \in Monitors, RecoveryForget(m)
      PROVE  Unmade'
  BY <1>16 DEF RecoveryForget
<1>17. ASSUME NEW m \in Monitors, ReconnectStreams(m)
      PROVE  Unmade'
  BY <1>17 DEF ReconnectStreams
<1>18. ASSUME NEW c \in Conns, Opens(c)
      PROVE  Unmade'
  BY <1>18 DEF Opens
<1>19. ASSUME NEW c \in Conns, Drops(c)
      PROVE  Unmade'
  BY <1>19 DEF Drops
<1>20. CASE UNCHANGED <<status, ws, subs, sem, conn, listed, threadVars>>
  BY <1>20 DEF threadVars
<1> QED
  BY <1>1, <1>2, <1>3, <1>4, <1>5, <1>6, <1>7, <1>8, <1>9, <1>10, <1>11,
     <1>12, <1>13, <1>14, <1>15, <1>16, <1>17, <1>18, <1>19, <1>20 DEF
     CalmStep

\* ACTIVE is declared of a connection that has been up, and RECOVERY before
\* it is dropped.
LEMMA SettledStep ==
  ASSUME TypeInv, OrderInv, Settled, CalmStep
  PROVE  Settled'
<1> TypeOK /\ Roles /\ Holders /\ OneWorker /\ Phases /\ Unmade
  BY DEF TypeInv, OrderInv
<1> USE DEF Settled, ConnectPcs, TypeOK, Goto, connVars, threadVars,
            Threads
<1>1. ASSUME NEW t \in Apps, NEW x \in Streams, StartStream(t, x)
      PROVE  Settled'
  BY <1>1 DEF StartStream
<1>2. ASSUME NEW t \in Threads, Acquire(t)
      PROVE  Settled'
  BY <1>2 DEF Acquire
<1>3. ASSUME NEW t \in Threads, SendInit(t)
      PROVE  Settled'
  BY <1>3 DEF SendInit
<1>4. ASSUME NEW t \in Threads, SendWs(t)
      PROVE  Settled'
  BY <1>4 DEF SendWs
<1>5. ASSUME NEW t \in Threads, ConnectEntry(t)
      PROVE  Settled'
  BY <1>5 DEF ConnectEntry
<1>6. ASSUME NEW t \in Threads, ConnectWhile(t)
      PROVE  Settled'
  BY <1>6 DEF ConnectWhile
<1>7. ASSUME NEW t \in Threads, Dial(t)
      PROVE  Settled'
  BY <1>7 DEF Dial
<1>8. ASSUME NEW t \in Threads, MakeWs(t)
      PROVE  Settled'
  BY <1>8 DEF MakeWs, Phases
<1>9. ASSUME NEW t \in Threads, WaitEnds(t)
      PROVE  Settled'
  BY <1>9 DEF WaitEnds
<1>10. ASSUME NEW t \in Threads, WaitTimeout(t)
      PROVE  Settled'
  BY <1>10 DEF WaitTimeout, Phases
<1>11. ASSUME NEW t \in Threads, Activate(t)
      PROVE  Settled'
  BY <1>11 DEF Activate, Phases
<1>12. ASSUME NEW m \in Monitors, MonitorStarts(m)
      PROVE  Settled'
  BY <1>12 DEF MonitorStarts
<1>13. ASSUME NEW m \in Monitors, MonitorCheck(m), Others(m)
      PROVE  Settled'
  BY <1>13 DEF MonitorCheck
<1>14. ASSUME NEW m \in Monitors, MonitorMark(m)
      PROVE  Settled'
  BY <1>14 DEF MonitorMark
<1>15. ASSUME NEW m \in Monitors, RecoveryClose(m)
      PROVE  Settled'
  BY <1>15 DEF RecoveryClose, Phases
<1>16. ASSUME NEW m \in Monitors, RecoveryForget(m)
      PROVE  Settled'
  BY <1>16 DEF RecoveryForget, Phases
<1>17. ASSUME NEW m \in Monitors, ReconnectStreams(m)
      PROVE  Settled'
  BY <1>17 DEF ReconnectStreams
<1>18. ASSUME NEW c \in Conns, Opens(c)
      PROVE  Settled'
  BY <1>18 DEF Opens
<1>19. ASSUME NEW c \in Conns, Drops(c)
      PROVE  Settled'
  BY <1>19 DEF Drops, Shut
<1>20. CASE UNCHANGED <<status, ws, subs, sem, conn, listed, threadVars>>
  BY <1>20 DEF threadVars
<1> QED
  BY <1>1, <1>2, <1>3, <1>4, <1>5, <1>6, <1>7, <1>8, <1>9, <1>10, <1>11,
     <1>12, <1>13, <1>14, <1>15, <1>16, <1>17, <1>18, <1>19, <1>20 DEF
     CalmStep

\* Outside ACTIVE no monitor leaves, and the one that leaves its watch in
\* ACTIVE is the one that recovers.
LEMMA WatchedStep ==
  ASSUME TypeInv, OrderInv, Settled, Watched, CalmStep
  PROVE  Watched'
<1> TypeOK /\ Roles /\ Holders /\ OneWorker /\ Phases /\ Unmade
  BY DEF TypeInv, OrderInv
<1> USE DEF Watched, Dialed, Watching, ConnectPcs, TypeOK, Goto, connVars, threadVars,
            Threads
<1>1. ASSUME NEW t \in Apps, NEW x \in Streams, StartStream(t, x)
      PROVE  Watched'
  BY <1>1 DEF StartStream
<1>2. ASSUME NEW t \in Threads, Acquire(t)
      PROVE  Watched'
  BY <1>2 DEF Acquire
<1>3. ASSUME NEW t \in Threads, SendInit(t)
      PROVE  Watched'
  BY <1>3 DEF SendInit
<1>4. ASSUME NEW t \in Threads, SendWs(t)
      PROVE  Watched'
  BY <1>4 DEF SendWs
<1>5. ASSUME NEW t \in Threads, ConnectEntry(t)
      PROVE  Watched'
  BY <1>5 DEF ConnectEntry, Roles
<1>6. ASSUME NEW t \in Threads, ConnectWhile(t)
      PROVE  Watched'
  BY <1>6 DEF ConnectWhile, Roles
<1>7. ASSUME NEW t \in Threads, Dial(t)
      PROVE  Watched'
  <2>1. CASE ws # None
    BY <1>7, <2>1 DEF Dial, Phases
  <2>2. CASE ws = None
    <3>1. PICK m \in FreeMonitors : pc' = [pc EXCEPT ![t] = "mkws", ![m] = "poll"]
      BY <1>7, <2>2 DEF Dial
    <3>2. m # t /\ pc'[m] = "poll" /\ m \in Monitors
      BY <1>7, <3>1 DEF Dial, FreeMonitors
    <3> QED
      BY <3>2
  <2> QED
    BY <2>1, <2>2
<1>8. ASSUME NEW t \in Threads, MakeWs(t)
      PROVE  Watched'
  BY <1>8 DEF MakeWs
<1>9. ASSUME NEW t \in Threads, WaitEnds(t)
      PROVE  Watched'
  BY <1>9 DEF WaitEnds
<1>10. ASSUME NEW t \in Threads, WaitTimeout(t)
      PROVE  Watched'
  BY <1>10 DEF WaitTimeout
<1>11. ASSUME NEW t \in Threads, Activate(t)
      PROVE  Watched'
  BY <1>11 DEF Activate
<1>12. ASSUME NEW m \in Monitors, MonitorStarts(m)
      PROVE  Watched'
  BY <1>12 DEF MonitorStarts
<1>13. ASSUME NEW m \in Monitors, MonitorCheck(m), Others(m)
      PROVE  Watched'
  BY <1>13 DEF MonitorCheck, Settled, Roles, Status, OneWorker, Working
<1>14. ASSUME NEW m \in Monitors, MonitorMark(m)
      PROVE  Watched'
  BY <1>14 DEF MonitorMark, OneWorker, Working
<1>15. ASSUME NEW m \in Monitors, RecoveryClose(m)
      PROVE  Watched'
  BY <1>15 DEF RecoveryClose
<1>16. ASSUME NEW m \in Monitors, RecoveryForget(m)
      PROVE  Watched'
  BY <1>16 DEF RecoveryForget
<1>17. ASSUME NEW m \in Monitors, ReconnectStreams(m)
      PROVE  Watched'
  BY <1>17 DEF ReconnectStreams
<1>18. ASSUME NEW c \in Conns, Opens(c)
      PROVE  Watched'
  BY <1>18 DEF Opens
<1>19. ASSUME NEW c \in Conns, Drops(c)
      PROVE  Watched'
  BY <1>19 DEF Drops
<1>20. CASE UNCHANGED <<status, ws, subs, sem, conn, listed, threadVars>>
  BY <1>20 DEF threadVars
<1> QED
  BY <1>1, <1>2, <1>3, <1>4, <1>5, <1>6, <1>7, <1>8, <1>9, <1>10, <1>11,
     <1>12, <1>13, <1>14, <1>15, <1>16, <1>17, <1>18, <1>19, <1>20 DEF
     CalmStep

\* A step that keeps the connection and every debt.
LEMMA KeptUntouched ==
  ASSUME Kept, status' = status, subs' = subs,
         \A t \in Threads, x \in subs : Owes(t, x) => Owes(t, x)',
         status = "ACTIVE" /\ Connected' =>
           Connected /\ \A x \in listed[ws] : x \in listed'[ws']
  PROVE  Kept'
  BY DEF Kept

\* So does a step of one thread that leaves the connection alone.
LEMMA ThreadKeeps ==
  ASSUME Kept, NEW t \in Threads,
         UNCHANGED <<status, ws, subs, conn, listed>>,
         \A u \in Threads \ {t} : /\ pc'[u] = pc[u] /\ ret'[u] = ret[u]
                                  /\ arg'[u] = arg[u] /\ done'[u] = done[u],
         \A x \in subs : Owes(t, x) => Owes(t, x)'
  PROVE  Kept'
<1>1. \A u \in Threads \ {t} : \A x \in subs : Owes(u, x) => Owes(u, x)'
  BY DEF Owes, WillSend, WillResend
<1>2. Connected' = Connected
  BY DEF Connected
<1> QED
  BY <1>1, <1>2, KeptUntouched

\* A failed send leaves a dead connection behind, whose recovery owes every
\* subscription again.
LEMMA KeptStep ==
  ASSUME TypeInv, OrderInv, Settled, Kept, CalmStep
  PROVE  Kept'
<1> TypeOK /\ Roles /\ Holders /\ OneWorker /\ Phases /\ Unmade
  BY DEF TypeInv, OrderInv
<1> USE DEF SendPcs, ConnectPcs, TypeOK, Goto, connVars, threadVars,
            Threads
<1>1. ASSUME NEW t \in Apps, NEW x \in Streams, StartStream(t, x)
      PROVE  Kept'
  <2>1. status' = status /\ Connected' = Connected /\ listed' = listed /\ ws' = ws
    BY <1>1 DEF StartStream, Connected
  <2>2. Owes(t, x)'
    BY <1>1 DEF StartStream, Owes, WillSend, WillResend
  <2>3. \A u \in Threads : \A y \in subs : Owes(u, y) => Owes(u, y)'
    BY <1>1 DEF StartStream, Owes, WillSend, WillResend
  <2>4. subs' = subs \cup {x}
    BY <1>1 DEF StartStream
  <2> QED
    BY <2>1, <2>2, <2>3, <2>4 DEF Kept
<1>2. ASSUME NEW t \in Threads, Acquire(t)
      PROVE  Kept'
  BY <1>2, ThreadKeeps DEF Acquire, Owes, WillSend, WillResend
<1>3. ASSUME NEW t \in Threads, SendInit(t)
      PROVE  Kept'
  BY <1>3, ThreadKeeps DEF SendInit, Owes, WillSend, WillResend
<1>4. ASSUME NEW t \in Threads, SendWs(t)
      PROVE  Kept'
  <2>1. status # "INIT" /\ status' = status /\ subs' = subs /\ ws' = ws
    BY <1>4 DEF SendWs, Phases
  <2>2. Connected' = Connected
    BY <1>4 DEF SendWs, Connected
  <2>3. CASE ~Connected
    BY <2>1, <2>2, <2>3 DEF Kept
  <2>4. CASE Connected
    <3>1. \A y \in listed[ws] \cup {arg[t]} : y \in listed'[ws]
      BY <1>4, <2>4 DEF SendWs, Connected
    <3>2. ASSUME NEW u \in Threads, NEW y \in subs, Owes(u, y), y # arg[t]
          PROVE  Owes(u, y)'
      BY <1>4, <2>4, <3>2, ConstantsAssumption
         DEF SendWs, Owes, WillSend, WillResend, ConstantsAssumption
    <3>3. ASSUME NEW u \in Threads, u # t, NEW y \in subs, Owes(u, y)
          PROVE  Owes(u, y)'
      BY <1>4, <2>4, <3>3 DEF SendWs, Owes, WillSend, WillResend
    <3> QED
      BY <2>1, <2>2, <3>1, <3>2, <3>3 DEF Kept
  <2> QED
    BY <2>3, <2>4
<1>5. ASSUME NEW t \in Threads, ConnectEntry(t)
      PROVE  Kept'
  BY <1>5, ThreadKeeps DEF ConnectEntry, Owes, WillSend, WillResend, Roles
<1>6. ASSUME NEW t \in Threads, ConnectWhile(t)
      PROVE  Kept'
  BY <1>6, ThreadKeeps DEF ConnectWhile, Owes, WillSend, WillResend, Roles
<1>7. ASSUME NEW t \in Threads, Dial(t)
      PROVE  Kept'
  <2>1. ws = None
    BY <1>7 DEF Dial, Phases
  <2>2. UNCHANGED <<status, ws, subs, conn, listed, ret, arg, done>>
    BY <1>7 DEF Dial
  <2>3. ASSUME NEW u \in Threads, NEW y \in subs, Owes(u, y)
        PROVE  Owes(u, y)'
    BY <1>7, <2>1, <2>3 DEF Dial, FreeMonitors, Owes, WillSend, WillResend
  <2> QED
    BY <2>2, <2>3, KeptUntouched DEF Connected
<1>8. ASSUME NEW t \in Threads, MakeWs(t)
      PROVE  Kept'
  <2>1. status # "ACTIVE" /\ UNCHANGED <<status, subs>>
    BY <1>8 DEF MakeWs, Phases
  <2>2. ASSUME NEW u \in Threads, NEW y \in subs, Owes(u, y)
        PROVE  Owes(u, y)'
    BY <1>8, <2>2 DEF MakeWs, Owes, WillSend, WillResend
  <2> QED
    BY <2>1, <2>2, KeptUntouched
<1>9. ASSUME NEW t \in Threads, WaitEnds(t)
      PROVE  Kept'
  BY <1>9, ThreadKeeps DEF WaitEnds, Owes, WillSend, WillResend
<1>10. ASSUME NEW t \in Threads, WaitTimeout(t)
      PROVE  Kept'
  <2>1. status # "ACTIVE" /\ UNCHANGED <<status, subs>>
    BY <1>10 DEF WaitTimeout, Phases
  <2>2. ASSUME NEW u \in Threads, NEW y \in subs, Owes(u, y)
        PROVE  Owes(u, y)'
    BY <1>10, <2>2 DEF WaitTimeout, Owes, WillSend, WillResend
  <2> QED
    BY <2>1, <2>2, KeptUntouched
<1>11. ASSUME NEW t \in Threads, Activate(t)
      PROVE  Kept'
  <2>1. ASSUME NEW u \in Threads, NEW y \in subs, Owes(u, y)
        PROVE  Owes(u, y)'
    BY <1>11, <2>1 DEF Activate, Owes, WillSend, WillResend
  <2>2. CASE status = "INIT"
    BY <1>11, <2>1, <2>2 DEF Activate, Kept
  <2>3. CASE status # "INIT"
    <3>1. \A y \in subs : Owes(t, y)
      BY <1>11, <2>3 DEF Activate, Phases, Roles, Owes, WillSend, WillResend
    <3> QED
      BY <1>11, <2>1, <3>1 DEF Activate, Kept
  <2> QED
    BY <2>2, <2>3
<1>12. ASSUME NEW m \in Monitors, MonitorStarts(m)
      PROVE  Kept'
  BY <1>12, ThreadKeeps DEF MonitorStarts, Owes, WillSend, WillResend
<1>13. ASSUME NEW m \in Monitors, MonitorCheck(m), Others(m)
      PROVE  Kept'
  BY <1>13, ThreadKeeps DEF MonitorCheck, Owes, WillSend, WillResend
<1>14. ASSUME NEW m \in Monitors, MonitorMark(m)
      PROVE  Kept'
  BY <1>14 DEF MonitorMark, Kept
<1>15. ASSUME NEW m \in Monitors, RecoveryClose(m)
      PROVE  Kept'
  BY <1>15 DEF RecoveryClose, Phases, Kept
<1>16. ASSUME NEW m \in Monitors, RecoveryForget(m)
      PROVE  Kept'
  BY <1>16 DEF RecoveryForget, Phases, Kept
<1>17. ASSUME NEW m \in Monitors, ReconnectStreams(m)
      PROVE  Kept'
  BY <1>17, ThreadKeeps DEF ReconnectStreams, Owes, WillSend, WillResend
<1>18. ASSUME NEW c \in Conns, Opens(c)
      PROVE  Kept'
  <2>1. UNCHANGED <<status, ws, subs, listed, pc, ret, arg, done>>
    BY <1>18 DEF Opens
  <2>2. status = "ACTIVE" /\ Connected' => Connected
    BY <1>18 DEF Opens, Settled, Connected
  <2> QED
    BY <2>1, <2>2, KeptUntouched DEF Owes, WillSend, WillResend
<1>19. ASSUME NEW c \in Conns, Drops(c)
      PROVE  Kept'
  <2>1. UNCHANGED <<status, ws, subs, pc, ret, arg, done>>
    BY <1>19 DEF Drops
  <2>2. Connected' => Connected /\ listed'[ws] = listed[ws]
    BY <1>19 DEF Drops, Shut, Connected
  <2> QED
    BY <2>1, <2>2, KeptUntouched DEF Owes, WillSend, WillResend
<1>20. CASE UNCHANGED <<status, ws, subs, sem, conn, listed, threadVars>>
  BY <1>20, KeptUntouched DEF Connected, Owes, WillSend, WillResend
<1> QED
  BY <1>1, <1>2, <1>3, <1>4, <1>5, <1>6, <1>7, <1>8, <1>9, <1>10, <1>11,
     <1>12, <1>13, <1>14, <1>15, <1>16, <1>17, <1>18, <1>19, <1>20 DEF
     CalmStep

LEMMA CalmInvStep ==
  ASSUME Cooperative, TypeInv, CalmInv, [Next]_vars
  PROVE  CalmInv'
<1>1. TypeInv /\ OrderInv /\ Settled /\ Watched /\ Kept
  BY DEF CalmInv
<1>2. CalmStep
  BY <1>1, OnlyCalmSteps DEF OrderInv
<1>3. OrderInv'
  BY <1>1, <1>2, RolesStep, HoldersStep, OneWorkerStep, PhasesStep, UnmadeStep
     DEF OrderInv
<1> QED
  BY <1>1, <1>2, <1>3, SettledStep, WatchedStep, KeptStep DEF CalmInv

LEMMA InitCalmInv == Init => CalmInv
<1> SUFFICES ASSUME Init PROVE CalmInv
  OBVIOUS
<1> USE DEF Init, Threads, ConnectPcs, MonitorPcs, SendPcs
<1>1. Roles
  BY DEF Roles
<1>2. Holders /\ OneWorker /\ Phases /\ Unmade
  BY DEF Holders, OneWorker, Working, Phases, Unmade
<1>3. Settled /\ Watched /\ Kept
  BY DEF Settled, Watched, Dialed, Kept
<1> QED
  BY <1>1, <1>2, <1>3 DEF CalmInv, OrderInv

LEMMA CalmCorrect ==
  ASSUME Cooperative
  PROVE  Spec => []CalmInv
<1>1. TypeInv /\ [Next]_vars => TypeInv'
  BY TypeStep, SendsAStreamStep DEF TypeInv
<1>2. TypeInv /\ CalmInv /\ [Next]_vars => CalmInv'
  BY CalmInvStep
<1> QED
  BY InitTypeInv, InitCalmInv, <1>1, <1>2, PTL DEF Spec

\* No two threads of the manager connect at the same time: the assertion at
\* the head of _connect never fails, whatever the number of senders, failed
\* dials and lost connections.
THEOREM ConnectsOneAtATime ==
  ASSUME Cooperative
  PROVE  Spec => []AssertionHolds
<1>1. CalmInv => AssertionHolds
  BY DEF CalmInv, OrderInv, Roles, AssertionHolds
<1> QED
  BY CalmCorrect, <1>1, PTL

\* An ACTIVE manager always has a monitor that watches the connection: the
\* monitor a dial starts outlives the recovery that dialed (_connect,
\* _monitor, _recovery).
THEOREM AlwaysWatched ==
  ASSUME Cooperative
  PROVE  Spec => []NeverUnattended
<1>1. CalmInv => NeverUnattended
  BY DEF CalmInv, Watched, Watching, NeverUnattended, Threads
<1> QED
  BY CalmCorrect, <1>1, PTL

\* A subscription that is recorded is streamed once every thread is at rest on
\* a connection that is up, whatever number of connections was lost while it
\* was sent: the thread that sends it or the one that recovers still owes it
\* (_start_stream, send, _reconnect_streams).
THEOREM SubscriptionsAreKept ==
  ASSUME Cooperative
  PROVE  Spec => []NoLostSubscription
<1>1. CalmInv => NoLostSubscription
  BY DEF CalmInv, Kept, NoLostSubscription, AtRest, Owes, WillSend, WillResend,
     SendPcs, ConnectPcs
<1> QED
  BY CalmCorrect, <1>1, PTL

=============================================================================
