--------------------------- MODULE BaseWsManager ---------------------------
(***************************************************************************)
(* The websocket connection manager of pytradekit                          *)
(* (gateway/websocket/base_ws_manager.py, with the stream bookkeeping of   *)
(* gateway/websocket/ws_manager.py and the renewal of ws/binance_ws.py).    *)
(*                                                                         *)
(* One manager object is shared by the application's threads, by one       *)
(* monitor thread per connection attempt and by one run_forever thread     *)
(* per WebSocketApp.  Nothing but `send' is synchronised, so a step of     *)
(* this model is what one thread does between two reads or writes of the   *)
(* shared attributes status, ws and _needRecovery.                         *)
(***************************************************************************)
EXTENDS Naturals, FiniteSets

CONSTANTS
  Apps,       \* application threads: send, _start_stream, close, subscribe
  Monitors,   \* identities for the threads started by _connect
  Conns,      \* identities for WebSocketApp objects (and their threads)
  Streams,    \* the subscriptions the application may ask for
  None,       \* Python's None: no WebSocketApp, or a free semaphore
  MaxFaults,  \* how many times the network may misbehave
  MayClose,   \* whether the application ever calls close()
  MayRebind,  \* whether it calls _reconnect_with_new_url()
  Preemptive  \* whether the interpreter switches threads between any two steps

ASSUME ConstantsAssumption ==
  /\ Apps \cap Monitors = {}
  /\ Conns \subseteq Nat /\ Monitors \subseteq Nat
  /\ None \notin Conns \cup Apps \cup Monitors
  /\ MaxFaults \in Nat
  /\ MayClose \in BOOLEAN
  /\ MayRebind \in BOOLEAN
  /\ Preemptive \in BOOLEAN

Threads == Apps \cup Monitors

Status == {"INIT", "ACTIVE", "RECOVERY", "STOP"}

\* Where a thread that called connect() resumes: in send, in _recovery, or in
\* the application after _reconnect_with_new_url.
ReturnPoints == {"sendWs", "resend", "idle"}

\* connect() and _connect(), one label per access to the shared attributes.
ConnectPcs == {"connect", "while", "dial", "mkws", "wait", "activate"}

AppPcs == {"idle", "close1", "close2", "rebindClose", "rebindNil", "rebindInit"}
MonitorPcs == {"off", "poll", "watch", "mark", "rclose", "rnil", "resend"}
SendPcs == {"acquire", "sendInit", "sendWs"}
Pcs == AppPcs \cup MonitorPcs \cup SendPcs \cup ConnectPcs \cup {"assertFail"}

VARIABLES
  status,        \* self.status
  ws,            \* self.ws, or None
  needRecovery,  \* self._needRecovery.is_set(), of the current Event
  subs,          \* self._subs
  sem,           \* the thread that holds self._semaphore, or None
  conn,          \* conn[c]: the socket of WebSocketApp c
  run,           \* run[c]: where the run_forever thread of c is
  listed,        \* listed[c]: what the exchange streams on connection c
  pc, ret, arg,  \* per thread: next step, return point, stream being sent
  done,          \* per thread: what _reconnect_streams has gone through
  faults         \* network faults so far

connVars   == <<conn, run, listed>>
threadVars == <<pc, ret, arg, done>>
vars == <<status, ws, needRecovery, subs, sem, connVars, threadVars, faults>>

TypeOK ==
  /\ status \in Status
  /\ ws \in Conns \cup {None}
  /\ needRecovery \in BOOLEAN
  /\ subs \in SUBSET Streams
  /\ sem \in Threads \cup {None}
  /\ conn \in [Conns -> {"dialing", "open", "dead"}]
  /\ run \in [Conns -> {"off", "run", "raised", "callback", "callbackSet",
                        "final", "finalSet"}]
  /\ listed \in [Conns -> SUBSET Streams]
  /\ pc \in [Threads -> Pcs]
  /\ ret \in [Threads -> ReturnPoints]
  /\ arg \in [Threads -> Streams \cup {None}]
  /\ done \in [Threads -> SUBSET Streams]
  /\ faults \in 0..MaxFaults

Init ==
  /\ status = "INIT"
  /\ ws = None
  /\ needRecovery = FALSE
  /\ subs = {}
  /\ sem = None
  /\ conn = [c \in Conns |-> "dead"]
  /\ run = [c \in Conns |-> "off"]
  /\ listed = [c \in Conns |-> {}]
  /\ pc = [t \in Threads |-> IF t \in Apps THEN "idle" ELSE "off"]
  /\ ret = [t \in Threads |-> "resend"]
  /\ arg = [t \in Threads |-> None]
  /\ done = [t \in Threads |-> {}]
  /\ faults = 0

Goto(t, label) == pc' = [pc EXCEPT ![t] = label]

\* self.ws.sock and self.ws.sock.connected
Connected == ws # None /\ conn[ws] = "open"

\* ws.close() on WebSocketApp c: the socket is gone, and the run_forever
\* thread goes on to on_close and to the finally of _run_websocket.
Shut(c) ==
  /\ conn' = [conn EXCEPT ![c] = "dead"]
  /\ run' = [run EXCEPT ![c] = IF @ \in {"run", "raised"} THEN "callback" ELSE @]
  /\ listed' = [listed EXCEPT ![c] = {}]

ShutIfAny == IF ws = None THEN UNCHANGED connVars ELSE Shut(ws)

-----------------------------------------------------------------------------
\* The application: WsManager._start_stream, the @synchronized send, close.

\* _start_stream records the subscription, then sends it.
StartStream(t, s) ==
  /\ pc[t] = "idle"
  /\ subs' = subs \cup {s}
  /\ arg' = [arg EXCEPT ![t] = s]
  /\ Goto(t, "acquire")
  /\ UNCHANGED <<status, ws, needRecovery, sem, connVars, ret, done, faults>>

Acquire(t) ==
  /\ pc[t] = "acquire"
  /\ sem = None
  /\ sem' = t
  /\ Goto(t, "sendInit")
  /\ UNCHANGED <<status, ws, needRecovery, subs, connVars, ret, arg, done, faults>>

SendInit(t) ==
  /\ pc[t] = "sendInit"
  /\ IF status = "INIT"
     THEN /\ ret' = [ret EXCEPT ![t] = "sendWs"]
          /\ Goto(t, "connect")
     ELSE /\ Goto(t, "sendWs")
          /\ UNCHANGED ret
  /\ UNCHANGED <<status, ws, needRecovery, subs, sem, connVars, arg, done, faults>>

\* The semaphore is released on every way out of send.  A failed send raises
\* into the caller: an application thread goes back to its own code, a
\* monitor thread dies.
SendWs(t) ==
  /\ pc[t] = "sendWs"
  /\ sem' = None
  /\ \/ /\ Connected
        /\ listed' = [listed EXCEPT ![ws] = @ \cup {arg[t]}]
        /\ Goto(t, IF t \in Apps THEN "idle" ELSE "resend")
     \/ /\ ~Connected
        /\ Goto(t, IF t \in Apps THEN "idle" ELSE "off")
        /\ UNCHANGED listed
  /\ arg' = [arg EXCEPT ![t] = None]
  /\ UNCHANGED <<status, ws, needRecovery, subs, conn, run, ret, done, faults>>

\* close(): status, then ws.close(), then ws = None; an AttributeError on
\* a ws that is None is swallowed.
CloseStatus(t) ==
  /\ MayClose
  /\ pc[t] = "idle"
  /\ status' = "STOP"
  /\ Goto(t, "close1")
  /\ UNCHANGED <<ws, needRecovery, subs, sem, connVars, ret, arg, done, faults>>

CloseWs(t) ==
  /\ pc[t] = "close1"
  /\ ShutIfAny
  /\ Goto(t, IF ws = None THEN "idle" ELSE "close2")
  /\ UNCHANGED <<status, ws, needRecovery, subs, sem, ret, arg, done, faults>>

CloseForget(t) ==
  /\ pc[t] = "close2"
  /\ ws' = None
  /\ Goto(t, "idle")
  /\ UNCHANGED <<status, needRecovery, subs, sem, connVars, ret, arg, done, faults>>

-----------------------------------------------------------------------------
\* _reconnect_with_new_url: subscribe() of a perp BinanceWsManager calls it at
\* first and then every reconnection_time_sleep (3 hours), with no lock.

Rebind(t) ==
  /\ MayRebind
  /\ pc[t] = "idle"
  /\ Goto(t, IF ws = None THEN "rebindInit" ELSE "rebindClose")
  /\ UNCHANGED <<status, ws, needRecovery, subs, sem, connVars, ret, arg, done, faults>>

RebindClose(t) ==
  /\ pc[t] = "rebindClose"
  /\ ShutIfAny
  /\ Goto(t, "rebindNil")
  /\ UNCHANGED <<status, ws, needRecovery, subs, sem, ret, arg, done, faults>>

RebindForget(t) ==
  /\ pc[t] = "rebindNil"
  /\ ws' = None
  /\ Goto(t, "rebindInit")
  /\ UNCHANGED <<status, needRecovery, subs, sem, connVars, ret, arg, done, faults>>

RebindConnect(t) ==
  /\ pc[t] = "rebindInit"
  /\ status' = "INIT"
  /\ ret' = [ret EXCEPT ![t] = "idle"]
  /\ Goto(t, "connect")
  /\ UNCHANGED <<ws, needRecovery, subs, sem, connVars, arg, done, faults>>

-----------------------------------------------------------------------------
\* connect() and _connect(), run by an application thread inside send or by
\* a monitor thread inside _recovery.

\* Mutant of ConnectEntry: only an INIT manager connects.
ConnectEntryInitOnly(t) ==
  /\ pc[t] = "connect"
  /\ Goto(t, IF status # "INIT" THEN ret[t] ELSE "while")
  /\ UNCHANGED <<status, ws, needRecovery, subs, sem, connVars, ret, arg, done, faults>>

ConnectEntry(t) ==
  /\ pc[t] = "connect"
  /\ Goto(t, IF status = "ACTIVE" THEN ret[t] ELSE "while")
  /\ UNCHANGED <<status, ws, needRecovery, subs, sem, connVars, ret, arg, done, faults>>

\* Mutant of ConnectWhile: the loop does not look at ws.
ConnectWhileAlways(t) ==
  /\ pc[t] = "while"
  /\ Goto(t, "dial")
  /\ UNCHANGED <<status, ws, needRecovery, subs, sem, connVars, ret, arg, done, faults>>

\* `while not self.ws' at the head of the loop, `if self.ws: return' after it.
ConnectWhile(t) ==
  /\ pc[t] = "while"
  /\ Goto(t, IF ws # None THEN ret[t] ELSE "dial")
  /\ UNCHANGED <<status, ws, needRecovery, subs, sem, connVars, ret, arg, done, faults>>

\* The assertion at the head of _connect, then the new Event and the new
\* monitor thread, which runs before there is a WebSocketApp.
FreeMonitors == {m \in Monitors : pc[m] = "off"}

\* Mutant of Dial: no monitor thread is started.
DialUnwatched(t) ==
  /\ pc[t] = "dial"
  /\ \/ /\ ws # None
        /\ Goto(t, "assertFail")
        /\ UNCHANGED needRecovery
     \/ /\ ws = None
        /\ needRecovery' = FALSE
        /\ Goto(t, "mkws")
  /\ UNCHANGED <<status, ws, subs, sem, connVars, ret, arg, done, faults>>

Dial(t) ==
  /\ pc[t] = "dial"
  /\ \/ /\ ws # None
        /\ Goto(t, "assertFail")
        /\ UNCHANGED needRecovery
     \/ /\ ws = None
        /\ needRecovery' = FALSE
        /\ \E m \in FreeMonitors :
             /\ \A n \in FreeMonitors : m <= n
             /\ pc' = [pc EXCEPT ![t] = "mkws", ![m] = "poll"]
  /\ UNCHANGED <<status, ws, subs, sem, connVars, ret, arg, done, faults>>

\* The AssertionError leaves send (releasing the semaphore) or ends the
\* monitor thread.
AssertionError(t) ==
  /\ pc[t] = "assertFail"
  /\ Goto(t, IF t \in Apps THEN "idle" ELSE "off")
  /\ sem' = IF sem = t THEN None ELSE sem
  /\ UNCHANGED <<status, ws, needRecovery, subs, connVars, ret, arg, done, faults>>

\* A new WebSocketApp and its run_forever thread.
FreeConns == {c \in Conns : c # ws /\ conn[c] = "dead" /\ run[c] = "off"}

MakeWs(t) ==
  /\ pc[t] = "mkws"
  /\ \E c \in FreeConns :
       /\ \A d \in FreeConns : c <= d
       /\ ws' = c
       /\ conn' = [conn EXCEPT ![c] = "dialing"]
       /\ run' = [run EXCEPT ![c] = "run"]
  /\ Goto(t, "wait")
  /\ UNCHANGED <<status, needRecovery, subs, sem, listed, ret, arg, done, faults>>

\* The wait loop ends when the socket is connected, and also when ws is None.
WaitEnds(t) ==
  /\ pc[t] = "wait"
  /\ ws = None \/ Connected
  /\ Goto(t, "activate")
  /\ UNCHANGED <<status, ws, needRecovery, subs, sem, connVars, ret, arg, done, faults>>

\* Five seconds without a connected socket: ws is dropped, never closed.
\* On a dead socket this is what happens; on one still dialing it is a fault.
WaitTimeout(t) ==
  /\ pc[t] = "wait"
  /\ ws # None /\ ~Connected
  /\ \/ conn[ws] = "dead" /\ UNCHANGED faults
     \/ conn[ws] = "dialing" /\ faults < MaxFaults /\ faults' = faults + 1
  /\ ws' = None
  /\ Goto(t, "while")
  /\ UNCHANGED <<status, needRecovery, subs, sem, connVars, ret, arg, done>>

Activate(t) ==
  /\ pc[t] = "activate"
  /\ status' = "ACTIVE"
  /\ Goto(t, "while")
  /\ UNCHANGED <<ws, needRecovery, subs, sem, connVars, ret, arg, done, faults>>

Connect(t) ==
  \/ ConnectEntry(t) \/ ConnectWhile(t) \/ Dial(t) \/ AssertionError(t)
  \/ MakeWs(t) \/ WaitEnds(t) \/ WaitTimeout(t) \/ Activate(t)

-----------------------------------------------------------------------------
\* A monitor thread: _monitor, _recovery, _reconnect_streams.  It is at "poll"
\* until its first test of the loop condition, then asleep at "watch": it may
\* wake to test the loop condition again or, every fifth time, to look at ws.

MonitorStops(m) ==
  /\ pc[m] \in {"poll", "watch"}
  /\ status = "STOP"
  /\ Goto(m, "off")
  /\ UNCHANGED <<status, ws, needRecovery, subs, sem, connVars, ret, arg, done, faults>>

MonitorStarts(m) ==
  /\ pc[m] = "poll"
  /\ status # "STOP"
  /\ Goto(m, "watch")
  /\ UNCHANGED <<status, ws, needRecovery, subs, sem, connVars, ret, arg, done, faults>>

\* The test after the sleep does not look at STOP again, and reads ws.sock:
\* an AttributeError ends the thread when ws is None.
MonitorCheck(m) ==
  /\ pc[m] = "watch"
  /\ status \notin {"RECOVERY", "INIT"}
  /\ ~Connected \/ needRecovery
  /\ Goto(m, IF ws = None THEN "off" ELSE "mark")
  /\ UNCHANGED <<status, ws, needRecovery, subs, sem, connVars, ret, arg, done, faults>>

\* Mutant of MonitorMark: a status that WebsocketStatus does not have.
MonitorMarkOther(m) ==
  /\ pc[m] = "mark"
  /\ status' = "RECONNECT"
  /\ needRecovery' = FALSE
  /\ Goto(m, "rclose")
  /\ UNCHANGED <<ws, subs, sem, connVars, ret, arg, done, faults>>

MonitorMark(m) ==
  /\ pc[m] = "mark"
  /\ status' = "RECOVERY"
  /\ needRecovery' = FALSE
  /\ Goto(m, "rclose")
  /\ UNCHANGED <<ws, subs, sem, connVars, ret, arg, done, faults>>

RecoveryClose(m) ==
  /\ pc[m] = "rclose"
  /\ ShutIfAny
  /\ Goto(m, "rnil")
  /\ UNCHANGED <<status, ws, needRecovery, subs, sem, ret, arg, done, faults>>

\* Mutant of RecoveryForget: the closed WebSocketApp stays in ws.
RecoveryKeepsWs(m) ==
  /\ pc[m] = "rnil"
  /\ ret' = [ret EXCEPT ![m] = "resend"]
  /\ done' = [done EXCEPT ![m] = {}]
  /\ Goto(m, "connect")
  /\ UNCHANGED <<status, ws, needRecovery, subs, sem, connVars, arg, faults>>

RecoveryForget(m) ==
  /\ pc[m] = "rnil"
  /\ ws' = None
  /\ ret' = [ret EXCEPT ![m] = "resend"]
  /\ done' = [done EXCEPT ![m] = {}]
  /\ Goto(m, "connect")
  /\ UNCHANGED <<status, needRecovery, subs, sem, connVars, arg, faults>>

\* Mutant of ReconnectStreams: nothing is sent again.
ReconnectStreamsSkipped(m) ==
  /\ pc[m] = "resend"
  /\ Goto(m, "off")
  /\ UNCHANGED <<status, ws, needRecovery, subs, sem, connVars, ret, arg, done, faults>>

\* _reconnect_streams walks the live list self._subs; after the last one the
\* monitor thread ends (the connection it made has a monitor of its own).
ReconnectStreams(m) ==
  /\ pc[m] = "resend"
  /\ \/ /\ subs \subseteq done[m]
        /\ Goto(m, "off")
        /\ UNCHANGED <<arg, done>>
     \/ \E s \in subs \ done[m] :
          /\ arg' = [arg EXCEPT ![m] = s]
          /\ done' = [done EXCEPT ![m] = @ \cup {s}]
          /\ Goto(m, "acquire")
  /\ UNCHANGED <<status, ws, needRecovery, subs, sem, connVars, ret, faults>>

Monitor(m) ==
  \/ MonitorStops(m) \/ MonitorStarts(m) \/ MonitorCheck(m) \/ MonitorMark(m)
  \/ RecoveryClose(m) \/ RecoveryForget(m) \/ ReconnectStreams(m)

-----------------------------------------------------------------------------
\* The network, and the run_forever thread of each WebSocketApp.

Opens(c) ==
  /\ conn[c] = "dialing"
  /\ conn' = [conn EXCEPT ![c] = "open"]
  /\ UNCHANGED <<status, ws, needRecovery, subs, sem, run, listed, threadVars, faults>>

\* A refused dial or a lost connection.
Drops(c) ==
  /\ conn[c] \in {"dialing", "open"}
  /\ faults < MaxFaults
  /\ faults' = faults + 1
  /\ Shut(c)
  /\ UNCHANGED <<status, ws, needRecovery, subs, sem, threadVars>>

\* When the socket is gone the thread calls on_error and on_close (one stage:
\* both only call reconnect()), then the finally of _run_websocket.
AfterCallback(stage) ==
  CASE stage \in {"callback", "callbackSet"} -> "final"
    [] stage \in {"final", "finalSet"} -> "off"
    [] stage = "raised" -> "run"

\* Each asks for recovery through reconnect() if the socket is still the
\* manager's and no recovery is running; the flag is set later.
AsksRecovery(c) == ws = c /\ status # "RECOVERY"

Callback(c) ==
  /\ run[c] \in {"callback", "final"}
  /\ run' = [run EXCEPT ![c] =
               IF ~AsksRecovery(c) THEN AfterCallback(@)
               ELSE IF @ = "callback" THEN "callbackSet" ELSE "finalSet"]
  /\ UNCHANGED <<status, ws, needRecovery, subs, sem, conn, listed, threadVars, faults>>

\* An exception out of on_message is logged and asks for recovery as well,
\* on a connection that is up.
CallbackRaises(c) ==
  /\ run[c] = "run"
  /\ conn[c] = "open"
  /\ AsksRecovery(c)
  /\ faults < MaxFaults
  /\ faults' = faults + 1
  /\ run' = [run EXCEPT ![c] = "raised"]
  /\ UNCHANGED <<status, ws, needRecovery, subs, sem, conn, listed, threadVars>>

AsksPending == {"raised", "callbackSet", "finalSet"}

SetNeedRecovery(c) ==
  /\ run[c] \in AsksPending
  /\ needRecovery' = TRUE
  /\ run' = [run EXCEPT ![c] = AfterCallback(@)]
  /\ UNCHANGED <<status, ws, subs, sem, conn, listed, threadVars, faults>>

RunForever(c) == Callback(c) \/ SetNeedRecovery(c)

-----------------------------------------------------------------------------
\* CPython may switch threads anywhere (Preemptive).  Nearly always it does so
\* only where a thread sleeps, waits for a lock, starts a thread or does I/O:
\* then no other thread stands between two such points when t moves.
Yields == {"idle", "off", "acquire", "poll", "watch", "wait", "mkws", "rnil", "close2",
           "rebindNil"}

Scheduled(t) ==
  \/ Preemptive
  \/ /\ \A u \in Threads \ {t} : pc[u] \in Yields
     /\ \A c \in Conns : run[c] \notin AsksPending

RunStep(c) ==
  /\ Preemptive \/ \A u \in Threads : pc[u] \in Yields
  /\ CallbackRaises(c) \/ RunForever(c)

AppStep(t) ==
  /\ Scheduled(t)
  /\ (\E s \in Streams : StartStream(t, s)) \/ CloseStatus(t) \/ Rebind(t)

CallStep(t) ==
  /\ Scheduled(t)
  /\ \/ Acquire(t) \/ SendInit(t) \/ SendWs(t)
     \/ CloseWs(t) \/ CloseForget(t)
     \/ RebindClose(t) \/ RebindForget(t) \/ RebindConnect(t)
     \/ Connect(t)

MonitorStep(m) == Scheduled(m) /\ Monitor(m)

Next ==
  \/ \E t \in Apps : AppStep(t)
  \/ \E t \in Threads : CallStep(t)
  \/ \E m \in Monitors : MonitorStep(m)
  \/ \E c \in Conns : Opens(c) \/ Drops(c) \/ RunStep(c)

Spec == Init /\ [][Next]_vars

\* Every started thread keeps being scheduled and gets the semaphore it waits
\* for in the end, and a dial that is not refused comes to an end.  The
\* application owes no call and the network no fault.
ThreadRuns(t) == CallStep(t) \/ (t \in Monitors /\ MonitorStep(t))

Fairness ==
  /\ \A t \in Threads : SF_vars(ThreadRuns(t))
  /\ \A c \in Conns : WF_vars(Opens(c)) /\ SF_vars(RunStep(c) /\ faults' = faults)

FairSpec == Spec /\ Fairness

-----------------------------------------------------------------------------
\* Properties.

\* The thread is inside _recovery, connect or _connect.
OnPath(t) == pc[t] \in {"rclose", "rnil"} \cup ConnectPcs

\* While status is RECOVERY every monitor skips its test and reconnect()
\* drops requests (_monitor, reconnect), so a thread that will leave RECOVERY
\* must exist: no error path and no race may strand the manager there.
RecoveryHasOwner == status = "RECOVERY" => \E t \in Threads : OnPath(t)

\* An ACTIVE manager that nobody closes always has a thread that watches the
\* connection or is replacing it: otherwise a lost connection stays lost, for
\* connect() returns at once and send only raises (connect, _monitor).
NeverUnattended ==
  status = "ACTIVE" /\ ~MayClose =>
    \E t \in Threads : OnPath(t) \/ pc[t] \in {"poll", "watch", "mark"}

\* When no thread is sending, connecting or recovering and the connection is
\* up, the exchange streams on it everything in _subs: a subscription made
\* while the connection was failing is not lost (_start_stream, _recovery).
AtRest(t) == pc[t] \in {"idle", "off", "poll", "watch"}

NoLostSubscription ==
  status = "ACTIVE" /\ Connected /\ (\A t \in Threads : AtRest(t)) =>
    subs \subseteq listed[ws]

\* The assertion at the head of _connect never fails: no two threads connect
\* at the same time.
AssertionHolds == \A t \in Threads : pc[t] # "assertFail"

\* The message of that assertion, "ws should be closed before attempting to
\* connect": when a new WebSocketApp is about to be made, none made before is
\* dialing or open.
ClosedBeforeConnect ==
  (\E t \in Threads : pc[t] = "mkws") => \A c \in Conns : conn[c] = "dead"

\* "Close any existing ws so connect() rebinds to the freshly built _url": when
\* every thread is at rest, the manager has left no connection open beside the
\* one in ws (_reconnect_with_new_url, _recovery).
OneConnection ==
  (\A t \in Threads : AtRest(t)) => \A c \in Conns : conn[c] = "open" => ws = c

\* Once the application has made its first call and the network has stopped
\* failing, the manager ends up, and stays, connected with every subscription
\* streamed (_monitor, _recovery, _reconnect_streams).
Streaming == status = "ACTIVE" /\ Connected /\ subs \subseteq listed[ws]

Heals == <>[](status # "INIT" => Streaming)

=============================================================================
