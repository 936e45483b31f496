--------------------------- MODULE WsApiUserData ---------------------------
(***************************************************************************)
(* The Binance WS-API session that carries the account's events            *)
(* (ws/binance_ws_api.py).                                                 *)
(*                                                                         *)
(* start() launches a thread that dials, logs on, subscribes, dispatches   *)
(* events and dials again with a growing delay; stop() clears a flag and   *)
(* closes the current WebSocketApp.  Nothing waits for the thread to end,  *)
(* so a stop() followed by a start() may leave two of them at work on the  *)
(* same attributes.  run_forever and its callbacks run in the thread that  *)
(* dialed, so a connection is named by its thread.                         *)
(***************************************************************************)
EXTENDS Naturals, FiniteSets

CONSTANTS
  Threads,     \* identities of the threads made by start()
  Events,      \* what happens to the account
  None,        \* no WebSocketApp yet
  RECONNECT_BASE_DELAY_S,
  RECONNECT_MAX_DELAY_S,
  Shadow,      \* self.shadow
  Preemptive,  \* threads may be switched between any two steps
  MaxStarts,   \* bound on the calls of start()
  MaxDrops,    \* bound on lost connections and refused dials
  MaxRejections \* bound on requests the exchange rejects

ASSUME ConstantsAssumption ==
  /\ None \notin Threads
  /\ RECONNECT_BASE_DELAY_S \in Nat \ {0}
  /\ RECONNECT_MAX_DELAY_S \in Nat
  /\ RECONNECT_BASE_DELAY_S <= RECONNECT_MAX_DELAY_S
  /\ Shadow \in BOOLEAN /\ Preemptive \in BOOLEAN
  /\ MaxStarts \in Nat /\ MaxDrops \in Nat /\ MaxRejections \in Nat

VARIABLES
  running,     \* self._running
  ws,          \* the thread that made self._ws, or None
  loggedOn,    \* self._logged_on
  subscribed,  \* self._subscribed
  delay,       \* self._reconnect_delay
  app,         \* where the application is in stop()
  pc,          \* per thread: where it is in _run and run_forever
  pending,     \* per thread: the request its connection waits for an answer to
  session,     \* per thread: what the exchange has granted on its connection
  inbox,       \* per thread: events on their way on its connection
  fresh,       \* events that have not happened yet
  counted,     \* counted[e]: how often e was added to self.event_counts
  queued,      \* queued[e]: how often e was put on the business queue
  lastSleep,   \* the last delay slept since a subscription was granted, or 0
  hurried,     \* history: start() calls that found the old thread still at work
  starts, drops, rejections

flags == <<loggedOn, subscribed>>
calls == <<starts, hurried>>
faults == <<drops, rejections>>
events == <<inbox, fresh, counted, queued>>
vars == <<running, ws, flags, delay, app, pc, pending, session, events,
          lastSleep, calls, faults>>

Pcs == {"off", "top", "made", "dialing", "open", "closing", "rejected",
        "ended", "asleep"}

TypeOK ==
  /\ running \in BOOLEAN
  /\ ws \in Threads \cup {None}
  /\ loggedOn \in BOOLEAN /\ subscribed \in BOOLEAN
  /\ delay \in RECONNECT_BASE_DELAY_S..RECONNECT_MAX_DELAY_S
  /\ app \in {"idle", "closing"}
  /\ pc \in [Threads -> Pcs]
  /\ pending \in [Threads -> {"none", "logon", "subscribe"}]
  /\ session \in [Threads -> {"none", "loggedOn", "subscribed"}]
  /\ inbox \in [Threads -> SUBSET Events]
  /\ fresh \in SUBSET Events
  /\ counted \in [Events -> Nat] /\ queued \in [Events -> Nat]
  /\ lastSleep \in 0..RECONNECT_MAX_DELAY_S
  /\ starts \in 0..MaxStarts /\ hurried \in 0..starts
  /\ drops \in 0..MaxDrops /\ rejections \in 0..MaxRejections

Init ==
  /\ running = FALSE
  /\ ws = None
  /\ loggedOn = FALSE /\ subscribed = FALSE
  /\ delay = RECONNECT_BASE_DELAY_S
  /\ app = "idle"
  /\ pc = [t \in Threads |-> "off"]
  /\ pending = [t \in Threads |-> "none"]
  /\ session = [t \in Threads |-> "none"]
  /\ inbox = [t \in Threads |-> {}]
  /\ fresh = Events
  /\ counted = [e \in Events |-> 0] /\ queued = [e \in Events |-> 0]
  /\ lastSleep = 0
  /\ starts = 0 /\ hurried = 0 /\ drops = 0 /\ rejections = 0

Goto(t, label) == pc' = [pc EXCEPT ![t] = label]

\* A connection that is gone has nothing to deliver.
Lost(t) ==
  /\ session' = [session EXCEPT ![t] = "none"]
  /\ pending' = [pending EXCEPT ![t] = "none"]
  /\ inbox' = [inbox EXCEPT ![t] = {}]

-----------------------------------------------------------------------------
\* The application.

NoThread == \A t \in Threads : pc[t] = "off"

\* Mutant of Start: it does not look at _running.
StartAgain(t) ==
  /\ app = "idle"
  /\ starts < MaxStarts
  /\ pc[t] = "off"
  /\ starts' = starts + 1
  /\ hurried' = IF running \/ NoThread THEN hurried ELSE hurried + 1
  /\ running' = TRUE
  /\ Goto(t, "top")
  /\ UNCHANGED <<ws, flags, delay, app, pending, session, events, lastSleep, faults>>

\* start() on a running client returns at once; on one that is stopped it makes
\* a thread, also while the old one is still at work.
Start(t) ==
  /\ app = "idle"
  /\ starts < MaxStarts
  /\ ~running
  /\ pc[t] = "off"
  /\ starts' = starts + 1
  /\ hurried' = IF NoThread THEN hurried ELSE hurried + 1
  /\ running' = TRUE
  /\ Goto(t, "top")
  /\ UNCHANGED <<ws, flags, delay, app, pending, session, events, lastSleep, faults>>

StopFlag ==
  /\ app = "idle"
  /\ starts > 0
  /\ running' = FALSE
  /\ app' = IF ws = None THEN "idle" ELSE "closing"
  /\ UNCHANGED <<ws, flags, delay, pc, pending, session, events, lastSleep,
                 calls, faults>>

\* Mutant of StopClose: the socket is left alone.
StopLeavesSocket ==
  /\ app = "closing"
  /\ app' = "idle"
  /\ UNCHANGED <<running, ws, flags, delay, pc, pending, session, events,
                 lastSleep, calls, faults>>

\* self._ws.close(): a WebSocketApp that is not in run_forever yet forgets
\* the call, one that is there loses its socket.
StopClose ==
  /\ app = "closing"
  /\ app' = "idle"
  /\ IF pc[ws] \in {"dialing", "open"}
     THEN Goto(ws, "closing") /\ Lost(ws)
     ELSE UNCHANGED <<pc, session, pending, inbox>>
  /\ UNCHANGED <<running, ws, flags, delay, fresh, counted, queued, lastSleep,
                 calls, faults>>

-----------------------------------------------------------------------------
\* _run.

\* The head of the loop, and the new WebSocketApp.
Loop(t) ==
  /\ pc[t] = "top"
  /\ IF running THEN Goto(t, "made") /\ ws' = t
                ELSE Goto(t, "off") /\ UNCHANGED ws
  /\ UNCHANGED <<running, flags, delay, app, pending, session, events, lastSleep,
                 calls, faults>>

\* run_forever starts to dial.
RunForever(t) ==
  /\ pc[t] = "made"
  /\ Goto(t, "dialing")
  /\ UNCHANGED <<running, ws, flags, delay, app, pending, session, events,
                 lastSleep, calls, faults>>

\* run_forever has returned: give up or sleep.
Ended(t) ==
  /\ pc[t] = "ended"
  /\ IF running THEN Goto(t, "asleep") /\ lastSleep' = delay
                ELSE Goto(t, "off") /\ UNCHANGED lastSleep
  /\ UNCHANGED <<running, ws, flags, delay, app, pending, session, events, calls,
                 faults>>

Double == 2 * delay

\* Mutant of Wake: the delay has no upper limit.
WakeUncapped(t) ==
  /\ pc[t] = "asleep"
  /\ delay' = Double
  /\ Goto(t, "top")
  /\ UNCHANGED <<running, ws, flags, app, pending, session, events, lastSleep,
                 calls, faults>>

Wake(t) ==
  /\ pc[t] = "asleep"
  /\ delay' = IF Double < RECONNECT_MAX_DELAY_S THEN Double ELSE RECONNECT_MAX_DELAY_S
  /\ Goto(t, "top")
  /\ UNCHANGED <<running, ws, flags, app, pending, session, events, lastSleep,
                 calls, faults>>

-----------------------------------------------------------------------------
\* The callbacks, in the thread of their connection.

\* _on_open sends session.logon.
OnOpen(t) ==
  /\ pc[t] = "dialing"
  /\ Goto(t, "open")
  /\ pending' = [pending EXCEPT ![t] = "logon"]
  /\ UNCHANGED <<running, ws, flags, delay, app, session, events, lastSleep, calls,
                 faults>>

\* _handle_ack with status 200.  Only the logon resets the delay.
AckLogon(t) ==
  /\ pc[t] = "open" /\ pending[t] = "logon"
  /\ session' = [session EXCEPT ![t] = "loggedOn"]
  /\ loggedOn' = TRUE
  /\ delay' = RECONNECT_BASE_DELAY_S
  /\ pending' = [pending EXCEPT ![t] = "subscribe"]
  /\ UNCHANGED <<running, ws, subscribed, app, pc, events, lastSleep, calls, faults>>

AckSubscribe(t) ==
  /\ pc[t] = "open" /\ pending[t] = "subscribe"
  /\ session' = [session EXCEPT ![t] = "subscribed"]
  /\ subscribed' = TRUE
  /\ lastSleep' = 0
  /\ pending' = [pending EXCEPT ![t] = "none"]
  /\ UNCHANGED <<running, ws, loggedOn, delay, app, pc, events, calls, faults>>

\* Mutant of Rejection: the socket is not closed.
RejectionIgnored(t) ==
  /\ pc[t] = "open" /\ pending[t] # "none"
  /\ rejections < MaxRejections
  /\ rejections' = rejections + 1
  /\ pending' = [pending EXCEPT ![t] = "none"]
  /\ UNCHANGED <<running, ws, flags, delay, app, pc, session, events, lastSleep, calls,
                 drops>>

\* Any other status: the callback closes its own socket.
Rejection(t) ==
  /\ pc[t] = "open" /\ pending[t] # "none"
  /\ rejections < MaxRejections
  /\ rejections' = rejections + 1
  /\ Goto(t, "rejected")
  /\ Lost(t)
  /\ UNCHANGED <<running, ws, flags, delay, app, fresh, counted, queued, lastSleep,
                 calls, drops>>

\* _on_message with an event: counted, and queued unless in shadow mode.
OnEvent(t, e) ==
  /\ pc[t] = "open" /\ e \in inbox[t]
  /\ inbox' = [inbox EXCEPT ![t] = @ \ {e}]
  /\ counted' = [counted EXCEPT ![e] = @ + 1]
  /\ queued' = [queued EXCEPT ![e] = IF Shadow THEN @ ELSE @ + 1]
  /\ UNCHANGED <<running, ws, flags, delay, app, pc, pending, session, fresh,
                 lastSleep, calls, faults>>

\* Mutant of OnClose: the subscription is remembered.
OnCloseKeepsSubscribed(t) ==
  /\ pc[t] \in {"closing", "rejected"}
  /\ Goto(t, "ended")
  /\ loggedOn' = FALSE
  /\ UNCHANGED <<subscribed, running, ws, delay, app, pending, session, events,
                 lastSleep, calls, faults>>

\* _on_close, then run_forever returns.  When the callback itself has closed
\* the socket run_forever may return without calling on_close.
OnClose(t) ==
  /\ pc[t] \in {"closing", "rejected"}
  /\ Goto(t, "ended")
  /\ \/ loggedOn' = FALSE /\ subscribed' = FALSE
     \/ pc[t] = "rejected" /\ UNCHANGED flags
  /\ UNCHANGED <<running, ws, delay, app, pending, session, events, lastSleep,
                 calls, faults>>

-----------------------------------------------------------------------------
\* The exchange and the network.

Drops(t) ==
  /\ pc[t] \in {"dialing", "open"}
  /\ drops < MaxDrops
  /\ drops' = drops + 1
  /\ Goto(t, "closing")
  /\ Lost(t)
  /\ UNCHANGED <<running, ws, flags, delay, app, fresh, counted, queued, lastSleep,
                 calls, rejections>>

\* An event is sent on every connection that is subscribed when it happens.
Happens(e) ==
  /\ e \in fresh
  /\ fresh' = fresh \ {e}
  /\ inbox' = [t \in Threads |->
                 IF session[t] = "subscribed" THEN inbox[t] \cup {e} ELSE inbox[t]]
  /\ UNCHANGED <<running, ws, flags, delay, app, pc, pending, session, counted,
                 queued, lastSleep, calls, faults>>

-----------------------------------------------------------------------------
\* Without preemption a thread is left only where it blocks or starts, and the
\* application only between two calls.
Yields == {"off", "top", "dialing", "open", "closing", "rejected", "asleep"}

Undisturbed(t) ==
  Preemptive \/ (app = "idle" /\ \A u \in Threads \ {t} : pc[u] \in Yields)

AppMoves == Preemptive \/ \A u \in Threads : pc[u] \in Yields

AppStep ==
  AppMoves /\ ((\E t \in Threads : Start(t)) \/ StopFlag)

StopsSocket == AppMoves /\ StopClose

Own(t) == Loop(t) \/ RunForever(t) \/ Ended(t) \/ Wake(t) \/ OnClose(t)

ThreadStep(t) == Undisturbed(t) /\ Own(t)

\* What the exchange and the network owe a connection.
Served(t) ==
  /\ Undisturbed(t)
  /\ OnOpen(t) \/ AckLogon(t) \/ AckSubscribe(t) \/ \E e \in Events : OnEvent(t, e)

Next ==
  \/ AppStep \/ StopsSocket
  \/ \E t \in Threads :
       ThreadStep(t) \/ Served(t) \/ (Undisturbed(t) /\ (Rejection(t) \/ Drops(t)))
  \/ \E e \in Events : Happens(e)

Spec == Init /\ [][Next]_vars

\* A started thread keeps being scheduled and a call of stop() returns; a dial
\* that is not refused succeeds and a request is answered in the end: the code
\* has no timeout for either.  Nobody owes a start(), a stop() or an event.
Fairness ==
  /\ WF_vars(StopsSocket)
  /\ \A t \in Threads : SF_vars(ThreadStep(t)) /\ SF_vars(Served(t))

FairSpec == Spec /\ Fairness

-----------------------------------------------------------------------------
\* Properties.

is_healthy == loggedOn /\ subscribed

\* The client calls itself healthy only while some connection it has not seen
\* the end of carries a granted subscription, however many run threads share
\* the two flags (is_healthy, _on_close, _handle_ack).
Carries(t) == session[t] = "subscribed" \/ pc[t] = "closing"

HealthIsTrue == is_healthy => \E t \in Threads : Carries(t)

\* An event reaches the business queue once, and at most once more for each
\* start() that came before the run thread of an earlier one had ended: such a
\* thread finds _running set, goes on, and subscribes beside the new one
\* (_dispatch, start, stop, _run).  However often connections are lost and
\* subscribed again, they cost no copy.
CopiesAreBounded == \A e \in Events : queued[e] <= 1 + hurried

\* A client that is not stopped ends up, and stays, healthy once the network
\* and the exchange stop failing (_run, _handle_ack, _on_close).
Heals == <>[](running => is_healthy)

\* After stop() every run thread ends, unless the client is started again.  It
\* closes the last WebSocketApp only, so nothing is promised once a start()
\* has left an older thread at work.
Stops == (~running /\ hurried = 0) ~> (running \/ NoThread)

\* "logon/subscribe rejection is not recoverable on this socket; close and let
\* the run loop reconnect with backoff": until a subscription is granted, each
\* delay is longer than the one before it, or the longest (_handle_ack, _run).
BacksOff ==
  [][\A t \in Threads :
       pc[t] = "ended" /\ pc'[t] = "asleep" =>
         lastSleep' > lastSleep \/ lastSleep' = RECONNECT_MAX_DELAY_S]_vars

=============================================================================
