--------------------------- MODULE PrivateStreams ---------------------------
(***************************************************************************)
(* The websocket managers of Huobi (HTX), OKX, Bybit, KuCoin and Bitfinex: *)
(* who authenticates and subscribes when, on a connection that is lost and *)
(* made again.  The connection manager under them is BaseWsManager; of it  *)
(* remains what it promises: a lost connection is replaced (Heals), and    *)
(* then the monitor thread calls the hook _reconnect_streams.  The thread  *)
(* that called subscribe(), the hook and the callback of an answer run     *)
(* side by side, and each sends on the connection there is at that time.   *)
(***************************************************************************)
EXTENDS Naturals, Sequences

CONSTANTS
  Kinds,      \* the kinds of managers that are looked at
  MaxLosses,  \* bound: connections lost
  MaxLoops    \* bound: rounds of the loop after subscribe()

AllKinds == {"huobi", "okx", "bybit", "kucoin", "bitfinex", "huobiPublic", "okxPublic"}

ConstantsAssumption == Kinds \subseteq AllKinds /\ MaxLosses \in Nat /\ MaxLoops \in Nat
ASSUME ConstantsAssumption

VARIABLES
  kind,     \* the manager's class, and is_public
  link,     \* "init" before the first send, "up", "lost"
  authed,   \* the exchange has authenticated the connection
  live,     \* the exchange streams on the connection
  out,      \* requests on their way to the exchange
  answers,  \* answers on their way to on_message
  subs,     \* _subs: what the base class would send again
  token,    \* KuCoin: _url has a token
  nonce,    \* Bitfinex: the last nonce made
  seen,     \* Bitfinex: the last nonce the exchange has accepted
  app,      \* the thread that calls subscribe(): "idle", "loop", "sub", "over"
  hook,     \* the monitor is about to call _reconnect_streams
  reply,    \* what the callback of an answer is about to send
  losses, loops

exchange == <<authed, live, out, answers, seen>>
vars == <<kind, link, exchange, subs, token, nonce, app, hook, reply, losses, loops>>

Public == kind \in {"huobiPublic", "okxPublic"}
\* A request: an authentication with its nonce, or a subscription.
Auth(n) == [req |-> "auth", nonce |-> n]
Sub == [req |-> "sub", nonce |-> 0]

Init ==
  /\ kind \in Kinds
  /\ link = "init" /\ authed = FALSE /\ live = FALSE
  /\ out = <<>> /\ answers = <<>> /\ subs = <<>> /\ token = FALSE
  /\ nonce = 0 /\ seen = 0
  /\ app = "idle" /\ hook = FALSE /\ reply = "none"
  /\ losses = 0 /\ loops = 0

\* send: the first one connects; on a lost connection it raises.  Only the
\* callers that do not catch that look at Sent.
Sent == link # "lost"
Transmit(requests, url) ==
  /\ link' = IF link = "init" THEN "up" ELSE link
  /\ out' = IF Sent THEN out \o requests ELSE out
  /\ authed' = IF link = "init" THEN Public \/ url ELSE authed

-----------------------------------------------------------------------------
\* subscribe() of each manager.  start_subscribe catches what send raises.

SubscribeHuobi ==
  /\ kind \in {"huobi", "okx"}
  /\ Transmit(<<Auth(0)>>, FALSE)
  /\ app' = "loop"
  /\ UNCHANGED <<subs, token, nonce>>

\* start_bookticker_stream: recorded first, then sent.
SubscribePublic ==
  /\ Public
  /\ subs' = <<Sub>>
  /\ Transmit(<<Sub>>, FALSE)
  /\ app' = "loop"
  /\ UNCHANGED <<token, nonce>>

\* The token goes into the URL of the next connection, not of this one.  A
\* failed request for it is swallowed, and the thread is gone.
SubscribeKucoin ==
  /\ kind = "kucoin"
  /\ \/ /\ token' = TRUE
        /\ subs' = Append(subs, Sub)
        /\ Transmit(<<Sub>>, TRUE)
        /\ app' = "loop"
     \/ /\ app' = "over"
        /\ UNCHANGED <<token, subs, link, out, authed>>
  /\ UNCHANGED nonce

SubscribeBitfinex ==
  /\ kind = "bitfinex"
  /\ nonce' = nonce + 1
  /\ subs' = <<Auth(nonce')>>
  /\ Transmit(<<Auth(nonce')>>, FALSE)
  /\ app' = "loop"
  /\ UNCHANGED token

\* Bybit authenticates, and after five seconds its loop does so again.
SubscribeBybit ==
  /\ kind = "bybit"
  /\ Transmit(<<Auth(0)>>, FALSE)
  /\ app' = "loop"
  /\ UNCHANGED <<subs, token, nonce>>

Subscribe ==
  /\ app = "idle"
  /\ SubscribeHuobi \/ SubscribePublic \/ SubscribeKucoin \/ SubscribeBitfinex \/ SubscribeBybit
  /\ UNCHANGED <<kind, live, answers, seen, hook, reply, losses, loops>>

\* The loop: Huobi logs in or subscribes again every three hours, KuCoin and
\* Bitfinex call subscribe() again then, OKX only pings, Bybit authenticates
\* and subscribes every thirty seconds until a send raises.
Loop ==
  /\ app = "loop" /\ loops < MaxLoops
  /\ loops' = loops + 1
  /\ CASE kind = "huobi" -> SubscribeHuobi
       [] kind = "huobiPublic" -> SubscribePublic
       [] kind = "kucoin" -> SubscribeKucoin
       [] kind = "bitfinex" -> SubscribeBitfinex
       [] kind = "bybit" ->
            /\ Transmit(<<Auth(0)>>, FALSE)
            /\ app' = IF Sent THEN "sub" ELSE "over"
            /\ UNCHANGED <<subs, token, nonce>>
       [] OTHER -> UNCHANGED <<link, out, authed, app, subs, token, nonce>>
  /\ UNCHANGED <<kind, live, answers, seen, hook, reply, losses>>

\* _send_order_trade of Bybit.
LoopSub ==
  /\ app = "sub"
  /\ subs' = <<Sub>>
  /\ Transmit(<<Sub>>, FALSE)
  /\ app' = IF Sent THEN "loop" ELSE "over"
  /\ UNCHANGED <<kind, live, answers, seen, token, nonce, hook, reply, losses, loops>>

-----------------------------------------------------------------------------
\* The connection manager.

Lose ==
  /\ link = "up" /\ losses < MaxLosses
  /\ losses' = losses + 1
  /\ link' = "lost"
  /\ authed' = FALSE /\ live' = FALSE /\ out' = <<>> /\ answers' = <<>>
  /\ hook' = FALSE
  /\ UNCHANGED <<kind, subs, token, nonce, seen, app, reply, loops>>

\* connect() of _recovery, with the URL of the moment.
Reconnect ==
  /\ link = "lost"
  /\ link' = "up" /\ hook' = TRUE
  /\ authed' = (Public \/ token)
  /\ UNCHANGED <<kind, live, out, answers, subs, token, nonce, seen, app, reply, losses, loops>>

\* Mutant of ReconnectStreams: as it was before Huobi had a hook of its own.
ReplayAlways ==
  /\ hook /\ link = "up"
  /\ hook' = FALSE
  /\ out' = out \o subs
  /\ UNCHANGED <<kind, link, authed, live, answers, subs, token, nonce, seen, app, reply,
                 losses, loops>>

\* _reconnect_streams: a private Huobi connection only logs in; the others
\* send _subs again.
ReconnectStreams ==
  /\ hook /\ link = "up"
  /\ hook' = FALSE
  /\ out' = out \o (IF kind = "huobi" THEN <<Auth(0)>> ELSE subs)
  /\ UNCHANGED <<kind, link, authed, live, answers, subs, token, nonce, seen, app, reply,
                 losses, loops>>

-----------------------------------------------------------------------------
\* The exchange (external).

\* Bitfinex wants a new nonce each time, and streams when it has it.
Serve ==
  /\ link = "up" /\ out # <<>>
  /\ LET r == Head(out) IN
       CASE r.req = "auth" /\ kind # "bitfinex" ->
              authed' = TRUE /\ answers' = Append(answers, "login") /\ UNCHANGED <<live, seen>>
         [] r.req = "auth" /\ r.nonce > seen ->
              authed' = TRUE /\ live' = TRUE /\ seen' = r.nonce /\ UNCHANGED answers
         [] r.req = "sub" /\ authed ->
              live' = TRUE /\ UNCHANGED <<authed, answers, seen>>
         [] r.req = "sub" /\ ~authed ->
              answers' = Append(answers, "refused") /\ UNCHANGED <<authed, live, seen>>
         [] OTHER -> UNCHANGED <<authed, live, answers, seen>>
  /\ out' = Tail(out)
  /\ UNCHANGED <<kind, link, subs, token, nonce, app, hook, reply, losses, loops>>

\* _on_message: after a login Huobi and OKX subscribe; an OKX connection that
\* is told to log in (60011) does.  Huobi only logs a refusal.
OnMessage ==
  /\ reply = "none" /\ answers # <<>>
  /\ answers' = Tail(answers)
  /\ reply' = CASE Head(answers) = "login" /\ kind \in {"huobi", "okx"} -> "sub"
                [] Head(answers) = "refused" /\ kind = "okx" -> "auth"
                [] OTHER -> "none"
  /\ UNCHANGED <<kind, link, authed, live, out, seen, subs, token, nonce, app, hook, losses, loops>>

\* _send_trade and _send_order, which record the subscription first; a
\* connection may have been lost since, or replaced.
Respond ==
  /\ reply # "none"
  /\ reply' = "none"
  /\ subs' = IF reply = "sub" /\ subs = <<>> THEN <<Sub>> ELSE subs
  /\ Transmit(IF reply = "auth" THEN <<Auth(0)>> ELSE <<Sub>>, FALSE)
  /\ UNCHANGED <<kind, live, answers, seen, token, nonce, app, hook, losses, loops>>

Next ==
  \/ Subscribe \/ Loop \/ LoopSub \/ Lose \/ Reconnect \/ ReconnectStreams
  \/ Serve \/ OnMessage \/ Respond

Spec == Init /\ [][Next]_vars

\* The connection manager replaces a lost connection, threads run, and the
\* exchange answers.  The loop's sleeps (three hours) are not waited for.
Fairness ==
  /\ WF_vars(Reconnect) /\ WF_vars(ReconnectStreams)
  /\ WF_vars(Serve) /\ WF_vars(OnMessage) /\ WF_vars(Respond) /\ WF_vars(LoopSub)
FairSpec == Spec /\ Fairness

-----------------------------------------------------------------------------
TypeOK ==
  /\ kind \in Kinds /\ link \in {"init", "up", "lost"}
  /\ authed \in BOOLEAN /\ live \in BOOLEAN /\ token \in BOOLEAN /\ hook \in BOOLEAN
  /\ out \in Seq([req : {"auth", "sub"}, nonce : Nat])
  /\ subs \in Seq([req : {"auth", "sub"}, nonce : Nat])
  /\ answers \in Seq({"login", "refused"})
  /\ nonce \in Nat /\ seen \in 0..nonce
  /\ app \in {"idle", "loop", "sub", "over"} /\ reply \in {"none", "auth", "sub"}
  /\ losses \in 0..MaxLosses /\ loops \in 0..MaxLoops

\* A Huobi, OKX or KuCoin manager that has subscribed streams again after the
\* last loss, without waiting for the loop that comes round every three hours
\* (the docstring of the Huobi hook: sent before the authentication, "the
\* subscription is dead until the main loop logs in").  OKX has to have been
\* subscribed once: before, the base class has nothing to send again and
\* nobody logs in.  Not promised for Bybit, whose loop ends with the first send
\* that raises, nor for Bitfinex, which sends the authentication of the lost
\* connection again with its old nonce.
Subscribed ==
  /\ kind \in {"huobi", "okx", "kucoin", "huobiPublic", "okxPublic"}
  /\ app # "idle"
  /\ kind \in {"okx", "kucoin"} => subs # <<>>

Recovers == <>[](Subscribed => live)
=============================================================================
