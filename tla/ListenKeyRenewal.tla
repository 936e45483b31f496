-------------------------- MODULE ListenKeyRenewal --------------------------
(***************************************************************************)
(* The listen key of a Binance user-data stream (ws/binance_ws.py):        *)
(* post_listen_key, put_listen_key, subscribe and _ping of                 *)
(* BinanceWsManager, one thread per manager.                               *)
(*                                                                         *)
(* The exchange lets a key live KeyLife minutes after it was last granted  *)
(* or extended, and sends events only on a connection that was made for a  *)
(* key that lives.  _listen_key is an attribute of the class, so every     *)
(* manager of the process reads and writes the same dictionary.  Requests  *)
(* take no time here and sleeps take minutes.  The connection underneath   *)
(* is BaseWsManager's: a lost one is made again with the same _url (perp)  *)
(* or the same _subs (spot), so that only Bind changes what it streams.    *)
(***************************************************************************)
EXTENDS Naturals, FiniteSets

CONSTANTS
  Managers,     \* BinanceWsManager objects, each for an account of its own
  Perp,         \* the managers with is_perp
  None,         \* no key: not a key of any account
  KeyLife,      \* minutes: the exchange's
  ws_ping_sleep, reconnection_time_sleep, ws_listen_key_sleep,  \* minutes
  RecursionLimit, \* how often subscribe may call itself through _ping
  MaxFaults     \* bound on lost requests

ASSUME ConstantsAssumption ==
  /\ IsFiniteSet(Managers) /\ Perp \subseteq Managers
  /\ \A n \in {KeyLife, ws_ping_sleep, reconnection_time_sleep,
               ws_listen_key_sleep} : n \in Nat \ {0}
  /\ RecursionLimit \in Nat \ {0} /\ MaxFaults \in Nat
  /\ None \notin [account : Managers, n : Nat \ {0}]

VARIABLES
  \* The exchange, per account.
  key,        \* the key that lives, or None
  left,       \* minutes it still has
  made,       \* how many keys it has granted
  \* The managers.
  listenKey,  \* BinanceWsManager._listen_key, shared by all of them
  pc,         \* per manager: where its thread is
  wake,       \* per manager: minutes it still sleeps
  since,      \* per manager: minutes since _ping was called
  depth,      \* per manager: how deep subscribe is nested
  stream,     \* per manager: the key in _url (perp) or _subs (spot)
  dark,       \* per manager: minutes without a stream of its account's key
  overtaken,  \* history: how often another manager has written the entry it
              \* was about to read back
  faults

exchangeVars == <<key, left, made>>
vars == <<exchangeVars, listenKey, pc, wake, since, depth, stream,
          dark, overtaken, faults>>

Kinds == {"SPOT", "PERP"}

\* Mutant of Kind: one entry for both kinds of key.
KindSpot(m) == "SPOT"

\* _listen_key_kind
Kind(m) == IF m \in Perp THEN "PERP" ELSE "SPOT"

\* A key says whose it is.
Keys == [account : Managers, n : Nat \ {0}]

TypeOK ==
  /\ key \in [Managers -> Keys \cup {None}]
  /\ left \in [Managers -> 0..KeyLife]
  /\ made \in [Managers -> Nat]
  /\ listenKey \in [Kinds -> Keys \cup {None}]
  /\ pc \in [Managers -> {"post", "bind", "put", "repost", "check", "asleep",
                          "over"}]
  /\ wake \in [Managers -> Nat]
  /\ since \in [Managers -> Nat]
  /\ depth \in [Managers -> 1..RecursionLimit]
  /\ stream \in [Managers -> Keys \cup {None}]
  /\ dark \in [Managers -> Nat] /\ overtaken \in [Managers -> Nat]
  /\ faults \in 0..MaxFaults

Init ==
  /\ key = [m \in Managers |-> None]
  /\ left = [m \in Managers |-> 0]
  /\ made = [m \in Managers |-> 0]
  /\ listenKey = [k \in Kinds |-> None]
  /\ pc = [m \in Managers |-> "post"]
  /\ wake = [m \in Managers |-> 0]
  /\ since = [m \in Managers |-> 0]
  /\ depth = [m \in Managers |-> 1]
  /\ stream = [m \in Managers |-> None]
  /\ dark = [m \in Managers |-> 0] /\ overtaken = [m \in Managers |-> 0]
  /\ faults = 0

Goto(m, label) == pc' = [pc EXCEPT ![m] = label]

Fault == faults < MaxFaults /\ faults' = faults + 1

-----------------------------------------------------------------------------
\* The exchange.

\* The key an account is granted: the one that lives, or a new one.
NextKey(m) ==
  IF key[m] # None THEN key[m] ELSE [account |-> m, n |-> made[m] + 1]

Grant(m) ==
  /\ key' = [key EXCEPT ![m] = NextKey(m)]
  /\ made' = [made EXCEPT ![m] = NextKey(m).n]
  /\ left' = [left EXCEPT ![m] = KeyLife]

\* Mutant of Extend: each keep-alive adds to what is left.
ExtendAdds(m) ==
  /\ left' = [left EXCEPT ![m] = @ + KeyLife]
  /\ UNCHANGED <<key, made>>

Extend(m) ==
  /\ left' = [left EXCEPT ![m] = KeyLife]
  /\ UNCHANGED <<key, made>>

\* userDataStream.ping names the shared spot key; the perp request names none.
Extensible(m) ==
  key[m] # None /\ (m \in Perp \/ listenKey["SPOT"] = key[m])

-----------------------------------------------------------------------------
\* What is granted goes to the dictionary of the class.  A manager of the same
\* kind that has posted and not read back yet will read this key instead.
Alike(m, o) == m # o /\ (m \in Perp <=> o \in Perp)
Write(m) ==
  /\ listenKey' = [listenKey EXCEPT ![Kind(m)] = NextKey(m)]
  /\ overtaken' = [o \in Managers |->
       IF Alike(m, o) /\ pc[o] = "bind" THEN overtaken[o] + 1 ELSE overtaken[o]]

\* post_listen_key, called by subscribe.  An outage that outlasts its attempts
\* raises; the last attempt may have been granted and its answer lost.

Post(m) ==
  /\ pc[m] = "post"
  /\ Grant(m)
  /\ Write(m)
  /\ Goto(m, "bind")
  /\ UNCHANGED <<wake, since, depth, stream, dark, faults>>

\* subscribe catches the exception and returns: _ping is never called again.
PostFails(m) ==
  /\ pc[m] = "post"
  /\ Fault
  /\ UNCHANGED exchangeVars \/ Grant(m)
  /\ Goto(m, "over")
  /\ UNCHANGED <<listenKey, wake, since, depth, stream, dark, overtaken>>

\* subscribe reads the key back from the shared dictionary and reconnects
\* with it in the URL (perp) or subscribes to it (spot).
Bind(m) ==
  /\ pc[m] = "bind"
  /\ stream' = [stream EXCEPT ![m] = listenKey[Kind(m)]]
  /\ since' = [since EXCEPT ![m] = 0]
  /\ Goto(m, "put")
  /\ UNCHANGED <<exchangeVars, listenKey, wake, depth, dark, overtaken, faults>>

-----------------------------------------------------------------------------
\* put_listen_key, called by _ping.

\* Mutant of PutOk: the keep-alive does not reach the exchange.
PutNothing(m) ==
  /\ pc[m] = "put"
  /\ Goto(m, "check")
  /\ UNCHANGED <<exchangeVars, listenKey, wake, since, depth, stream,
                 dark, overtaken, faults>>

PutOk(m) ==
  /\ pc[m] = "put"
  /\ Extensible(m)
  /\ Extend(m)
  /\ Goto(m, "check")
  /\ UNCHANGED <<listenKey, wake, since, depth, stream, dark, overtaken, faults>>

\* The exchange knows no such key: a new one is asked for.
PutRefused(m) ==
  /\ pc[m] = "put"
  /\ ~Extensible(m)
  /\ Goto(m, "repost")
  /\ UNCHANGED <<exchangeVars, listenKey, wake, since, depth, stream,
                 dark, overtaken, faults>>

\* No answer: spot asks for a new key, perp only logs it.
PutLost(m) ==
  /\ pc[m] = "put"
  /\ Fault
  /\ UNCHANGED exchangeVars \/ (Extensible(m) /\ Extend(m))
  /\ Goto(m, IF m \in Perp THEN "check" ELSE "repost")
  /\ UNCHANGED <<listenKey, wake, since, depth, stream, dark, overtaken>>

\* The key goes to the dictionary, and nowhere else.
Repost(m) ==
  /\ pc[m] = "repost"
  /\ Grant(m)
  /\ Write(m)
  /\ Goto(m, "check")
  /\ UNCHANGED <<wake, since, depth, stream, dark, faults>>

\* Perp swallows the exception; spot lets it reach _ping, which sleeps and
\* tries again without looking at reconnection_time.
RepostFails(m) ==
  /\ pc[m] = "repost"
  /\ Fault
  /\ UNCHANGED exchangeVars \/ Grant(m)
  /\ IF m \in Perp
     THEN Goto(m, "check") /\ UNCHANGED wake
     ELSE /\ wake' = [wake EXCEPT ![m] = ws_listen_key_sleep]
          /\ Goto(m, "asleep")
  /\ UNCHANGED <<listenKey, since, depth, stream, dark, overtaken>>

-----------------------------------------------------------------------------
\* _ping.

\* Mutant of Check: no reconnection_time.
CheckNever(m) ==
  /\ pc[m] = "check"
  /\ wake' = [wake EXCEPT ![m] = ws_ping_sleep]
  /\ Goto(m, "asleep")
  /\ UNCHANGED <<exchangeVars, listenKey, since, depth, stream, dark, overtaken, faults>>

\* After reconnection_time _ping calls subscribe, in a frame below this one:
\* RecursionError ends every frame once there are too many.
Check(m) ==
  /\ pc[m] = "check"
  /\ \/ /\ since[m] < reconnection_time_sleep
        /\ wake' = [wake EXCEPT ![m] = ws_ping_sleep]
        /\ Goto(m, "asleep")
        /\ UNCHANGED depth
     \/ /\ since[m] >= reconnection_time_sleep
        /\ depth[m] < RecursionLimit
        /\ depth' = [depth EXCEPT ![m] = @ + 1]
        /\ Goto(m, "post")
        /\ UNCHANGED wake
     \/ /\ since[m] >= reconnection_time_sleep
        /\ depth[m] = RecursionLimit
        /\ Goto(m, "over")
        /\ UNCHANGED <<depth, wake>>
  /\ UNCHANGED <<exchangeVars, listenKey, since, stream, dark, overtaken, faults>>

Wakes(m) ==
  /\ pc[m] = "asleep"
  /\ wake[m] = 0
  /\ Goto(m, "put")
  /\ UNCHANGED <<exchangeVars, listenKey, wake, since, depth, stream,
                 dark, overtaken, faults>>

-----------------------------------------------------------------------------
\* The world.

Delivering(m) == key[m] # None /\ stream[m] = key[m]

Asleep == {m \in Managers : pc[m] = "asleep"}

\* Time passes while every thread sleeps or is over, up to the next wake-up.
\* A key whose time is up is gone: what follows a sleep comes after it.
Passes ==
  /\ \A m \in Managers : pc[m] \in {"asleep", "over"}
  /\ \E d \in {wake[m] : m \in Asleep} :
     /\ d > 0
     /\ \A m \in Asleep : d <= wake[m]
     /\ wake' = [m \in Managers |-> IF m \in Asleep THEN wake[m] - d ELSE 0]
     /\ since' = [m \in Managers |-> IF m \in Asleep THEN since[m] + d ELSE 0]
     /\ left' = [m \in Managers |-> IF left[m] > d THEN left[m] - d ELSE 0]
     /\ key' = [m \in Managers |-> IF left[m] > d THEN key[m] ELSE None]
     /\ dark' = [m \in Managers |->
                   IF ~Delivering(m) THEN dark[m] + d
                   ELSE IF left[m] > d THEN 0 ELSE d - left[m]]
  /\ UNCHANGED <<made, listenKey, pc, depth, stream, overtaken, faults>>

Manager(m) ==
  \/ Post(m) \/ PostFails(m) \/ Bind(m)
  \/ PutOk(m) \/ PutRefused(m) \/ PutLost(m) \/ Repost(m) \/ RepostFails(m)
  \/ Check(m) \/ Wakes(m)

Next == Passes \/ \E m \in Managers : Manager(m)

Spec == Init /\ [][Next]_vars

-----------------------------------------------------------------------------
\* Properties.

\* While no request is lost the events of a manager that has not been
\* overtaken never stop: ws_ping_sleep is short enough for the key, a renewal
\* leaves no gap, and a spot keep-alive that names the key of another manager
\* is made good at once (_ping, put_listen_key, subscribe).
Uninterrupted ==
  faults = 0 =>
    \A m \in Managers :
      pc[m] = "asleep" /\ overtaken[m] = 0 => Delivering(m) /\ dark[m] = 0

\* As long as the renewal goes on the periodic subscribe repairs what a lost
\* keep-alive, a re-created key that is not used, or another manager's key
\* have done to a stream: it lacks the events of its account for at most one
\* reconnection_time, the sleep it is noticed after and the retries, and as
\* long again for each time it was overtaken (_ping, subscribe).  Nothing is
\* promised once a failed post_listen_key or the recursion limit has ended
\* the renewal.
Period == reconnection_time_sleep + ws_ping_sleep
DarkIsBounded ==
  \A m \in Managers :
    pc[m] # "over" =>
      dark[m] <= (1 + overtaken[m]) * Period + MaxFaults * ws_listen_key_sleep

\* Any number of managers write one dictionary and read back what is there.  A
\* manager streams the events of another account only if a manager of its own
\* kind was granted a key between its post_listen_key and its read, or put one
\* there with a keep-alive (_listen_key, _listen_key_kind, subscribe).
OwnEvents ==
  \A m \in Managers :
    stream[m] # None /\ overtaken[m] = 0 => stream[m].account = m

\* "listenKey expired or endpoint gone, re-creating...": a thread that sleeps
\* until the next keep-alive has put the key it holds into its connection, for
\* "Binance perp userDataStream only delivers events when listenKey is in the
\* URL path" (put_listen_key, subscribe).
RecreatedKeyIsUsed ==
  \A m \in Managers : pc[m] = "asleep" => stream[m] = listenKey[Kind(m)]

=============================================================================
