--------------------------- MODULE OrderBackfill ----------------------------
(***************************************************************************)
(* supplement_orders of the Binance manager: after a reconnect the trades  *)
(* of the time without a connection are fetched page by page               *)
(* (get_binance_trade).  Several trades can have one time stamp.           *)
(* The manager that reconnects is BaseWsManager; here it only sets         *)
(* connect_status.  A trade is its place in the order of the exchange, so  *)
(* that a page, which comes in this order, is given by the set of its      *)
(* trades; of the result it only counts how often it has each of them.     *)
(***************************************************************************)
EXTENDS Integers, FiniteSets, Sequences, SequencesExt, FiniteSetsExt

CONSTANTS
  SymbolList, \* _mm_symbol_list
  Trades,     \* bound: trades of a symbol, numbered by time, then by id
  MaxTime,    \* bound: time stamps 1..MaxTime
  Page,       \* trades in an answer (url_limit)
  MaxFaults,  \* bound: requests that fail
  MaxFills    \* bound: gaps that are filled

ConstantsAssumption ==
  /\ SymbolList \in Seq(ToSet(SymbolList)) /\ SymbolList # <<>>
  /\ Trades \in Nat /\ MaxTime \in Nat \ {0} /\ Page \in Nat \ {0}
  /\ MaxFaults \in Nat /\ MaxFills \in Nat
ASSUME ConstantsAssumption

Symbols == ToSet(SymbolList)
Ids == 1..Trades
Stamps == 1..MaxTime
Histories == {h \in [Ids -> Stamps] : \A i, j \in Ids : i < j => h[i] <= h[j]}

VARIABLES
  when,       \* when[s]: the time stamp of each trade of symbol s (exchange)
  clock,      \* the time at which the application calls supplement_orders
  status,     \* connect_status of start_end_time_dict, which others share
  start, end, \* its start_time and end_time, 0 when missing
  todo,       \* the symbols that are still to be fetched
  span,       \* time_span of the fetch
  cursor,     \* start_tmp
  page,       \* trade_res, empty while there is none
  result,     \* result[i]: how often the fetch has collected trade i
  broken,     \* the fetch was ended by a failed request
  pc,         \* "idle", "fetch", "page", "fetched"
  faults, fills

dict == <<status, start, end>>
fetch == <<todo, span, cursor, page, result, broken>>
vars == <<when, clock, dict, fetch, pc, faults, fills>>

NoSpan == [start |-> 0, end |-> 0]
Nothing == [i \in Ids |-> 0]

\* The application gives the dictionary with a connect_status of its choice.
Init ==
  /\ when \in [Symbols -> Histories]
  /\ clock = 1 /\ status \in BOOLEAN /\ start = 0 /\ end = 0
  /\ todo = <<>> /\ span = NoSpan /\ cursor = 0 /\ page = {} /\ result = Nothing
  /\ broken = FALSE /\ pc = "idle" /\ faults = 0 /\ fills = 0

Tick ==
  /\ pc = "idle" /\ clock < MaxTime
  /\ clock' = clock + 1
  /\ UNCHANGED <<when, dict, fetch, pc, faults, fills>>

\* _connect: with every dial, before it has succeeded.
Connect ==
  /\ status = FALSE
  /\ status' = TRUE
  /\ UNCHANGED <<when, clock, start, end, fetch, pc, faults, fills>>

\* supplement_orders while nothing has been dialed since the last gap.
Note ==
  /\ pc = "idle" /\ ~status
  /\ start' = clock
  /\ UNCHANGED <<when, clock, status, end, fetch, pc, faults, fills>>

\* supplement_orders after it: the gap counts as filled before it is fetched.
Supplement ==
  /\ pc = "idle" /\ status /\ fills < MaxFills
  /\ end' = clock /\ status' = FALSE
  /\ IF start = 0 THEN UNCHANGED <<fetch, pc>>
     ELSE /\ todo' = SymbolList
          /\ span' = [start |-> start, end |-> clock]
          /\ cursor' = start
          /\ page' = {} /\ result' = Nothing /\ broken' = FALSE
          /\ pc' = "fetch"
  /\ fills' = fills + 1
  /\ UNCHANGED <<when, clock, start, faults>>

-----------------------------------------------------------------------------
\* get_binance_trade.

Symbol == Head(todo)
At(i) == when[Symbol][i]

\* The exchange answers with the first trades from cursor to the end.
Inside == {i \in Ids : At(i) >= cursor /\ At(i) <= span.end}
Answer == {i \in Inside : Cardinality({j \in Inside : j <= i}) <= Page}

Fetched == pc' = "fetched" /\ page' = {}

\* An empty answer and one that ends where it began are the last.
Request ==
  /\ pc = "fetch"
  /\ IF Answer = {} \/ At(Max(Answer)) = cursor
     THEN Fetched
     ELSE page' = Answer /\ pc' = "page"
  /\ UNCHANGED <<when, clock, dict, todo, span, cursor, result, broken, faults, fills>>

\* An exception, None under a rate limit, an error code: the loop ends, and
\* what has been collected is returned as if it were all.
RequestFails ==
  /\ pc = "fetch" /\ faults < MaxFaults
  /\ faults' = faults + 1
  /\ broken' = TRUE
  /\ Fetched
  /\ UNCHANGED <<when, clock, dict, todo, span, cursor, result, fills>>

Untied(p) == IF At(Min(p)) = cursor THEN p \ {Min(p)} ELSE p
Kept(p) == {i \in p : At(i) \notin {span.start, span.end}}
Collect(p) ==
  result' = [i \in Ids |-> IF i \in Kept(p) THEN result[i] + 1 ELSE result[i]]

\* Mutant of Turn: the next page starts after the last trade's time stamp.
TurnPast ==
  /\ pc = "page"
  /\ cursor' = At(Max(page)) + 1
  /\ Collect(Untied(page))
  /\ page' = {} /\ pc' = "fetch"
  /\ UNCHANGED <<when, clock, dict, todo, span, broken, faults, fills>>

\* Mutant of Turn: the trade at which the pages meet is taken twice.
TurnTied ==
  /\ pc = "page"
  /\ cursor' = At(Max(page))
  /\ Collect(page)
  /\ page' = {} /\ pc' = "fetch"
  /\ UNCHANGED <<when, clock, dict, todo, span, broken, faults, fills>>

\* Mutant of Turn: the last trade itself is what the next page starts from.
TurnId ==
  /\ pc = "page"
  /\ cursor' = 0 - Max(page)
  /\ Collect(Untied(page))
  /\ page' = {} /\ pc' = "fetch"
  /\ UNCHANGED <<when, clock, dict, todo, span, broken, faults, fills>>

\* The first trade is dropped if it has the time stamp of the page before, and
\* trades at the very start or end of the span are.
Turn ==
  /\ pc = "page"
  /\ cursor' = At(Max(page))
  /\ Collect(Untied(page))
  /\ page' = {} /\ pc' = "fetch"
  /\ UNCHANGED <<when, clock, dict, todo, span, broken, faults, fills>>

\* Mutant of Publish: the same symbol again.
PublishSame ==
  /\ pc = "fetched"
  /\ IF result = Nothing /\ Len(todo) > 1
     THEN cursor' = span.start /\ pc' = "fetch" /\ UNCHANGED <<span, todo>>
     ELSE todo' = <<>> /\ cursor' = 0 /\ span' = NoSpan /\ pc' = "idle"
  /\ result' = Nothing /\ broken' = FALSE
  /\ UNCHANGED <<when, clock, dict, page, faults, fills>>

\* Back in supplement_orders: the trades are dictionaries already, to_dict()
\* raises at the first one, and neither it nor another symbol is published.
Publish ==
  /\ pc = "fetched"
  /\ IF result = Nothing /\ Len(todo) > 1
     THEN todo' = Tail(todo) /\ cursor' = span.start /\ pc' = "fetch" /\ UNCHANGED span
     ELSE todo' = <<>> /\ cursor' = 0 /\ span' = NoSpan /\ pc' = "idle"
  /\ result' = Nothing /\ broken' = FALSE
  /\ UNCHANGED <<when, clock, dict, page, faults, fills>>

Next ==
  \/ Tick \/ Connect \/ Note \/ Supplement
  \/ Request \/ RequestFails \/ Turn \/ Publish

Spec == Init /\ [][Next]_vars

\* A fetch that runs goes on running: a request returns or raises.
FairSpec == Spec /\ WF_vars(Request \/ RequestFails \/ Turn \/ Publish)

-----------------------------------------------------------------------------
TypeOK ==
  /\ when \in [Symbols -> Histories]
  /\ clock \in Stamps /\ status \in BOOLEAN
  /\ start \in 0..clock /\ end \in 0..clock
  /\ todo \in Seq(Symbols)
  /\ span \in [start : 0..MaxTime, end : 0..MaxTime]
  /\ cursor \in 0..MaxTime
  /\ page \subseteq Ids /\ result \in [Ids -> Nat]
  /\ broken \in BOOLEAN /\ pc \in {"idle", "fetch", "page", "fetched"}
  /\ faults \in 0..MaxFaults /\ fills \in 0..MaxFills

Ties(i) == {j \in Ids : At(j) = At(i)}
Due == {i \in Ids : At(i) > span.start /\ At(i) < span.end}
Taken == {i \in Ids : result[i] > 0}

First(i) == \A j \in Ties(i) : i <= j
Followed(i) == \E j \in Ids : At(j) > At(i) /\ At(j) <= span.end

\* A fetch that no request has broken off has the trades inside the span and
\* no others, wherever the pages end, provided that no time stamp has a page
\* full of trades (get_binance_trade).  Not promised are the second and later
\* trades of the last time stamp: an answer that ends where it began ends the
\* loop, with what it brings unread.
Complete ==
  pc = "fetched" /\ ~broken =>
    /\ Taken \subseteq Due
    /\ (\A i \in Ids : Cardinality(Ties(i)) < Page) =>
          {i \in Due : First(i) \/ Followed(i)} \subseteq Taken

\* A trade is collected a second time only if it is not the first of its time
\* stamp: such a trade is in two pages, and only the first of a page is
\* dropped.  None is collected a third time.
OnlyTiesTwice ==
  pc # "idle" =>
    \A i \in Ids : result[i] <= IF First(i) THEN 1 ELSE 2

\* Every fetch comes to an end, whatever the exchange has in the span.
Ends == pc # "idle" ~> pc = "idle"
=============================================================================
