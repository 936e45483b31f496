--------------------------- MODULE MCRestRequests ---------------------------
(***************************************************************************)
(* Two calls: the first may be any operation of any client, the second is  *)
(* a limit order of the asynchronous client.  Calls share only the event   *)
(* loop, so the second is made only beside an asynchronous first one.      *)
(***************************************************************************)
EXTENDS RestRequests, TLC

CONSTANTS c1, c2

MCCalls == {c1, c2}
MCMenu ==
  c1 :> Shapes(Binance \cup Others)
  @@ c2 :> Shapes(Rows({"place_limit_order"}, Op("POST", "signed", "rest"), BinanceAsync))

MCNext == Next /\ (pc'[c2] = "idle" \/ Async(c1))
MCSpec == Init /\ [][MCNext]_vars /\ Fairness
=============================================================================
