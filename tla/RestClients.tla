----------------------------- MODULE RestClients -----------------------------
(***************************************************************************)
(* The REST clients of src/pytradekit/restful as tables.  A client is one  *)
(* way of sending a request, its _send_request or request method, and a    *)
(* list of operations, each of which builds its parameters and sends them. *)
(* Addresses, parameter names and signature algorithms are left out; what  *)
(* is kept of a request is what decides the fate of the call: its method,  *)
(* whether it is signed, what it does on the exchange, whether other       *)
(* requests go before it and what becomes of its result.                   *)
(***************************************************************************)

(***************************************************************************)
(* A way of sending:                                                       *)
(*   waits    how long an answer is waited for: under 5 s, longer than any *)
(*            receive window, or for ever (no timeout is passed);          *)
(*   resends  whether the session sends again by itself (urllib3 Retry);   *)
(*   failed   what the caller gets when the request fails: an exception,   *)
(*            the exception as the return value, a dict with "error", or   *)
(*            another attempt (async_retry_decorator);                     *)
(*   good     the same for an answer, and                                  *)
(*   refused  for an answer that says no;                                  *)
(*   limited  for one that says too many requests: wait and return None,   *)
(*            block the event loop, wait and send again, or no difference. *)
(***************************************************************************)
Waits == {"short", "long", "ever"}
Failures == {"raised", "value", "error", "retry"}
Ends == {"data", "raised", "value", "error", "refused", "body", "none", "empty"}
Senders ==
  [waits : Waits, resends : BOOLEAN, failed : Failures, good : SUBSET Ends,
   refused : SUBSET Ends, limited : {"none", "block", "again", "same"}]

Sender(waits, failed, refused) ==
  [waits |-> waits, resends |-> FALSE, failed |-> failed, good |-> {"data"},
   refused |-> refused, limited |-> "same"]

BinanceSync ==
  [waits |-> "long", resends |-> TRUE, failed |-> "raised", good |-> {"data"},
   refused |-> {"raised"}, limited |-> "none"]
BinanceAsync ==
  [waits |-> "short", resends |-> FALSE, failed |-> "retry", good |-> {"data"},
   refused |-> {"refused"}, limited |-> "block"]

HuobiSend == Sender("ever", "value", {"body"})
OkexSend == Sender("ever", "raised", {"body", "raised"})
BybitSend == Sender("ever", "value", {"body"})
BitfinexSend == Sender("ever", "value", {"none"})
BitgetSend == Sender("short", "value", {"body"})
BitmartSend == Sender("ever", "value", {"body"})
BullishSend == Sender("ever", "value", {"body"})
CoinwSend == Sender("ever", "error", {"body"})
ExmoSend(http) == Sender(IF http = "POST" THEN "short" ELSE "ever", "value", {"body"})
\* An answer without the rate-limit header is an exception, returned.
GateioSend == [Sender("short", "value", {"body", "value"}) EXCEPT !.good = {"data", "value"}]
HashkeySend == [Sender("ever", "value", {"body"}) EXCEPT !.limited = "again"]
KrakenSend == Sender("ever", "error", {"body"})
KucoinSend == Sender("short", "value", {"body"})
LbankSend == Sender("ever", "value", {"body"})
MercadoSend == Sender("ever", "value", {"body"})
MexcSend == Sender("short", "value", {"body"})
PoloniexSend == Sender("ever", "error", {"body", "error"})
WazirxSend == Sender("ever", "value", {"body"})
WooxSend == Sender("ever", "raised", {"body"})

(***************************************************************************)
(* An operation: the method and the signature of its request ("unsigned":  *)
(* a private address without its signed parameters), what the request does *)
(* (read; move: done once more each time it is executed; rest: an order    *)
(* that stays in the book under its client id; cancel), what goes before   *)
(* it (both: a first request of the same kind; account: the account id;    *)
(* cached: the account id unless the client has it already) and what the   *)
(* method makes of the result.                                             *)
(***************************************************************************)
Operations ==
  [http : {"GET", "POST", "DELETE"}, signed : {"signed", "public", "unsigned"},
   kind : {"read", "move", "rest", "cancel"},
   before : {"nothing", "both", "account", "cached"},
   after : {"nothing", "filter", "swallow", "rate", "index"}]
Op(http, signed, kind) ==
  [http |-> http, signed |-> signed, kind |-> kind, before |-> "nothing", after |-> "nothing"]
Before(first, op) == [op EXCEPT !.before = first]
After(what, op) == [op EXCEPT !.after = what]

\* The operations called names, all of the same shape.
Rows(names, op, by) == {[name |-> n, op |-> op, by |-> by] : n \in names}

SignedGet == Op("GET", "signed", "read")
PublicGet == Op("GET", "public", "read")
SignedPost == Op("POST", "signed", "read")
PublicPost == Op("POST", "public", "read")

\* binance_restful.py.
BinanceAccount ==
  Rows({"get_account_information", "get_account_trade_list", "get_account_all_orders",
        "get_account_open_orders", "get_balances", "get_wallet",
        "get_deposit_history", "get_withdraw_history"}, SignedGet, BinanceSync)
  \cup Rows({"get_exchange_information", "get_alpha_exchange_information", "get_ticker_24hr",
             "get_perp_ticker_24hr", "get_orderbook", "get_klines"}, PublicGet, BinanceSync)
  \cup Rows({"get_nonzero_spot_balances"}, After("filter", SignedGet), BinanceSync)
BinanceTransfers ==
  Rows({"get_transfer_history"}, After("swallow", SignedGet), BinanceSync)
  \cup Rows({"get_transfer_history_sub"}, Before("both", SignedGet), BinanceSync)
  \cup Rows({"universal_transfer", "futures_transfer", "fapi_transfer"},
            Op("POST", "signed", "move"), BinanceSync)
BinancePerpReads ==
  Rows({"get_perp_funding_rate", "get_perp_last_funding_rate", "get_perp_last_funding_rate_info",
        "get_perp_ticker_price", "get_perp_klines"}, PublicGet, BinanceSync)
  \cup Rows({"get_perp_open_interes_hist", "get_perp_all_order", "get_perp_user_trades",
             "get_perp_force_order"}, SignedGet, BinanceSync)
BinancePerpAccount ==
  Rows({"get_perp_position_risk", "get_perp_income", "get_perp_balance", "get_perp_account",
        "get_perp_multi_margin", "update_perp_margin_type"}, SignedGet, BinanceSync)
  \cup Rows({"get_nonzero_perp_balances", "get_active_perp_positions"},
            After("filter", SignedGet), BinanceSync)
BinanceOrders ==
  Rows({"place_market_order"}, Op("POST", "signed", "move"), BinanceAsync)
  \cup Rows({"place_maker_order", "place_limit_order"}, Op("POST", "signed", "rest"), BinanceAsync)
  \cup Rows({"cancel_order"}, Op("DELETE", "signed", "cancel"), BinanceAsync)
  \cup Rows({"get_trade", "get_order"}, SignedGet, BinanceSync)
BinanceSyncOrders ==
  Rows({"restful_place_market_order"}, Op("POST", "signed", "move"), BinanceSync)
  \cup Rows({"restful_place_limit_order"}, Op("POST", "signed", "rest"), BinanceSync)
  \cup Rows({"cancel_symbol_all_order"}, Op("DELETE", "unsigned", "cancel"), BinanceSync)
  \cup Rows({"get_funding_balance"}, SignedPost, BinanceSync)
  \cup Rows({"get_alpha_balance", "get_alpha_coin"}, SignedGet, BinanceSync)
  \cup Rows({"get_commission_rate"}, After("rate", SignedGet), BinanceSync)
BinancePerpOrders ==
  Rows({"set_leverage", "set_margin_type"}, Op("POST", "signed", "move"), BinanceSync)
  \cup Rows({"place_perp_maker_order"}, Op("POST", "signed", "rest"), BinanceAsync)
  \cup Rows({"place_perp_market_order"}, Op("POST", "signed", "move"), BinanceAsync)

\* huobi_restful.py and okex_restful.py, the other clients that place orders.
HuobiReads ==
  Rows({"get_perp_position", "get_perp_cross_position", "get_perp_financial_record",
        "get_perp_balances"}, SignedPost, HuobiSend)
  \cup Rows({"get_ticker_24hr", "get_exchange_information", "get_orderbook"}, PublicGet, HuobiSend)
  \cup Rows({"get_accounts", "get_deposit_withdraw_history", "get_orders", "get_trades"},
            SignedGet, HuobiSend)
  \cup Rows({"get_balances", "get_transfer_history"}, Before("account", SignedGet), HuobiSend)
  \cup Rows({"get_nonzero_spot_balances"},
            After("filter", Before("account", SignedGet)), HuobiSend)
  \cup Rows({"get_commission_rate"}, After("rate", SignedGet), HuobiSend)
HuobiOrders ==
  Rows({"place_spot_market_order"}, Before("cached", Op("POST", "signed", "move")), HuobiSend)
  \cup Rows({"place_spot_limit_order"}, Before("cached", Op("POST", "signed", "rest")), HuobiSend)
OkexReads ==
  Rows({"get_ticker_24hr", "get_exchange_information", "get_orderbook"}, PublicGet, OkexSend)
  \cup Rows({"get_perp_position", "get_perp_interest", "get_balances", "get_asset_balances",
             "get_deposit_history", "get_withdraw_history", "get_transfer_history",
             "get_orders", "get_trades"}, SignedGet, OkexSend)
  \cup Rows({"get_nonzero_spot_balances"}, After("filter", SignedGet), OkexSend)
  \cup Rows({"get_commission_rate"}, After("rate", SignedGet), OkexSend)
OkexOrders ==
  Rows({"place_spot_market_order"}, Op("POST", "signed", "move"), OkexSend)
  \cup Rows({"place_spot_limit_order"}, Op("POST", "signed", "rest"), OkexSend)

\* The clients that only read.
Market == {"get_ticker_24hr", "get_exchange_information", "get_orderbook"}

BybitReads ==
  Rows(Market, PublicGet, BybitSend)
  \cup Rows({"get_perp_position", "get_perp_interest", "get_balances", "get_transfer_history",
             "get_withdraw_history", "get_deposit_history", "get_deposit_internal_history",
             "get_orders", "get_trades"}, SignedGet, BybitSend)
BitfinexReads ==
  Rows({"get_orderbook", "get_klines", "get_ticker_24hr"}, PublicGet, BitfinexSend)
  \cup Rows({"get_balances", "get_deposit_history", "get_transfer_history", "get_orders",
             "get_trades"}, SignedPost, BitfinexSend)
BitgetReads ==
  Rows(Market, PublicGet, BitgetSend)
  \cup Rows({"get_balances", "get_deposit_history", "get_withdraw_history",
             "get_transfer_history", "get_orders", "get_trades"}, SignedGet, BitgetSend)
BitmartReads ==
  Rows(Market \cup {"get_ticker_trades"}, PublicGet, BitmartSend)
  \cup Rows({"get_balance", "get_deposit_history", "get_withdraw_history",
             "get_transfer_history", "get_subaccount_list"}, SignedGet, BitmartSend)
  \cup Rows({"get_orders", "get_trades"}, SignedPost, BitmartSend)
BullishReads == Rows(Market, PublicGet, BullishSend)
CoinwReads ==
  Rows({"get_ticker"}, PublicGet, CoinwSend)
  \cup Rows({"get_balance", "get_orders", "get_trades"}, SignedGet, CoinwSend)
ExmoReads ==
  Rows({"get_ticker_24hr", "get_exchange_information", "get_klines"}, PublicGet, ExmoSend("GET"))
  \cup Rows({"get_orderbook"}, PublicPost, ExmoSend("POST"))
  \cup Rows({"get_balance", "get_deposit_withdraw_history", "get_orders", "get_trades"},
            SignedPost, ExmoSend("POST"))
GateioReads ==
  Rows(Market, PublicGet, GateioSend)
  \cup Rows({"get_balances", "get_deposit_history", "get_withdraw_history",
             "get_transfer_history", "get_orders", "get_trades", "get_perp_position_risk",
             "get_perp_account", "get_perp_income"}, SignedGet, GateioSend)
HashkeyReads ==
  Rows(Market, PublicGet, HashkeySend)
  \cup Rows({"get_all_orders", "get_trades", "get_balance"}, SignedGet, HashkeySend)
KrakenReads ==
  Rows(Market, PublicGet, KrakenSend)
  \cup Rows({"convert_kraken_symbol", "convert_kraken_coin"}, After("index", PublicGet), KrakenSend)
  \cup Rows({"get_balance", "get_orders", "get_trades"}, SignedPost, KrakenSend)
KucoinReads ==
  Rows(Market \cup {"get_coin_ticker"}, PublicGet, KucoinSend)
  \cup Rows({"get_balances", "get_deposit_history", "get_withdraw_history",
             "get_transfer_history", "get_orders", "get_trades"}, SignedGet, KucoinSend)
LbankReads == Rows(Market \cup {"get_ticker_price"}, PublicGet, LbankSend)
MercadoReads ==
  Rows(Market \cup {"get_klines"}, PublicGet, MercadoSend)
  \cup Rows({"get_authorize"}, PublicPost, MercadoSend)
  \cup Rows({"get_accounts", "get_orders", "get_trades", "get_balance"}, SignedGet, MercadoSend)
MexcReads ==
  Rows(Market, PublicGet, MexcSend)
  \cup Rows({"get_balances", "get_deposit_history", "get_withdraw_history",
             "get_internal_transfer_history", "get_orders", "get_trades"}, SignedGet, MexcSend)
PoloniexReads == Rows(Market, PublicGet, PoloniexSend)
WazirxReads == Rows(Market \cup {"get_klines"}, PublicGet, WazirxSend)
WooxReads ==
  Rows({"get_kline", "get_exchange_information", "get_orderbook"}, PublicGet, WooxSend)
  \cup Rows({"get_balance", "get_orders", "get_trades"}, SignedGet, WooxSend)

Binance ==
  BinanceAccount \cup BinanceTransfers \cup BinancePerpReads \cup BinancePerpAccount
  \cup BinanceOrders \cup BinanceSyncOrders \cup BinancePerpOrders
Others ==
  HuobiReads \cup HuobiOrders \cup OkexReads \cup OkexOrders \cup BybitReads
  \cup BitfinexReads \cup BitgetReads \cup BitmartReads \cup BullishReads \cup CoinwReads
  \cup ExmoReads \cup GateioReads \cup HashkeyReads \cup KrakenReads \cup KucoinReads
  \cup LbankReads \cup MercadoReads \cup MexcReads \cup PoloniexReads \cup WazirxReads
  \cup WooxReads

\* What tells calls apart: two operations of one shape share their behaviours.
Shapes(rows) == {[op |-> r.op, by |-> r.by] : r \in rows}
=============================================================================
