---------------------------- MODULE MongoMethods ----------------------------
(***************************************************************************)
(* The methods of MongodbOperations as a table: the collection a method    *)
(* works on and how.  Each exchange has collections of its own; the table  *)
(* shows one exchange, and names of collections leave out its prefix.      *)
(* Queries, sorting, limits and the conversion to a DataFrame are left     *)
(* out: a document is the value of its key, and a read finds some or none. *)
(***************************************************************************)

(***************************************************************************)
(*   append   insert_data: one document after the other, no test           *)
(*   keyed    the key is written to _id: a second insert is refused        *)
(*   absent   find_one for each document, insert_one if there is none      *)
(*   fresh    one find for all documents, insert_data of those not found   *)
(*   upsert   bulk_write of ReplaceOne(upsert=True), unordered             *)
(*   set      update_one of the document of a key, which may not exist     *)
(*   setAny   the same, but without a key the first document is updated    *)
(*   setAll   update_many                                                  *)
(*   delete   delete_many                                                  *)
(*   read     an exception (NoDataException) when nothing is found          *)
(*   look     an empty result then                                         *)
(*   guarded  read under handle_mongodb_errors: None without a connection; *)
(*   glance   the same, with an empty result                               *)
(***************************************************************************)
Kinds == {"append", "keyed", "absent", "fresh", "upsert", "set", "setAny", "setAll",
          "delete", "read", "look", "guarded", "glance"}
Inserts == {"append", "keyed", "absent", "fresh", "upsert"}
Reads == {"read", "look", "guarded", "glance"}

M(name, coll, kind) == [name |-> name, coll |-> coll, kind |-> kind]
Into(kind, methods) == {M(m[1], m[2], kind) : m \in methods}

\* delete_*, and the generic inserts: the caller names the collection.
AnyCollection(coll) ==
  {M("delete_coll", coll, "delete"), M("delete_timeseries", coll, "delete"),
   M("delete_timeseries_batch", coll, "delete"), M("insert_data", coll, "append"),
   M("insert_data_if_not_exists", coll, "absent")}
DeleteInstCodes == {M("delete_inst_code_basic", "inst_code_basic", "delete")}

InsertOrders == Into("append",
  {<<"insert_orders", "orders">>, <<"insert_orders_fix", "orders_fix">>,
   <<"insert_orders_test", "orders_test">>, <<"insert_orders_raw", "orders_raw">>,
   <<"insert_trades", "trades">>, <<"insert_trades_fix", "trades_fix">>,
   <<"insert_trades_inventory", "trades_inventory">>})
InsertMarket == Into("append",
  {<<"insert_inventory", "inventory">>, <<"insert_inventory_quantity", "inventory_quantity">>,
   <<"insert_inventory_unrealized_profit_close_point", "unrealized_profit_close_point">>,
   <<"insert_klines", "klines">>, <<"insert_orderbook", "order_book">>,
   <<"insert_orderbook_ws", "order_book_ws">>, <<"insert_order_depth_ratio", "order_depth_ratio">>,
   <<"insert_balances", "balance">>})
InsertDeposits == {M("insert_deposit_withdraw", "deposit_withdraw", "fresh")}
InsertAccounts == Into("append",
  {<<"insert_pnl", "pnl">>, <<"insert_volume_fee", "volume_fee">>, <<"insert_run_task", "run_task">>,
   <<"insert_perp_position_risk", "perp_position">>, <<"insert_perp_income", "perp_income">>,
   <<"insert_balance_pnl_snapshot", "balance_pnl_snapshots">>})
InsertReference == Into("append",
  {<<"insert_last_agg_trade_time", "official.last_agg_trade_time">>,
   <<"insert_inst_code_basic", "inst_code_basic">>, <<"insert_rank", "rank">>,
   <<"insert_accounts", "all_accounts">>, <<"insert_trades_other", "trades_other">>,
   <<"insert_orders_other", "orders_other">>, <<"insert_depth", "depth">>,
   <<"insert_budget", "budget">>, <<"insert_daily_order", "daily_order">>,
   <<"insert_max_inventory", "max_inventory">>})

ReadReference ==
  Into("read", {<<"read_accounts", "all_accounts">>, <<"read_inst_code_basic", "inst_code_basic">>,
                <<"read_pairs", "inst_code_basic">>, <<"read_coin_inst_code", "inst_code_basic">>,
                \* not where insert_last_agg_trade_time puts it
                <<"read_last_agg_trade_time", "orders.last_agg_trade_time">>})
  \cup Into("look", {<<"read_exchanges", "all_accounts">>,
                     <<"read_yesterday_balance_pnl_snapshot", "balance_pnl_snapshots">>,
                     <<"check_duplicate_open_time", "klines">>})
ReadMarket ==
  Into("look", {<<"read_last_kline", "klines">>, <<"read_kline_df", "klines">>})
  \cup Into("read", {<<"read_last_trade_time", "official.last_agg_trade_time">>,
                     <<"read_budget", "budget">>, <<"read_last_orderbook", "order_book">>,
                     <<"read_orderbook", "order_book">>,
                     <<"read_order_depth_ratio", "order_depth_ratio">>})
ReadAccounts ==
  Into("read", {<<"read_perp_position_risk", "perp_position">>, <<"read_perp_income", "perp_income">>,
                <<"read_balance", "balance">>, <<"get_balance_time_span", "balance">>,
                <<"read_loan_df", "loan">>, <<"read_deposit_withdraw", "deposit_withdraw">>})
  \cup Into("look", {<<"read_balance_df", "balance">>,
                     <<"read_deposit_withdraw_df", "deposit_withdraw">>})
ReadOrders == Into("read", {<<"read_orders", "orders">>, <<"read_orders", "orders_other">>,
                            <<"read_orders", "orders_raw">>})
ReadTrades == Into("read", {<<"read_trades", "trades">>, <<"read_trades", "trades_other">>,
                            <<"read_trades", "trades_inventory">>})
ReadAnyCollection(coll) ==
  {M(m, coll, "look") : m \in {"read_coll", "read_yesterday_coll", "read_timeseries",
                               "read_timeseries_batch", "get_data_count"}}
ReadMetrics == Into("read",
  {<<"read_rank", "rank">>, <<"read_depth", "depth">>, <<"read_pnl", "pnl">>,
   <<"read_volume_fee", "volume_fee">>, <<"read_max_inventory", "max_inventory">>})
ReadInventory ==
  Into("guarded", {<<"read_inventory", "inventory">>, <<"read_first_and_last_inventory", "inventory">>})
  \cup Into("glance", {<<"read_inventory_quantity", "inventory_quantity">>,
                       <<"read_inventory_unrealized_profit_close_point",
                         "unrealized_profit_close_point">>})
Updates == Into("setAny", {<<"update_last_agg_trade_time", "official.last_agg_trade_time">>,
                           <<"update_inst_code_basic", "inst_code_basic">>})
Reports ==
  {M("insert_arbitrage_pools_report", "arbitrage_pools_report", "keyed"),
   M("read_arbitrage_pools_reports", "arbitrage_pools_report", "look")}
\* Only a dict is keyed by its trade_id or shadow_id: a list is appended.
TradeRecords ==
  {M("insert_trade_record", "trade_records", "keyed"),
   M("insert_trade_record", "trade_records", "append"),
   M("update_trade_record", "trade_records", "set"),
   M("update_trade_records_status", "trade_records", "setAll"),
   M("count_trade_records_by_status", "trade_records", "look"),
   M("read_trade_records", "trade_records", "look"),
   M("read_trade_record_by_id", "trade_records", "look")}
ShadowTrades ==
  {M("insert_shadow_trade", "shadow_trades", "keyed"),
   M("insert_shadow_trade", "shadow_trades", "append"),
   M("update_shadow_trade", "shadow_trades", "set"),
   M("read_shadow_trades", "shadow_trades", "look")}
Premiums ==
  {M("insert_premium_snapshot", "premium_snapshots", "append"),
   M("read_premium_snapshots", "premium_snapshots", "look")}
FundingRates ==
  {M("insert_funding_rate_history", "funding_rate_history", "upsert"),
   M("read_funding_rate_history", "funding_rate_history", "look")}

Methods ==
  DeleteInstCodes \cup InsertOrders \cup InsertMarket \cup InsertDeposits \cup InsertAccounts
  \cup InsertReference \cup ReadReference \cup ReadMarket \cup ReadAccounts \cup ReadOrders
  \cup ReadTrades \cup ReadMetrics \cup ReadInventory \cup Updates \cup Reports
  \cup TradeRecords \cup ShadowTrades \cup Premiums \cup FundingRates
Named == {m.coll : m \in Methods}
AllMethods ==
  Methods \cup UNION {AnyCollection(coll) \cup ReadAnyCollection(coll) : coll \in Named}
=============================================================================
