---------------------------- MODULE MCMongoStore ----------------------------
(***************************************************************************)
(* Two threads of one process and a method of each kind.  Both insert      *)
(* funding rates and change trade records, and both insert these, the one  *)
(* by insert_trade_record, the other by insert_data_if_not_exists; only    *)
(* the first inserts deposits, the only documents with one writer.         *)
(***************************************************************************)
EXTENDS MongoStore, TLC

CONSTANTS c1, c2, k1, k2

MCClients == {c1, c2}
MCKeys == {k1, k2}
MCRepeated == {k2}   \* a list may name k2 twice, k1 never
Pick(methods, names) == {m \in methods : m.name \in names}
Keyed == {m \in TradeRecords : m.kind # "append"}
MCMenu ==
  c1 :> (Pick(FundingRates, {"insert_funding_rate_history"}) \cup InsertDeposits
         \cup Pick(Keyed, {"insert_trade_record", "update_trade_records_status"})
         \cup Pick(AnyCollection("trade_records"), {"delete_timeseries"}))
  @@ c2 :> (Pick(FundingRates, {"insert_funding_rate_history"})
            \cup Pick(TradeRecords, {"update_trade_record"})
            \cup Pick(AnyCollection("trade_records"), {"insert_data_if_not_exists"})
            \cup Pick(ReadInventory, {"read_inventory"}))
=============================================================================
