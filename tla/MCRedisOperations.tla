-------------------------- MODULE MCRedisOperations --------------------------
(* Small instances of RedisOperations: the two values update one field in   *)
(* common, and one of them a field of its own.                              *)
EXTENDS RedisOperations

Item(f, v) == [field |-> f, val |-> v]

MCItems == {Item("BTC", 1), Item("BTC", 2), Item("ETH", 1)}
MCArgs == {{Item("BTC", 1)}, {Item("BTC", 2), Item("ETH", 1)}}
=============================================================================
