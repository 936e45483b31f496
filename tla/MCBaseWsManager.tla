-------------------------- MODULE MCBaseWsManager --------------------------
(* Small instances of BaseWsManager: identities are numbers so that a new   *)
(* thread or WebSocketApp always takes the smallest free one.               *)
EXTENDS BaseWsManager

CONSTANTS nMonitors, nConns

MCMonitors == 1..nMonitors
MCConns == 1..nConns
=============================================================================
