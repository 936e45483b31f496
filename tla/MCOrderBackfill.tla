-------------------------- MODULE MCOrderBackfill ---------------------------
(* Two symbols, so that an empty first one leads to the second. *)
EXTENDS OrderBackfill

CONSTANTS s1, s2
MCSymbolList == <<s1, s2>>
=============================================================================
