---------------------------- MODULE MCFixClient -----------------------------
(* Threads that are started by connect() are interchangeable. *)
EXTENDS FixClient, TLC

MCSymmetry == Permutations(Receivers) \cup Permutations(Monitors)

\* All the messages are for one connection; two connections share one message
\* less.
MCBound == made <= 1 \/ emitted < Messages
=============================================================================
