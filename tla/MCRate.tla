------------------------------ MODULE MCRate ------------------------------
(* Small instances of RateLimit for TLC. *)
EXTENDS RateLimit, TLC

\* No action reads the floods.
WithoutFloods == <<now, ratel, seeks, sent, refused, forwards>>

\* The destinations are alike.
Alike == Permutations(Dests)
=============================================================================
