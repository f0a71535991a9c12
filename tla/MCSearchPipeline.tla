-------------------------- MODULE MCSearchPipeline --------------------------
(* SearchPipeline for TLC: the queries are model values, what the user and *)
(* the environment do is chosen per run.                                   *)
EXTENDS SearchPipeline

(* Two texts differ only in their names: no handler tells them apart but   *)
(* by comparing them.  For the runs without liveness properties.           *)
TextSymmetry == Permutations(Text)

(* Everything that moves rows, hides them or replaces their search.        *)
EveryOp == AllOps
(* Only typing, and the list that loads.                                   *)
OnlyTyping == {}
=============================================================================
