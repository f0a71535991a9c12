--------------------------- MODULE MCSessionCache ---------------------------
(* SessionCache for TLC: one process with a thread that loads or refreshes *)
(* and the list's own thread.                                              *)
EXTENDS SessionCache, TLC

CONSTANTS a, b, main, list

(* Two sessions of one shard, and a shard that holds none.                 *)
ShardOfSession == (a :> 0) @@ (b :> 0)
OneProcess == (main :> 1) @@ (list :> 1)

(* Sessions of one shard differ only in their names.                       *)
SessionSymmetry == Permutations(Sessions)
=============================================================================
