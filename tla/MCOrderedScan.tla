---------------------------- MODULE MCOrderedScan ----------------------------
(***************************************************************************)
(* An instance of OrderedScan for TLC.                                     *)
(***************************************************************************)
EXTENDS OrderedScan

AnyPanic == {"read", "search", "consume"}
=============================================================================
