----------------------------- MODULE InOrderScan -----------------------------
(***************************************************************************)
(* What scan_in_order (src/src/agent/ordered_scan.rs) promises its caller: *)
(* it hands over the results of the N items one after the other, none once *)
(* the caller has said to stop or has panicked, and it ends with all of    *)
(* them handed over unless it was stopped or a read or a search panicked.  *)
(***************************************************************************)
EXTENDS Naturals

CONSTANT N        (* how many items there are *)

VARIABLES
  consumed,       (* how many results the caller has taken           *)
  stopped,        (* the caller has said to stop                     *)
  panicked,       (* a read, a search or the caller has panicked     *)
  returned        (* the scan has ended                              *)

vars == <<consumed, stopped, panicked, returned>>

Init ==
  /\ consumed = 0
  /\ stopped = FALSE /\ panicked = FALSE /\ returned = FALSE

Consume ==
  /\ consumed < N /\ ~stopped /\ ~returned
  /\ consumed' = consumed + 1
  /\ stopped' \in BOOLEAN
  /\ UNCHANGED <<panicked, returned>>

Panic ==
  /\ ~returned
  /\ panicked' = TRUE
  /\ UNCHANGED <<consumed, stopped, returned>>

Return ==
  /\ ~returned
  /\ consumed = N \/ stopped \/ panicked
  /\ returned' = TRUE
  /\ UNCHANGED <<consumed, stopped, panicked>>

Next == Consume \/ Panic \/ Return

Spec == Init /\ [][Next]_vars
=============================================================================
