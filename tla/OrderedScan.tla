----------------------------- MODULE OrderedScan -----------------------------
(***************************************************************************)
(* scan_in_order, src/src/agent/ordered_scan.rs: a pool of threads reads   *)
(* the items of a ranked list, another searches what was read, and the     *)
(* caller's thread hands the results over in rank order.  The pools share  *)
(* `schedule`, a record behind one mutex, and one condition variable; the  *)
(* results come through a channel.                                         *)
(*                                                                         *)
(* A step is what a thread does in one hold of the mutex, or between two.  *)
(* A thread that waits on the condition variable is at "wait", and goes    *)
(* back to "ready", to lock and look again, when another notifies all.     *)
(* The list of at most one item, or with one thread in each pool, which    *)
(* the code scans in a loop on the caller's thread, is left out.           *)
(***************************************************************************)
EXTENDS Integers, FiniteSets, Sequences

CONSTANTS
  N,               (* items.len()                                          *)
  Reads,           (* pools.reads                                          *)
  Reader,          (* the threads of the read pool                         *)
  Searcher,        (* the threads of the search pool                       *)
  ReadAheadBytes,  (* pools.read_ahead_bytes                               *)
  Size,            (* the sizes that items have in this instance, known    *)
  None,            (* Rust's None: an unknown size, no item                *)
  Wanted,          (* how many more results the caller may say it wants    *)
  Panics           (* which closures may panic                             *)

Item == 0 .. N - 1

ASSUME ItemsAssumption == N \in Nat /\ N > 1

ASSUME PoolAssumption ==
  /\ IsFiniteSet(Reader) /\ Reader # {}
  /\ IsFiniteSet(Searcher) /\ Searcher # {}
  /\ Reads \in Nat /\ Cardinality(Reader) <= Reads

ASSUME DataAssumption ==
  /\ ReadAheadBytes \in Nat /\ Size \subseteq Nat /\ None \notin Int
  /\ Wanted \subseteq Nat /\ Wanted # {}
  /\ Panics \subseteq {"read", "search", "consume"}

VARIABLES
  sizes,      (* what `size` says of each item                             *)
  schedule,   (* Schedule, but for the items' data                         *)
  reader,     (* the read pool's threads                                   *)
  searcher,   (* the search pool's threads                                 *)
  results,    (* the channel of results                                    *)
  consumer    (* the caller's thread                                       *)

vars == <<sizes, schedule, reader, searcher, results, consumer>>

-----------------------------------------------------------------------------
(* Records *)

Schedule == [next_read: 0 .. N, waiting: SUBSET Item, limit: Nat,
             stopped: BOOLEAN, reading: Nat, unsearched_bytes: Int,
             past_bound: Item \cup {None}, read: SUBSET Item]

ReadThread == [pc: {"ready", "wait", "read", "done", "panicked"},
               position: Item \cup {None}]
SearchThread == [pc: {"ready", "wait", "search", "send", "done", "panicked"},
                 position: Item \cup {None}]

(* `wanted` is what the caller asked for last.  A scan that returned has   *)
(* ended, with a panic of its own when a thread of its pools has panicked. *)
Consumer == [pc: {"receive", "panicked", "returned"}, finished: SUBSET Item,
             consumed: 0 .. N, stopped: BOOLEAN, wanted: Nat]

Thread(pc) == [pc |-> pc, position |-> None]

Larger(a, b) == IF a >= b THEN a ELSE b
Smaller(a, b) == IF a <= b THEN a ELSE b

(* For a mutant: the window may be empty.                                  *)
window_of_wanted(more_wanted) == more_wanted

window(more_wanted) == Larger(Larger(more_wanted, Reads), 1)

Init ==
  \E first_wanted \in Wanted :
    /\ sizes \in [Item -> Size \cup {None}]
    /\ schedule = [next_read |-> 0, waiting |-> {},
                   limit |-> window(first_wanted), stopped |-> FALSE,
                   reading |-> 0, unsearched_bytes |-> 0,
                   past_bound |-> None, read |-> {}]
    /\ reader = [r \in Reader |-> Thread("ready")]
    /\ searcher = [s \in Searcher |-> Thread("ready")]
    /\ results = <<>>
    /\ consumer = [pc |-> "receive", finished |-> {}, consumed |-> 0,
                   stopped |-> FALSE, wanted |-> first_wanted]

-----------------------------------------------------------------------------
(* Schedule's functions *)

Fits(s, position) ==
  /\ sizes[position] # None
  /\ s.unsearched_bytes + sizes[position] <= ReadAheadBytes

CanReserve(s, position) == Fits(s, position) \/ s.past_bound = None

(* Room for an item that CanReserve.                                       *)
reserve(s, position) ==
  IF Fits(s, position)
  THEN [s EXCEPT !.reading = @ + 1,
                 !.unsearched_bytes = @ + sizes[position]]
  ELSE [s EXCEPT !.reading = @ + 1, !.past_bound = position]

Untried(s) == s.next_read .. N - 1

(* For a mutant: an untried item goes before those that waited.            *)
ClaimableUntriedFirst(s) ==
  LET untried == {i \in Untried(s) : i < s.limit /\ CanReserve(s, i)}
  IN  IF untried # {} THEN untried
      ELSE {i \in s.waiting : i < s.limit /\ CanReserve(s, i)}

(* The items that claim_next would reserve room for, had it come to them.  *)
Claimable(s) ==
  {i \in s.waiting \cup Untried(s) : i < s.limit /\ CanReserve(s, i)}

(* The untried items before `end` have been tried, and wait.               *)
Tried(s, end) ==
  [s EXCEPT !.waiting = @ \cup {i \in Untried(s) : i < end},
            !.next_read = Larger(@, end)]

(* For mutants: an item that waited goes on waiting as it is read; tries   *)
(* past the last item.                                                     *)
claim_next_keeping_waiting(s, position) ==
  [Tried(reserve(s, position), position + 1) EXCEPT
     !.waiting = @ \ (Untried(s) \cap {position})]
claim_none_past_end(s) == Tried(s, s.limit)

(* claim_next, when it returns `position`, and when it returns None.       *)
claim_next(s, position) ==
  [Tried(reserve(s, position), position + 1) EXCEPT !.waiting = @ \ {position}]
claim_none(s) == Tried(s, Smaller(N, s.limit))

is_every_read_started(s) == s.next_read >= N /\ s.waiting = {}

(* For a mutant: the bytes of an item that was read past the bound are     *)
(* given back, though it never took any.                                   *)
finish_search_always_subtracting(s, position) ==
  [s EXCEPT !.past_bound = IF @ = position THEN None ELSE @,
            !.unsearched_bytes = @ - (IF sizes[position] = None
                                      THEN 0 ELSE sizes[position])]

(* For a mutant: the place past the bound is never given back.             *)
finish_search_keeping_place(s, position) ==
  IF s.past_bound = position THEN s
  ELSE [s EXCEPT !.unsearched_bytes =
          @ - (IF sizes[position] = None THEN 0 ELSE sizes[position])]

finish_search(s, position) ==
  IF s.past_bound = position
  THEN [s EXCEPT !.past_bound = None]
  ELSE [s EXCEPT !.unsearched_bytes =
          @ - (IF sizes[position] = None THEN 0 ELSE sizes[position])]

(* changed.notify_all(), for the threads of one pool.                      *)
Woken(threads) ==
  [t \in DOMAIN threads |->
     IF threads[t].pc = "wait" THEN Thread("ready") ELSE threads[t]]

-----------------------------------------------------------------------------
(* A thread of the read pool *)

(* claim_read, from the lock to its return or to the wait.  A claim        *)
(* notifies nobody: it only takes room.                                    *)
ClaimRead(r) ==
  /\ reader[r].pc = "ready"
  /\ \/ /\ schedule.stopped \/ is_every_read_started(schedule)
        /\ reader' = [reader EXCEPT ![r] = Thread("done")]
        /\ UNCHANGED schedule
     \/ /\ ~schedule.stopped /\ ~is_every_read_started(schedule)
        /\ \E position \in Claimable(schedule) :
             /\ \A other \in Claimable(schedule) : position <= other
             /\ schedule' = claim_next(schedule, position)
             /\ reader' = [reader EXCEPT
                  ![r] = [pc |-> "read", position |-> position]]
     \/ /\ ~schedule.stopped /\ ~is_every_read_started(schedule)
        /\ Claimable(schedule) = {}
        /\ schedule' = claim_none(schedule)
        /\ reader' = [reader EXCEPT ![r] = Thread("wait")]
  /\ UNCHANGED <<sizes, searcher, results, consumer>>

(* For a mutant: the read is kept without a notify_all.                    *)
FinishReadQuietly(r) ==
  /\ reader[r].pc = "read"
  /\ schedule' = [schedule EXCEPT !.reading = @ - 1,
                                  !.read = @ \cup {reader[r].position}]
  /\ reader' = [reader EXCEPT ![r] = Thread("ready")]
  /\ UNCHANGED <<sizes, searcher, results, consumer>>

FinishRead(r) ==
  /\ reader[r].pc = "read"
  /\ schedule' = [schedule EXCEPT !.reading = @ - 1,
                                  !.read = @ \cup {reader[r].position}]
  /\ reader' = Woken([reader EXCEPT ![r] = Thread("ready")])
  /\ searcher' = Woken(searcher)
  /\ UNCHANGED <<sizes, results, consumer>>

(* StopOnUnwind's drop, in a thread that panics in `read`.                 *)
PanicRead(r) ==
  /\ "read" \in Panics
  /\ reader[r].pc = "read"
  /\ schedule' = [schedule EXCEPT !.stopped = TRUE]
  /\ reader' = Woken([reader EXCEPT ![r] = Thread("panicked")])
  /\ searcher' = Woken(searcher)
  /\ UNCHANGED <<sizes, results, consumer>>

-----------------------------------------------------------------------------
(* A thread of the search pool *)

(* For a mutant: the last read may still be under way.                     *)
NothingMoreIsStarted(s) == is_every_read_started(s)

NothingMoreIsRead(s) == s.reading = 0 /\ is_every_read_started(s)

(* take_read, from the lock to its return or to the wait.                  *)
TakeRead(s) ==
  /\ searcher[s].pc = "ready"
  /\ \/ /\ schedule.stopped
        /\ searcher' = [searcher EXCEPT ![s] = Thread("done")]
        /\ UNCHANGED schedule
     \/ /\ ~schedule.stopped
        /\ \E position \in schedule.read :
             /\ \A other \in schedule.read : position <= other
             /\ schedule' = [schedule EXCEPT !.read = @ \ {position}]
             /\ searcher' = [searcher EXCEPT
                  ![s] = [pc |-> "search", position |-> position]]
     \/ /\ ~schedule.stopped /\ schedule.read = {}
        /\ searcher' = [searcher EXCEPT
             ![s] = Thread(IF NothingMoreIsRead(schedule) THEN "done"
                                                          ELSE "wait")]
        /\ UNCHANGED schedule
  /\ UNCHANGED <<sizes, reader, results, consumer>>

FinishSearch(s) ==
  /\ searcher[s].pc = "search"
  /\ schedule' = finish_search(schedule, searcher[s].position)
  /\ searcher' = Woken([searcher EXCEPT ![s].pc = "send"])
  /\ reader' = Woken(reader)
  /\ UNCHANGED <<sizes, results, consumer>>

PanicSearch(s) ==
  /\ "search" \in Panics
  /\ searcher[s].pc = "search"
  /\ schedule' = [schedule EXCEPT !.stopped = TRUE]
  /\ searcher' = Woken([searcher EXCEPT ![s] = Thread("panicked")])
  /\ reader' = Woken(reader)
  /\ UNCHANGED <<sizes, results, consumer>>

(* The receiver is there unless the caller's closure has panicked.         *)
SendResult(s) ==
  /\ searcher[s].pc = "send"
  /\ IF consumer.pc = "panicked"
     THEN /\ searcher' = [searcher EXCEPT ![s] = Thread("done")]
          /\ UNCHANGED results
     ELSE /\ searcher' = [searcher EXCEPT ![s] = Thread("ready")]
          /\ results' = Append(results, searcher[s].position)
  /\ UNCHANGED <<sizes, schedule, reader, consumer>>

-----------------------------------------------------------------------------
(* The caller's thread *)

IsNextFinished == consumer.consumed \in consumer.finished

ReceiveResult ==
  /\ consumer.pc = "receive" /\ ~IsNextFinished
  /\ results # <<>>
  /\ results' = Tail(results)
  /\ consumer' = IF consumer.stopped THEN consumer
                 ELSE [consumer EXCEPT !.finished = @ \cup {Head(results)}]
  /\ UNCHANGED <<sizes, schedule, reader, searcher>>

(* For a mutant: the threads are not told that the caller has stopped.     *)
ConsumeWithoutStopping ==
  /\ consumer.pc = "receive" /\ IsNextFinished
  /\ consumer' = [consumer EXCEPT !.consumed = @ + 1,
                                  !.stopped = TRUE, !.finished = {}]
  /\ UNCHANGED <<sizes, schedule, reader, searcher, results>>

(* One turn of the loop over what has finished, with the caller's answer.  *)
ConsumeResult ==
  /\ consumer.pc = "receive" /\ IsNextFinished
  /\ \/ /\ schedule' = [schedule EXCEPT !.stopped = TRUE]
        /\ consumer' = [consumer EXCEPT !.consumed = @ + 1,
                                        !.stopped = TRUE, !.finished = {}]
     \/ \E more_wanted \in Wanted :
          /\ schedule' = [schedule EXCEPT
               !.limit = consumer.consumed + 1 + window(more_wanted)]
          /\ consumer' = [consumer EXCEPT
               !.consumed = @ + 1, !.wanted = more_wanted,
               !.finished = @ \ {consumer.consumed}]
  /\ reader' = Woken(reader)
  /\ searcher' = Woken(searcher)
  /\ UNCHANGED <<sizes, results>>

(* The caller's closure panics: its thread drops the receiver and waits    *)
(* for the pools, which nothing tells to stop.                             *)
PanicConsume ==
  /\ "consume" \in Panics
  /\ consumer.pc = "receive" /\ IsNextFinished
  /\ consumer' = [consumer EXCEPT !.pc = "panicked", !.finished = {}]
  /\ results' = <<>>
  /\ UNCHANGED <<sizes, schedule, reader, searcher>>

Ended == {"done", "panicked"}

IsEveryThreadEnded ==
  /\ \A r \in Reader : reader[r].pc \in Ended
  /\ \A s \in Searcher : searcher[s].pc \in Ended

(* The channel is empty and closed, and the scope's threads have ended.    *)
Return ==
  /\ consumer.pc = "receive" /\ ~IsNextFinished
  /\ results = <<>> /\ IsEveryThreadEnded
  /\ consumer' = [consumer EXCEPT !.pc = "returned"]
  /\ UNCHANGED <<sizes, schedule, reader, searcher, results>>

-----------------------------------------------------------------------------
(* A condition variable may wake a thread that nobody notified.            *)
SpuriousWake ==
  \/ \E r \in Reader :
       /\ reader[r].pc = "wait"
       /\ reader' = [reader EXCEPT ![r] = Thread("ready")]
       /\ UNCHANGED <<sizes, schedule, searcher, results, consumer>>
  \/ \E s \in Searcher :
       /\ searcher[s].pc = "wait"
       /\ searcher' = [searcher EXCEPT ![s] = Thread("ready")]
       /\ UNCHANGED <<sizes, schedule, reader, results, consumer>>

ReadStep(r) == ClaimRead(r) \/ FinishRead(r) \/ PanicRead(r)
SearchStep(s) ==
  TakeRead(s) \/ FinishSearch(s) \/ PanicSearch(s) \/ SendResult(s)
CallerStep == ReceiveResult \/ ConsumeResult \/ PanicConsume \/ Return

Next ==
  \/ \E r \in Reader : ReadStep(r)
  \/ \E s \in Searcher : SearchStep(s)
  \/ CallerStep
  \/ SpuriousWake

(* A thread that can run does, and the caller's closures return or panic.  *)
(* Nothing makes a condition variable wake a thread unnotified.            *)
Fairness ==
  /\ \A r \in Reader : WF_vars(ReadStep(r))
  /\ \A s \in Searcher : WF_vars(SearchStep(s))
  /\ WF_vars(CallerStep)

Spec == Init /\ [][Next]_vars
FairSpec == Spec /\ Fairness

-----------------------------------------------------------------------------
(* Properties *)

(* Every thread, the schedule and the caller hold what their types allow.  *)
(* That unsearched_bytes, a u64, never goes below zero is ReadAheadBounded.*)
TypeOK ==
  /\ sizes \in [Item -> Size \cup {None}]
  /\ schedule \in Schedule
  /\ reader \in [Reader -> ReadThread]
  /\ searcher \in [Searcher -> SearchThread]
  /\ results \in Seq(Item)
  /\ consumer \in Consumer

IsPanicked ==
  \/ \E r \in Reader : reader[r].pc = "panicked"
  \/ \E s \in Searcher : searcher[s].pc = "panicked"
  \/ consumer.pc = "panicked"

Reading == {reader[r].position : r \in {t \in Reader : reader[t].pc = "read"}}
SearchersAt(pc) == {s \in Searcher : searcher[s].pc = pc}
Searching == {searcher[s].position : s \in SearchersAt("search")}
Sending == {searcher[s].position : s \in SearchersAt("send")}

(* Where an item is, from untried to consumed.                             *)
Places(i) ==
  {<<place, 0>> : place \in
     {p \in {"untried", "waiting", "read", "finished", "consumed"} :
        \/ p = "untried" /\ i \in Untried(schedule)
        \/ p = "waiting" /\ i \in schedule.waiting
        \/ p = "read" /\ i \in schedule.read
        \/ p = "finished" /\ i \in consumer.finished
        \/ p = "consumed" /\ i < consumer.consumed}} \cup
  {<<"reading", r>> : r \in {t \in Reader : reader[t].position = i}} \cup
  {<<"searching", s>> : s \in {t \in Searcher : searcher[t].position = i}} \cup
  {<<"result", k>> : k \in {j \in DOMAIN results : results[j] = i}}

(* An item is in one place: none is read, searched or consumed twice, and  *)
(* none is lost unless the caller stopped or a closure panicked.           *)
EachItemOnce ==
  \A i \in Item :
    /\ Cardinality(Places(i)) <= 1
    /\ Places(i) = {} => consumer.stopped \/ IsPanicked

(* Items that are in memory and not searched yet.                          *)
Outstanding == Reading \cup schedule.read \cup Searching

(* The sum of their sizes: byte b of item i is the pair <<i, b>>.          *)
BytesOf(items) == Cardinality(UNION {{i} \X (1 .. sizes[i]) : i \in items})

(* All of them but one have known sizes, which together keep to the bound. *)
(* unsearched_bytes counts those that fit it, each once: giving back what  *)
(* an item never took would take the u64 below zero.  The bytes of a       *)
(* search that panicked are never given back.                              *)
ReadAheadBounded ==
  /\ Outstanding # {} =>
       \E past \in Outstanding :
         LET others == Outstanding \ {past}
         IN  /\ \A i \in others : sizes[i] # None
             /\ BytesOf(others) <= ReadAheadBytes
  /\ LET held == BytesOf(Outstanding \ {schedule.past_bound})
     IN  /\ schedule.unsearched_bytes >= held
         /\ ~IsPanicked => schedule.unsearched_bytes = held

StartsReading(i) == i \notin Reading /\ i \in Reading'
StartsSearching(i) == i \notin Searching /\ i \in Searching'

(* A read starts within the window past the last result consumed, and only *)
(* when every earlier item has started or has no room.                     *)
ReadsStartInOrder ==
  [][\A i \in Item : StartsReading(i) =>
       /\ i < consumer.consumed + window(consumer.wanted)
       /\ \A j \in schedule.waiting \cup Untried(schedule) :
            j < i => ~CanReserve(schedule, j)]_vars

(* Once the caller has said to stop, no read and no search starts.         *)
NothingStartsAfterStop ==
  [][consumer.stopped =>
       \A i \in Item : ~StartsReading(i) /\ ~StartsSearching(i)]_vars

(* A thread waits only while it has nothing to do: whatever gave it        *)
(* something has notified it, or a thread at work has still to.            *)
NoLostWakeup ==
  /\ \A r \in Reader : reader[r].pc = "wait" =>
       /\ ~schedule.stopped /\ Claimable(schedule) = {}
       /\ is_every_read_started(schedule) => schedule.reading > 0
  /\ \A s \in Searcher : searcher[s].pc = "wait" =>
       ~schedule.stopped /\ schedule.read = {} /\ ~NothingMoreIsRead(schedule)

(* Never does everyone wait for everyone: when no thread can run and there *)
(* is no result for the caller, all threads have ended.                    *)
IsBlocked(threads) == \A t \in DOMAIN threads : threads[t].pc \in Ended \cup {"wait"}
NeverStuck ==
  /\ IsBlocked(reader) /\ IsBlocked(searcher)
  /\ consumer.pc = "receive" /\ results = <<>> /\ ~IsNextFinished
  => IsEveryThreadEnded

(* The scan ends, complete, stopped or by a panic of a read or a search,   *)
(* unless the caller's own closure panics: no comment promises an end then, *)
(* and a reader that waits for the window is never notified.               *)
ScanEnds == <>(consumer.pc \in {"returned", "panicked"})

(* The scan keeps what it promises its caller: in particular it returns    *)
(* before the last result only if it was stopped or a closure panicked.    *)
InOrder == INSTANCE InOrderScan WITH
  consumed <- consumer.consumed,
  stopped  <- consumer.stopped,
  panicked <- IsPanicked,
  returned <- consumer.pc = "returned"
ImplementsInOrder == InOrder!Spec
=============================================================================
