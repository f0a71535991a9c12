-------------------------- MODULE OrderedScanProofs --------------------------
(***************************************************************************)
(* Proofs about OrderedScan, for every number of items and threads, every  *)
(* size and every bound: its type invariant, that no wakeup is lost and    *)
(* the scan is never stuck, that it implements InOrderScan, and what a     *)
(* step may never do.                                                      *)
(*                                                                         *)
(* The argument follows an item.  It is untried, waits for room, or has    *)
(* started, never two of these (StartedApart), and until the scan is cut   *)
(* short it is somewhere (NoneIsLost).  Were all threads to wait, nothing  *)
(* would be outstanding, the one place past the bound would be free        *)
(* (PlaceIsHeld), so every item of the window would have started, the next *)
(* one for the caller among them: it could only be with the caller.        *)
(*                                                                         *)
(* A step never starts anything once the caller has said to stop, nor a    *)
(* read out of order, nor has it an item in two places, nor does it hold   *)
(* more than the read-ahead bound.  Only claim_read sets a reader to work, *)
(* and only take_read a searcher; both look at `stopped` in the hold of    *)
(* the mutex in which they claim.  A step moves at most one item, out of   *)
(* the one place where it was (OnceInv).  So the bytes that a search gives *)
(* back are those that the claim of its item took, and no other thread     *)
(* gives them back (BytesInv).                                             *)
(***************************************************************************)
EXTENDS OrderedScan, FiniteSetTheorems, TLAPS

(* Who has an item that has started.                                       *)
ReaderHas(i) ==
  \E r \in Reader : reader[r].pc = "read" /\ reader[r].position = i
SearcherHas(i) ==
  \E s \in Searcher : searcher[s].pc = "search" /\ searcher[s].position = i
SenderHas(i) ==
  \E s \in Searcher : searcher[s].pc = "send" /\ searcher[s].position = i
IsResult(i) == \E k \in 1 .. Len(results) : results[k] = i

Held(i) == ReaderHas(i) \/ i \in schedule.read \/ SearcherHas(i)
Started(i) ==
  \/ Held(i) \/ SenderHas(i) \/ IsResult(i)
  \/ i \in consumer.finished \/ i < consumer.consumed

(* A thread at work has an item to work on.                                *)
ThreadsHoldItems ==
  /\ \A r \in Reader : reader[r].pc = "read" => reader[r].position \in Item
  /\ \A s \in Searcher :
       searcher[s].pc \in {"search", "send"} => searcher[s].position \in Item

(* Why `stopped` is set, and that it is when it has to be.                 *)
StopIsKnown ==
  /\ consumer.stopped => schedule.stopped /\ consumer.finished = {}
  /\ schedule.stopped => consumer.stopped \/ IsPanicked
  /\ \A r \in Reader : reader[r].pc = "panicked" => schedule.stopped
  /\ \A s \in Searcher : searcher[s].pc = "panicked" => schedule.stopped

(* The window holds the next result, until the caller stops.               *)
LimitIsAhead == ~consumer.stopped => schedule.limit > consumer.consumed

(* `reading` counts the readers at work, and those that panicked there.    *)
Claimers == {r \in Reader : reader[r].pc \in {"read", "panicked"}}
ReadingIsCounted == schedule.reading = Cardinality(Claimers)

(* An item that has started is neither untried nor waiting.                *)
StartedApart ==
  /\ \A i \in schedule.waiting : i < schedule.next_read
  /\ \A i \in Item : Started(i) =>
       i < schedule.next_read /\ i \notin schedule.waiting

(* Until the scan is cut short, every item is somewhere.                   *)
NoneIsLost ==
  ~schedule.stopped /\ consumer.pc # "panicked" =>
    \A i \in Item :
      Started(i) \/ i \in schedule.waiting \/ i >= schedule.next_read

(* The place past the bound is taken by an item that is outstanding.       *)
PlaceIsHeld ==
  schedule.past_bound # None /\ ~schedule.stopped => Held(schedule.past_bound)

(* A thread ends when there is nothing left for it.                        *)
EndedForAReason ==
  /\ \A r \in Reader : reader[r].pc = "done" =>
       schedule.stopped \/ is_every_read_started(schedule)
  /\ \A s \in Searcher : searcher[s].pc = "done" =>
       \/ schedule.stopped \/ consumer.pc = "panicked"
       \/ schedule.read = {} /\ NothingMoreIsRead(schedule)

ReturnedIsOver == consumer.pc = "returned" => IsEveryThreadEnded

ScanInv ==
  /\ TypeOK /\ ThreadsHoldItems
  /\ StopIsKnown /\ LimitIsAhead /\ ReadingIsCounted
  /\ StartedApart /\ NoneIsLost /\ PlaceIsHeld
  /\ EndedForAReason /\ NoLostWakeup /\ ReturnedIsOver

-----------------------------------------------------------------------------
(* Threads and counts *)

(* A thread that waits, or is ready, has no item.                          *)
LEMMA ThreadType ==
  /\ \A pc \in {"ready", "wait", "done", "panicked"} :
       Thread(pc) \in ReadThread /\ Thread(pc) \in SearchThread
  /\ \A i \in Item : [pc |-> "read", position |-> i] \in ReadThread
  /\ \A i \in Item : [pc |-> "search", position |-> i] \in SearchThread
  BY DEF Thread, ReadThread, SearchThread

(* notify_all moves the threads that wait, and no other.                   *)
LEMMA WokenThreads ==
  ASSUME NEW threads
  PROVE  /\ DOMAIN Woken(threads) = DOMAIN threads
         /\ \A t \in DOMAIN threads :
              Woken(threads)[t] = IF threads[t].pc = "wait" THEN Thread("ready")
                                                            ELSE threads[t]
  BY DEF Woken

LEMMA WokenReaders ==
  ASSUME NEW threads \in [Reader -> ReadThread]
  PROVE  Woken(threads) \in [Reader -> ReadThread]
  BY ThreadType DEF Woken

LEMMA WokenSearchers ==
  ASSUME NEW threads \in [Searcher -> SearchThread]
  PROVE  Woken(threads) \in [Searcher -> SearchThread]
  BY ThreadType DEF Woken

(* No reader at work, none counted: and one is, once one claims.           *)
LEMMA CountedReaders ==
  ASSUME TypeOK, ReadingIsCounted
  PROVE  /\ IsFiniteSet(Claimers)
         /\ schedule.reading = 0 => Claimers = {}
         /\ schedule.reading > 0 => Claimers # {}
  <1>1. IsFiniteSet(Claimers) BY PoolAssumption, FS_Subset DEF Claimers
  <1>2. Cardinality(Claimers) = 0 <=> Claimers = {} BY <1>1, FS_EmptySet
  <1> QED BY <1>1, <1>2 DEF ReadingIsCounted

(* Steps that leave the readers at work where they are leave the count.    *)
LEMMA SameClaimers ==
  ASSUME ReadingIsCounted,
         \A r \in Reader : reader'[r].pc \in {"read", "panicked"}
                             <=> reader[r].pc \in {"read", "panicked"},
         schedule'.reading = schedule.reading
  PROVE  ReadingIsCounted'
  <1>1. Claimers' = Claimers BY DEF Claimers
  <1> QED BY <1>1 DEF ReadingIsCounted

-----------------------------------------------------------------------------
(* The initial states *)

LEMMA InitIsGood == Init => ScanInv
  <1> SUFFICES ASSUME Init PROVE ScanInv OBVIOUS
  <1> USE ItemsAssumption, PoolAssumption, DataAssumption
  <1>1. PICK first_wanted \in Wanted :
          /\ sizes \in [Item -> Size \cup {None}]
          /\ schedule = [next_read |-> 0, waiting |-> {},
                   limit |-> window(first_wanted), stopped |-> FALSE,
                   reading |-> 0, unsearched_bytes |-> 0,
                   past_bound |-> None, read |-> {}]
          /\ reader = [r \in Reader |-> Thread("ready")]
          /\ searcher = [s \in Searcher |-> Thread("ready")]
          /\ results = <<>>
          /\ consumer = [pc |-> "receive", finished |-> {}, consumed |-> 0,
                         stopped |-> FALSE, wanted |-> first_wanted]
    BY DEF Init
  <1>2. /\ \A r \in Reader : reader[r] = Thread("ready")
        /\ \A s \in Searcher : searcher[s] = Thread("ready")
    BY <1>1
  <1>3. Thread("ready").pc = "ready" BY DEF Thread
  <1>4. window(first_wanted) \in Nat /\ window(first_wanted) > 0
    BY DEF window, Larger
  <1>5. TypeOK
    <2>1. schedule \in Schedule BY <1>1, <1>4 DEF Schedule
    <2>2. consumer \in Consumer BY <1>1 DEF Consumer
    <2> QED BY <1>1, <2>1, <2>2, ThreadType DEF TypeOK
  <1>6. Claimers = {} BY <1>2, <1>3 DEF Claimers
  <1>7. ReadingIsCounted BY <1>1, <1>6, FS_EmptySet DEF ReadingIsCounted
  <1>8. \A i \in Item : ~Started(i)
    BY <1>1, <1>2, <1>3
    DEF Item, Started, Held, ReaderHas, SearcherHas, SenderHas, IsResult
  <1>9. ThreadsHoldItems /\ EndedForAReason /\ NoLostWakeup
    BY <1>2, <1>3 DEF ThreadsHoldItems, EndedForAReason, NoLostWakeup
  <1>10. StopIsKnown BY <1>1, <1>2, <1>3 DEF StopIsKnown
  <1>11. LimitIsAhead BY <1>1, <1>4 DEF LimitIsAhead
  <1>12. StartedApart BY <1>1, <1>8 DEF StartedApart
  <1>13. NoneIsLost BY <1>1 DEF NoneIsLost, Item
  <1>14. PlaceIsHeld /\ ReturnedIsOver
    BY <1>1 DEF PlaceIsHeld, ReturnedIsOver
  <1> QED BY <1>5, <1>7, <1>9, <1>10, <1>11, <1>12, <1>13, <1>14 DEF ScanInv

-----------------------------------------------------------------------------
(* Claims *)

(* What claim_next changes, when it claims `position`.                     *)
LEMMA ClaimNext ==
  ASSUME TypeOK, NEW position \in Claimable(schedule),
         NEW s, s = claim_next(schedule, position)
  PROVE  /\ position \in Item
         /\ position \in schedule.waiting \/ position >= schedule.next_read
         /\ s \in Schedule
         /\ s.limit = schedule.limit /\ s.stopped = schedule.stopped
         /\ s.read = schedule.read
         /\ s.reading = schedule.reading + 1
         /\ s.past_bound = schedule.past_bound
            \/ (schedule.past_bound = None /\ s.past_bound = position)
         /\ s.next_read >= schedule.next_read /\ s.next_read > position
         /\ \A i \in Item :
              (i \in s.waiting \/ i >= s.next_read) <=>
              (i # position /\ (i \in schedule.waiting \/ i >= schedule.next_read))
         /\ \A i \in s.waiting : i \in schedule.waiting \/ i < s.next_read
         /\ position \notin s.waiting
  <1> USE ItemsAssumption, DataAssumption
  <1>1. /\ schedule \in Schedule /\ sizes \in [Item -> Size \cup {None}]
    BY DEF TypeOK
  <1>2. /\ schedule.next_read \in 0 .. N /\ schedule.waiting \subseteq Item
        /\ schedule.reading \in Nat /\ schedule.unsearched_bytes \in Int
        /\ schedule.limit \in Nat
    BY <1>1 DEF Schedule
  <1>3. /\ position \in Item
        /\ position \in schedule.waiting \/ position >= schedule.next_read
        /\ CanReserve(schedule, position)
    BY <1>2 DEF Claimable, Untried, Item
  <1> DEFINE t == reserve(schedule, position)
             u == Tried(t, position + 1)
  <1>4. /\ t \in Schedule
        /\ t.next_read = schedule.next_read /\ t.waiting = schedule.waiting
        /\ t.limit = schedule.limit /\ t.stopped = schedule.stopped
        /\ t.read = schedule.read /\ t.reading = schedule.reading + 1
        /\ t.past_bound = schedule.past_bound
           \/ (schedule.past_bound = None /\ t.past_bound = position)
    <2>1. CASE Fits(schedule, position)
      <3>1. sizes[position] \in Nat BY <1>1, <1>3, <2>1 DEF Fits
      <3>2. t = [schedule EXCEPT !.reading = @ + 1,
                                 !.unsearched_bytes = @ + sizes[position]]
        BY <2>1 DEF reserve
      <3> DEFINE bytes == schedule.unsearched_bytes + sizes[position]
                 count == schedule.reading + 1
      <3>3. bytes \in Int /\ count \in Nat BY <1>2, <3>1
      <3>4. t = [schedule EXCEPT !.reading = count, !.unsearched_bytes = bytes]
        BY <3>2
      <3> HIDE DEF bytes, count
      <3>5. /\ t \in Schedule
            /\ t.next_read = schedule.next_read /\ t.waiting = schedule.waiting
            /\ t.limit = schedule.limit /\ t.stopped = schedule.stopped
            /\ t.read = schedule.read /\ t.reading = count
            /\ t.past_bound = schedule.past_bound
        BY <1>1, <3>3, <3>4 DEF Schedule
      <3> QED BY <3>5 DEF count
    <2>2. CASE ~Fits(schedule, position)
      <3>1. t = [schedule EXCEPT !.reading = @ + 1, !.past_bound = position]
        BY <2>2 DEF reserve
      <3>2. schedule.past_bound = None BY <1>3, <2>2 DEF CanReserve
      <3> DEFINE count == schedule.reading + 1
      <3>3. count \in Nat BY <1>2
      <3>4. t = [schedule EXCEPT !.reading = count, !.past_bound = position]
        BY <3>1
      <3> HIDE DEF count
      <3>5. /\ t \in Schedule
            /\ t.next_read = schedule.next_read /\ t.waiting = schedule.waiting
            /\ t.limit = schedule.limit /\ t.stopped = schedule.stopped
            /\ t.read = schedule.read /\ t.reading = count
            /\ t.past_bound = position
        BY <1>1, <1>3, <3>3, <3>4 DEF Schedule
      <3> QED BY <3>2, <3>5 DEF count
    <2> QED BY <2>1, <2>2
  <1>5. u = [t EXCEPT !.waiting = @ \cup {i \in Untried(t) : i < position + 1},
                      !.next_read = Larger(@, position + 1)]
    BY DEF Tried
  <1>6. s = [u EXCEPT !.waiting = @ \ {position}]
    BY DEF claim_next
  <1>7. Untried(t) = schedule.next_read .. N - 1 BY <1>4 DEF Untried
  <1>8. position + 1 \in 0 .. N BY <1>3 DEF Item
  <1>9. Larger(schedule.next_read, position + 1) \in 0 .. N
    BY <1>2, <1>8 DEF Larger
  <1>10. /\ u \in Schedule
         /\ u.next_read = Larger(schedule.next_read, position + 1)
         /\ u.waiting = schedule.waiting \cup
              {i \in schedule.next_read .. N - 1 : i < position + 1}
         /\ u.limit = t.limit /\ u.stopped = t.stopped /\ u.read = t.read
         /\ u.reading = t.reading /\ u.past_bound = t.past_bound
    <2> DEFINE next == Larger(schedule.next_read, position + 1)
               waits == schedule.waiting \cup
                          {i \in schedule.next_read .. N - 1 : i < position + 1}
    <2>1. waits \in SUBSET Item BY <1>2 DEF Item
    <2>2. u = [t EXCEPT !.waiting = waits, !.next_read = next]
      BY <1>4, <1>5, <1>7
    <2>3. next \in 0 .. N BY <1>9
    <2> HIDE DEF next, waits, t
    <2>4. /\ u \in Schedule /\ u.next_read = next /\ u.waiting = waits
          /\ u.limit = t.limit /\ u.stopped = t.stopped /\ u.read = t.read
          /\ u.reading = t.reading /\ u.past_bound = t.past_bound
      BY <1>4, <2>1, <2>2, <2>3 DEF Schedule
    <2> QED BY <2>4 DEF next, waits
  <1>11. /\ s \in Schedule
         /\ s.next_read = u.next_read
         /\ s.waiting = u.waiting \ {position}
         /\ s.limit = u.limit /\ s.stopped = u.stopped /\ s.read = u.read
         /\ s.reading = u.reading /\ s.past_bound = u.past_bound
    BY <1>6, <1>10 DEF Schedule
  <1>12. s.next_read >= schedule.next_read /\ s.next_read > position
    BY <1>2, <1>3, <1>10, <1>11 DEF Larger, Item
  <1>13. \A i \in Item :
           (i \in s.waiting \/ i >= s.next_read) <=>
           (i # position /\ (i \in schedule.waiting \/ i >= schedule.next_read))
    BY <1>2, <1>3, <1>10, <1>11 DEF Larger, Item
  <1>14. \A i \in s.waiting : i \in schedule.waiting \/ i < s.next_read
    BY <1>2, <1>3, <1>10, <1>11 DEF Larger, Item
  <1> QED BY <1>3, <1>4, <1>10, <1>11, <1>12, <1>13, <1>14

(* What claim_none changes: tried items wait, and what may be claimed is   *)
(* what might have been.                                                   *)
LEMMA ClaimNone ==
  ASSUME TypeOK, NEW s, s = claim_none(schedule)
  PROVE  /\ s \in Schedule
         /\ s.limit = schedule.limit /\ s.stopped = schedule.stopped
         /\ s.read = schedule.read /\ s.reading = schedule.reading
         /\ s.past_bound = schedule.past_bound
         /\ s.next_read >= schedule.next_read
         /\ \A i \in Item :
              (i \in s.waiting \/ i >= s.next_read) <=>
              (i \in schedule.waiting \/ i >= schedule.next_read)
         /\ \A i \in s.waiting : i \in schedule.waiting \/ i < s.next_read
         /\ \A i \in Item : CanReserve(s, i) <=> CanReserve(schedule, i)
  <1> USE ItemsAssumption, DataAssumption
  <1>1. /\ schedule \in Schedule
        /\ schedule.next_read \in 0 .. N /\ schedule.waiting \subseteq Item
        /\ schedule.limit \in Nat
    BY DEF TypeOK, Schedule
  <1> DEFINE end == Smaller(N, schedule.limit)
  <1>2. end \in 0 .. N BY <1>1 DEF Smaller
  <1>3. s = [schedule EXCEPT
               !.waiting = @ \cup {i \in Untried(schedule) : i < end},
               !.next_read = Larger(@, end)]
    BY DEF claim_none, Tried
  <1> HIDE DEF end
  <1>4. /\ s.next_read = Larger(schedule.next_read, end)
        /\ s.waiting = schedule.waiting \cup
             {i \in schedule.next_read .. N - 1 : i < end}
        /\ s.limit = schedule.limit /\ s.stopped = schedule.stopped
        /\ s.read = schedule.read /\ s.reading = schedule.reading
        /\ s.past_bound = schedule.past_bound
        /\ s.unsearched_bytes = schedule.unsearched_bytes
    BY <1>1, <1>3 DEF Schedule, Untried
  <1>5. Larger(schedule.next_read, end) \in 0 .. N BY <1>1, <1>2 DEF Larger
  <1>6. s \in Schedule
    <2> DEFINE next == Larger(schedule.next_read, end)
               waits == schedule.waiting \cup {i \in Untried(schedule) : i < end}
    <2>1. s = [schedule EXCEPT !.waiting = waits, !.next_read = next] BY <1>3
    <2>2. next \in 0 .. N BY <1>5
    <2>3. waits \in SUBSET Item BY <1>1 DEF Untried, Item
    <2> HIDE DEF next, waits
    <2> QED BY <1>1, <2>1, <2>2, <2>3 DEF Schedule
  <1>7. s.next_read >= schedule.next_read BY <1>1, <1>2, <1>4 DEF Larger
  <1>8. \A i \in Item : (i \in s.waiting \/ i >= s.next_read) <=>
                        (i \in schedule.waiting \/ i >= schedule.next_read)
    BY <1>1, <1>2, <1>4 DEF Larger, Item
  <1>9. \A i \in s.waiting : i \in schedule.waiting \/ i < s.next_read
    BY <1>1, <1>2, <1>4 DEF Larger, Item
  <1>10. \A i \in Item : CanReserve(s, i) <=> CanReserve(schedule, i)
    BY <1>4 DEF CanReserve, Fits
  <1> QED BY <1>4, <1>6, <1>7, <1>8, <1>9, <1>10

-----------------------------------------------------------------------------
(* The read pool's steps *)

(* A reader that ends, or wakes on its own.                                *)
LEMMA IdleReadInv ==
  ASSUME ScanInv, NEW r \in Reader, NEW pc \in {"done", "ready"},
         reader[r].pc \in {"ready", "wait"},
         pc = "done" => schedule.stopped \/ is_every_read_started(schedule),
         reader' = [reader EXCEPT ![r] = Thread(pc)],
         UNCHANGED <<schedule, sizes, searcher, results, consumer>>
  PROVE  ScanInv'
  <1>1. TypeOK /\ reader \in [Reader -> ReadThread] BY DEF ScanInv, TypeOK
  <1>2. /\ reader'[r].pc = pc
        /\ \A t \in Reader : t # r => reader'[t] = reader[t]
    BY <1>1 DEF Thread
  <1>3. TypeOK' BY <1>1, ThreadType DEF TypeOK
  <1>4. \A i : /\ ReaderHas(i)' <=> ReaderHas(i)
               /\ Held(i)' <=> Held(i)
               /\ Started(i)' <=> Started(i)
    BY <1>2 DEF ReaderHas, Held, SearcherHas, SenderHas, IsResult, Started
  <1>5. IsPanicked' <=> IsPanicked BY <1>2 DEF IsPanicked
  <1>6. ThreadsHoldItems' BY <1>2 DEF ScanInv, ThreadsHoldItems
  <1>7. StopIsKnown' BY <1>2, <1>5 DEF ScanInv, StopIsKnown
  <1>8. LimitIsAhead' BY DEF ScanInv, LimitIsAhead
  <1>9. ReadingIsCounted' BY <1>2, SameClaimers DEF ScanInv
  <1>10. StartedApart' /\ NoneIsLost' /\ PlaceIsHeld'
    BY <1>4 DEF ScanInv, StartedApart, NoneIsLost, PlaceIsHeld
  <1>11. EndedForAReason'
    BY <1>2 DEF ScanInv, EndedForAReason, is_every_read_started,
                NothingMoreIsRead
  <1>12. NoLostWakeup'
    BY <1>2 DEF ScanInv, NoLostWakeup, is_every_read_started,
                NothingMoreIsRead, Claimable, CanReserve, Fits, Untried
  <1>13. ReturnedIsOver'
    BY <1>2 DEF ScanInv, ReturnedIsOver, IsEveryThreadEnded, Ended
  <1> QED BY <1>3, <1>6, <1>7, <1>8, <1>9, <1>10, <1>11, <1>12, <1>13
          DEF ScanInv

(* A reader that claims an item.  No reader waits, since there was an item *)
(* to claim.                                                               *)
LEMMA ClaimItemInv ==
  ASSUME ScanInv, NEW r \in Reader,
         reader[r].pc = "ready",
         ~schedule.stopped, ~is_every_read_started(schedule),
         NEW position \in Claimable(schedule),
         schedule' = claim_next(schedule, position),
         reader' = [reader EXCEPT ![r] = [pc |-> "read", position |-> position]],
         UNCHANGED <<sizes, searcher, results, consumer>>
  PROVE  ScanInv'
  <1> USE ItemsAssumption, DataAssumption
  <1>1. TypeOK /\ reader \in [Reader -> ReadThread] BY DEF ScanInv, TypeOK
  <1>2. /\ position \in Item
        /\ position \in schedule.waiting \/ position >= schedule.next_read
        /\ schedule' \in Schedule
        /\ schedule'.limit = schedule.limit
        /\ schedule'.stopped = schedule.stopped
        /\ schedule'.read = schedule.read
        /\ schedule'.reading = schedule.reading + 1
        /\ schedule'.past_bound = schedule.past_bound
           \/ (schedule.past_bound = None /\ schedule'.past_bound = position)
        /\ schedule'.next_read >= schedule.next_read
        /\ schedule'.next_read > position
        /\ \A i \in Item :
             (i \in schedule'.waiting \/ i >= schedule'.next_read) <=>
             (i # position /\ (i \in schedule.waiting \/ i >= schedule.next_read))
        /\ \A i \in schedule'.waiting :
             i \in schedule.waiting \/ i < schedule'.next_read
        /\ position \notin schedule'.waiting
    BY <1>1, ClaimNext
  <1>3. /\ reader'[r].pc = "read" /\ reader'[r].position = position
        /\ \A t \in Reader : t # r => reader'[t] = reader[t]
    BY <1>1
  <1>4. /\ schedule.next_read \in 0 .. N /\ schedule'.next_read \in 0 .. N
        /\ schedule.reading \in Nat
    BY <1>1, <1>2 DEF TypeOK, Schedule
  <1>5. TypeOK' BY <1>1, <1>2, ThreadType DEF TypeOK
  <1>6. \A i : /\ ReaderHas(i)' <=> ReaderHas(i) \/ i = position
               /\ Held(i)' <=> Held(i) \/ i = position
               /\ Started(i)' <=> Started(i) \/ i = position
    BY <1>2, <1>3 DEF ReaderHas, Held, SearcherHas, SenderHas, IsResult, Started
  <1>7. IsPanicked' <=> IsPanicked BY <1>3 DEF IsPanicked
  <1>8. ThreadsHoldItems' BY <1>2, <1>3 DEF ScanInv, ThreadsHoldItems
  <1>9. StopIsKnown' BY <1>2, <1>3, <1>7 DEF ScanInv, StopIsKnown
  <1>10. LimitIsAhead' BY <1>2 DEF ScanInv, LimitIsAhead
  <1>11. ReadingIsCounted'
    <2>1. Claimers' = Claimers \cup {r} BY <1>3 DEF Claimers
    <2>2. r \notin Claimers BY DEF Claimers
    <2>3. IsFiniteSet(Claimers) /\ schedule.reading = Cardinality(Claimers)
      BY <1>1, CountedReaders DEF ScanInv, ReadingIsCounted
    <2>4. Cardinality(Claimers \cup {r}) = Cardinality(Claimers) + 1
      BY <2>2, <2>3, FS_AddElement
    <2> QED BY <1>2, <2>1, <2>3, <2>4 DEF ReadingIsCounted
  <1>12. StartedApart'
    <2>1. schedule'.waiting \subseteq Item BY <1>2 DEF Schedule
    <2>2. \A i \in schedule.waiting : i < schedule.next_read
      BY DEF ScanInv, StartedApart
    <2>3. ASSUME NEW i \in schedule'.waiting PROVE i < schedule'.next_read
      <3>1. i \in Int /\ schedule.next_read \in Int /\ schedule'.next_read \in Int
        BY <1>4, <2>1 DEF Item
      <3> QED BY <1>2, <2>2, <3>1
    <2>4. ASSUME NEW i \in Item, Started(i)
          PROVE  i < schedule'.next_read /\ i \notin schedule'.waiting
      <3>1. i < schedule.next_read /\ i \notin schedule.waiting
        BY <2>4 DEF ScanInv, StartedApart
      <3>2. i \in Int /\ schedule.next_read \in Int /\ schedule'.next_read \in Int
        BY <1>4 DEF Item
      <3>3. ~(i \in schedule'.waiting \/ i >= schedule'.next_read)
        BY <1>2, <3>1, <3>2
      <3> QED BY <3>2, <3>3
    <2> QED BY <1>2, <1>6, <2>3, <2>4 DEF StartedApart
  <1>13. NoneIsLost'
    BY <1>2, <1>6 DEF ScanInv, NoneIsLost
  <1>14. PlaceIsHeld'
    BY <1>2, <1>6 DEF ScanInv, PlaceIsHeld
  <1>15. EndedForAReason'
    BY <1>2, <1>3 DEF ScanInv, EndedForAReason, NothingMoreIsRead
  <1>16. NoLostWakeup'
    <2>1. \A t \in Reader : reader[t].pc # "wait"
      BY DEF ScanInv, NoLostWakeup
    <2>2. schedule'.reading # 0 BY <1>2, <1>4
    <2> QED BY <1>2, <1>3, <2>1, <2>2
            DEF ScanInv, NoLostWakeup, NothingMoreIsRead
  <1>17. ReturnedIsOver'
    BY <1>3 DEF ScanInv, ReturnedIsOver, IsEveryThreadEnded, Ended
  <1> QED BY <1>5, <1>8, <1>9, <1>10, <1>11, <1>12, <1>13, <1>14, <1>15,
             <1>16, <1>17 DEF ScanInv

(* A reader that finds no item it may start, and waits.                    *)
LEMMA WaitReadInv ==
  ASSUME ScanInv, NEW r \in Reader,
         reader[r].pc = "ready",
         ~schedule.stopped, ~is_every_read_started(schedule),
         Claimable(schedule) = {},
         schedule' = claim_none(schedule),
         reader' = [reader EXCEPT ![r] = Thread("wait")],
         UNCHANGED <<sizes, searcher, results, consumer>>
  PROVE  ScanInv'
  <1> USE ItemsAssumption, DataAssumption
  <1>1. TypeOK /\ reader \in [Reader -> ReadThread] BY DEF ScanInv, TypeOK
  <1> DEFINE s == claim_none(schedule)
  <1>2. /\ s \in Schedule
        /\ s.limit = schedule.limit /\ s.stopped = schedule.stopped
        /\ s.read = schedule.read /\ s.reading = schedule.reading
        /\ s.past_bound = schedule.past_bound
        /\ s.next_read >= schedule.next_read
        /\ \A i \in Item :
             (i \in s.waiting \/ i >= s.next_read) <=>
             (i \in schedule.waiting \/ i >= schedule.next_read)
        /\ \A i \in s.waiting : i \in schedule.waiting \/ i < s.next_read
        /\ \A i \in Item : CanReserve(s, i) <=> CanReserve(schedule, i)
    BY <1>1, ClaimNone
  <1> HIDE DEF s
  <1>3. schedule' = s BY DEF s
  <1>4. /\ reader'[r].pc = "wait"
        /\ \A t \in Reader : t # r => reader'[t] = reader[t]
    BY <1>1 DEF Thread
  <1>5. /\ schedule.next_read \in 0 .. N /\ s.next_read \in 0 .. N
        /\ schedule.waiting \subseteq Item /\ s.waiting \subseteq Item
    BY <1>1, <1>2 DEF TypeOK, Schedule
  <1>6. TypeOK' BY <1>1, <1>2, <1>3, ThreadType DEF TypeOK
  <1>7. \A i : /\ Held(i)' <=> Held(i)
               /\ Started(i)' <=> Started(i)
    BY <1>2, <1>3, <1>4
    DEF ReaderHas, Held, SearcherHas, SenderHas, IsResult, Started
  <1>8. IsPanicked' <=> IsPanicked BY <1>4 DEF IsPanicked
  <1>9. ThreadsHoldItems' BY <1>4 DEF ScanInv, ThreadsHoldItems
  <1>10. StopIsKnown' BY <1>2, <1>3, <1>4, <1>8 DEF ScanInv, StopIsKnown
  <1>11. LimitIsAhead' BY <1>2, <1>3 DEF ScanInv, LimitIsAhead
  <1>12. ReadingIsCounted' BY <1>2, <1>3, <1>4, SameClaimers DEF ScanInv
  <1>13. StartedApart'
    <2>1. \A i \in s.waiting : i < s.next_read
      BY <1>2, <1>5 DEF ScanInv, StartedApart, Item
    <2>2. ASSUME NEW i \in Item, Started(i)
          PROVE  i < s.next_read /\ i \notin s.waiting
      BY <1>2, <1>5, <2>2 DEF ScanInv, StartedApart, Item
    <2> QED BY <1>3, <1>7, <2>1, <2>2 DEF StartedApart
  <1>14. NoneIsLost' BY <1>2, <1>3, <1>7 DEF ScanInv, NoneIsLost
  <1>15. PlaceIsHeld' BY <1>2, <1>3, <1>7 DEF ScanInv, PlaceIsHeld
  <1>16. ~is_every_read_started(s)
    <2>1. PICK i \in Item : i \in schedule.waiting \/ i >= schedule.next_read
      <3>1. CASE schedule.next_read < N
        <4>1. schedule.next_read \in Item BY <1>5, <3>1 DEF Item
        <4> QED BY <1>5, <4>1
      <3>2. CASE schedule.waiting # {} BY <1>5, <3>2
      <3> QED BY <1>5, <3>1, <3>2 DEF is_every_read_started
    <2>2. i \in s.waiting \/ i >= s.next_read BY <1>2, <2>1
    <2> QED BY <1>5, <2>2 DEF is_every_read_started, Item
  <1>17. EndedForAReason'
    BY <1>2, <1>3, <1>4, <1>16 DEF ScanInv, EndedForAReason, NothingMoreIsRead
  <1>18. Claimable(s) = {}
    <2>1. ASSUME NEW i \in Claimable(s) PROVE FALSE
      <3>1. /\ i \in Item /\ i < s.limit /\ CanReserve(s, i)
            /\ i \in s.waiting \/ i >= s.next_read
        BY <1>5, <2>1 DEF Claimable, Untried, Item
      <3>2. i \in Claimable(schedule)
        BY <1>2, <1>5, <3>1 DEF Claimable, Untried, Item
      <3> QED BY <3>2
    <2> QED BY <2>1
  <1>19. Claimable(schedule)' = Claimable(s)
    BY <1>3 DEF Claimable, CanReserve, Fits, Untried
  <1>20. NoLostWakeup'
    BY <1>2, <1>3, <1>4, <1>16, <1>18, <1>19
    DEF ScanInv, NoLostWakeup, NothingMoreIsRead
  <1>21. ReturnedIsOver'
    BY <1>4 DEF ScanInv, ReturnedIsOver, IsEveryThreadEnded, Ended
  <1> QED BY <1>6, <1>9, <1>10, <1>11, <1>12, <1>13, <1>14, <1>15, <1>17,
             <1>20, <1>21 DEF ScanInv

(* claim_read                                                              *)
LEMMA ClaimReadInv ==
  ASSUME ScanInv, NEW r \in Reader, ClaimRead(r)
  PROVE  ScanInv'
  <1>1. CASE schedule.stopped \/ is_every_read_started(schedule)
    BY <1>1, IdleReadInv DEF ClaimRead
  <1>2. CASE ~schedule.stopped /\ ~is_every_read_started(schedule)
    BY <1>2, ClaimItemInv, WaitReadInv DEF ClaimRead
  <1> QED BY <1>1, <1>2

(* The condition variable's waiters all leave it: none is left to lose.    *)
LEMMA AllWoken ==
  ASSUME NEW f, NEW g, reader' = Woken(f), searcher' = Woken(g),
         DOMAIN f = Reader, DOMAIN g = Searcher
  PROVE  /\ \A t \in Reader : reader'[t].pc # "wait"
         /\ \A t \in Searcher : searcher'[t].pc # "wait"
         /\ NoLostWakeup'
  <1>1. Thread("ready").pc = "ready" BY DEF Thread
  <1>2. \A t \in Reader : reader'[t].pc # "wait" BY <1>1, WokenThreads
  <1>3. \A t \in Searcher : searcher'[t].pc # "wait" BY <1>1, WokenThreads
  <1> QED BY <1>2, <1>3 DEF NoLostWakeup

(* A read that is kept, for a searcher to take.                            *)
LEMMA FinishReadInv ==
  ASSUME ScanInv, NEW r \in Reader, FinishRead(r)
  PROVE  ScanInv'
  <1> USE ItemsAssumption, DataAssumption
  <1>1. /\ TypeOK /\ reader \in [Reader -> ReadThread]
        /\ searcher \in [Searcher -> SearchThread] /\ schedule \in Schedule
    BY DEF ScanInv, TypeOK
  <1> DEFINE item == reader[r].position
             readers == [reader EXCEPT ![r] = Thread("ready")]
  <1>2. /\ reader[r].pc = "read" /\ item \in Item
        /\ schedule' = [schedule EXCEPT !.reading = @ - 1,
                                        !.read = @ \cup {item}]
        /\ reader' = Woken(readers) /\ searcher' = Woken(searcher)
        /\ UNCHANGED <<sizes, results, consumer>>
    BY DEF FinishRead, ScanInv, ThreadsHoldItems
  <1>3. Thread("ready").pc = "ready" BY DEF Thread
  <1>4. /\ reader'[r].pc = "ready"
        /\ \A t \in Reader : t # r =>
             reader'[t] = IF reader[t].pc = "wait" THEN Thread("ready")
                                                   ELSE reader[t]
        /\ \A t \in Searcher :
             searcher'[t] = IF searcher[t].pc = "wait" THEN Thread("ready")
                                                       ELSE searcher[t]
    BY <1>1, <1>2, <1>3, WokenThreads, ZenonT(60)
  <1>5. readers \in [Reader -> ReadThread] BY <1>1, ThreadType
  <1> HIDE DEF readers
  <1>6. IsFiniteSet(Claimers) /\ schedule.reading = Cardinality(Claimers)
    BY <1>1, CountedReaders DEF ScanInv, ReadingIsCounted
  <1>7. /\ Cardinality(Claimers \ {r}) = schedule.reading - 1
        /\ schedule.reading - 1 \in Nat
    <2>1. r \in Claimers BY <1>2 DEF Claimers
    <2>2. /\ IsFiniteSet(Claimers \ {r})
          /\ Cardinality(Claimers \ {r}) = schedule.reading - 1
      BY <1>6, <2>1, FS_RemoveElement
    <2> QED BY <2>2, FS_CardinalityType
  <1>8. /\ schedule' \in Schedule
        /\ schedule'.reading = schedule.reading - 1
        /\ schedule'.read = schedule.read \cup {item}
        /\ schedule'.next_read = schedule.next_read
        /\ schedule'.waiting = schedule.waiting
        /\ schedule'.limit = schedule.limit
        /\ schedule'.stopped = schedule.stopped
        /\ schedule'.past_bound = schedule.past_bound
    BY <1>1, <1>2, <1>7 DEF Schedule
  <1>9. TypeOK'
    BY <1>1, <1>2, <1>5, <1>8, WokenReaders, WokenSearchers DEF TypeOK
  <1>10. \A i : /\ ReaderHas(i) => ReaderHas(i)' \/ i = item
                /\ ReaderHas(i)' => ReaderHas(i)
                /\ SearcherHas(i)' <=> SearcherHas(i)
                /\ SenderHas(i)' <=> SenderHas(i)
    BY <1>3, <1>4 DEF ReaderHas, SearcherHas, SenderHas
  <1>11. ReaderHas(item) BY <1>2 DEF ReaderHas
  <1>12. \A i : /\ Held(i)' <=> Held(i)
                /\ Started(i)' <=> Started(i)
    BY <1>2, <1>8, <1>10, <1>11 DEF Held, IsResult, Started
  <1>13. IsPanicked' <=> IsPanicked BY <1>2, <1>3, <1>4 DEF IsPanicked
  <1>14. ThreadsHoldItems' BY <1>3, <1>4 DEF ScanInv, ThreadsHoldItems
  <1>15. StopIsKnown'
    BY <1>2, <1>3, <1>4, <1>8, <1>13 DEF ScanInv, StopIsKnown
  <1>16. LimitIsAhead' BY <1>2, <1>8 DEF ScanInv, LimitIsAhead
  <1>17. ReadingIsCounted'
    <2>1. Claimers' = Claimers \ {r} BY <1>3, <1>4 DEF Claimers
    <2> QED BY <1>7, <1>8, <2>1 DEF ReadingIsCounted
  <1>18. StartedApart' /\ NoneIsLost' /\ PlaceIsHeld'
    BY <1>2, <1>8, <1>12 DEF ScanInv, StartedApart, NoneIsLost, PlaceIsHeld
  <1>19. EndedForAReason'
    <2>1. schedule.reading # 0 BY <1>7
    <2> QED BY <1>2, <1>3, <1>4, <1>8, <2>1
            DEF ScanInv, EndedForAReason, is_every_read_started,
                NothingMoreIsRead
  <1>20. NoLostWakeup' BY <1>1, <1>2, <1>5, AllWoken
  <1>21. ReturnedIsOver'
    BY <1>2 DEF ScanInv, ReturnedIsOver, IsEveryThreadEnded, Ended
  <1> QED BY <1>9, <1>14, <1>15, <1>16, <1>17, <1>18, <1>19, <1>20, <1>21
          DEF ScanInv

(* A reader that panics stops the scan: nothing is promised of its item.   *)
LEMMA PanicReadInv ==
  ASSUME ScanInv, NEW r \in Reader, PanicRead(r)
  PROVE  ScanInv'
  <1> USE ItemsAssumption, DataAssumption
  <1>1. /\ TypeOK /\ reader \in [Reader -> ReadThread]
        /\ searcher \in [Searcher -> SearchThread] /\ schedule \in Schedule
    BY DEF ScanInv, TypeOK
  <1> DEFINE readers == [reader EXCEPT ![r] = Thread("panicked")]
  <1>2. /\ reader[r].pc = "read"
        /\ schedule' = [schedule EXCEPT !.stopped = TRUE]
        /\ reader' = Woken(readers) /\ searcher' = Woken(searcher)
        /\ UNCHANGED <<sizes, results, consumer>>
    BY DEF PanicRead
  <1>3. Thread("ready").pc = "ready" /\ Thread("panicked").pc = "panicked"
    BY DEF Thread
  <1>4. /\ reader'[r].pc = "panicked"
        /\ \A t \in Reader : t # r =>
             reader'[t] = IF reader[t].pc = "wait" THEN Thread("ready")
                                                   ELSE reader[t]
        /\ \A t \in Searcher :
             searcher'[t] = IF searcher[t].pc = "wait" THEN Thread("ready")
                                                       ELSE searcher[t]
    BY <1>1, <1>2, <1>3, WokenThreads, ZenonT(60)
  <1>5. readers \in [Reader -> ReadThread] BY <1>1, ThreadType
  <1> HIDE DEF readers
  <1>6. /\ schedule' \in Schedule /\ schedule'.stopped
        /\ schedule'.reading = schedule.reading
        /\ schedule'.read = schedule.read
        /\ schedule'.next_read = schedule.next_read
        /\ schedule'.waiting = schedule.waiting
        /\ schedule'.limit = schedule.limit
    BY <1>1, <1>2 DEF Schedule
  <1>7. TypeOK'
    BY <1>1, <1>2, <1>5, <1>6, WokenReaders, WokenSearchers DEF TypeOK
  <1>8. \A i : Started(i)' => Started(i)
    BY <1>2, <1>3, <1>4, <1>6
    DEF Started, Held, ReaderHas, SearcherHas, SenderHas, IsResult
  <1>9. IsPanicked' BY <1>4 DEF IsPanicked
  <1>10. ThreadsHoldItems' BY <1>3, <1>4 DEF ScanInv, ThreadsHoldItems
  <1>11. StopIsKnown' BY <1>2, <1>6, <1>9 DEF ScanInv, StopIsKnown
  <1>12. LimitIsAhead' BY <1>2, <1>6 DEF ScanInv, LimitIsAhead
  <1>13. ReadingIsCounted'
    BY <1>2, <1>3, <1>4, <1>6, SameClaimers DEF ScanInv
  <1>14. StartedApart' BY <1>6, <1>8 DEF ScanInv, StartedApart
  <1>15. NoneIsLost' /\ PlaceIsHeld' /\ EndedForAReason'
    BY <1>6 DEF NoneIsLost, PlaceIsHeld, EndedForAReason
  <1>16. NoLostWakeup' BY <1>1, <1>2, <1>5, AllWoken
  <1>17. ReturnedIsOver'
    BY <1>2 DEF ScanInv, ReturnedIsOver, IsEveryThreadEnded, Ended
  <1> QED BY <1>7, <1>10, <1>11, <1>12, <1>13, <1>14, <1>15, <1>16, <1>17
          DEF ScanInv

-----------------------------------------------------------------------------
(* The search pool's steps *)

(* The steps of a searcher that leave the schedule, the readers and every  *)
(* item where they are: it ends, waits, or wakes on its own.               *)
LEMMA IdleSearchInv ==
  ASSUME ScanInv, NEW s \in Searcher, NEW pc \in {"done", "wait", "ready"},
         searcher[s].pc \in {"ready", "wait"},
         pc = "done" => \/ schedule.stopped
                        \/ schedule.read = {} /\ NothingMoreIsRead(schedule),
         pc = "wait" => /\ ~schedule.stopped /\ schedule.read = {}
                        /\ ~NothingMoreIsRead(schedule),
         searcher' = [searcher EXCEPT ![s] = Thread(pc)],
         UNCHANGED <<schedule, sizes, reader, results, consumer>>
  PROVE  ScanInv'
  <1>1. TypeOK /\ searcher \in [Searcher -> SearchThread]
    BY DEF ScanInv, TypeOK
  <1>2. /\ searcher'[s].pc = pc
        /\ \A t \in Searcher : t # s => searcher'[t] = searcher[t]
    BY <1>1 DEF Thread
  <1>3. TypeOK' BY <1>1, ThreadType DEF TypeOK
  <1>4. \A i : /\ SearcherHas(i)' <=> SearcherHas(i)
               /\ SenderHas(i)' <=> SenderHas(i)
    BY <1>2 DEF SearcherHas, SenderHas
  <1>5. \A i : /\ Held(i)' <=> Held(i)
               /\ Started(i)' <=> Started(i)
    BY <1>4 DEF ReaderHas, Held, IsResult, Started
  <1>6. IsPanicked' <=> IsPanicked BY <1>2 DEF IsPanicked
  <1>7. ThreadsHoldItems' BY <1>2 DEF ScanInv, ThreadsHoldItems
  <1>8. StopIsKnown' BY <1>2, <1>6 DEF ScanInv, StopIsKnown
  <1>9. LimitIsAhead' BY DEF ScanInv, LimitIsAhead
  <1>10. ReadingIsCounted' BY SameClaimers DEF ScanInv
  <1>11. StartedApart' /\ NoneIsLost' /\ PlaceIsHeld'
    BY <1>5 DEF ScanInv, StartedApart, NoneIsLost, PlaceIsHeld
  <1>12. EndedForAReason'
    BY <1>2 DEF ScanInv, EndedForAReason, is_every_read_started,
                NothingMoreIsRead
  <1>13. Claimable(schedule)' = Claimable(schedule)
    BY DEF Claimable, CanReserve, Fits, Untried
  <1>14. NoLostWakeup'
    BY <1>2, <1>13 DEF ScanInv, NoLostWakeup, is_every_read_started,
                       NothingMoreIsRead
  <1>15. ReturnedIsOver'
    BY <1>2 DEF ScanInv, ReturnedIsOver, IsEveryThreadEnded, Ended
  <1> QED BY <1>3, <1>7, <1>8, <1>9, <1>10, <1>11, <1>12, <1>14, <1>15
          DEF ScanInv

(* A searcher takes what was read.  No searcher waits, since there was     *)
(* something to take.                                                      *)
LEMMA TakeItemInv ==
  ASSUME ScanInv, NEW s \in Searcher, NEW item \in schedule.read,
         searcher[s].pc = "ready", ~schedule.stopped,
         schedule' = [schedule EXCEPT !.read = @ \ {item}],
         searcher' = [searcher EXCEPT ![s] = [pc |-> "search", position |-> item]],
         UNCHANGED <<sizes, reader, results, consumer>>
  PROVE  ScanInv'
  <1>1. /\ TypeOK /\ searcher \in [Searcher -> SearchThread]
        /\ schedule \in Schedule /\ schedule.read \subseteq Item
    BY DEF ScanInv, TypeOK, Schedule
  <1>2. /\ searcher'[s].pc = "search" /\ searcher'[s].position = item
        /\ \A t \in Searcher : t # s => searcher'[t] = searcher[t]
        /\ item \in Item
    BY <1>1
  <1>3. /\ schedule' \in Schedule
        /\ schedule'.read = schedule.read \ {item}
        /\ schedule'.reading = schedule.reading
        /\ schedule'.next_read = schedule.next_read
        /\ schedule'.waiting = schedule.waiting
        /\ schedule'.limit = schedule.limit
        /\ schedule'.stopped = schedule.stopped
        /\ schedule'.past_bound = schedule.past_bound
        /\ schedule'.unsearched_bytes = schedule.unsearched_bytes
    BY <1>1 DEF Schedule
  <1>4. TypeOK' BY <1>1, <1>2, <1>3, ThreadType DEF TypeOK
  <1>5. \A i : /\ ReaderHas(i)' <=> ReaderHas(i)
               /\ SearcherHas(i)' <=> SearcherHas(i) \/ i = item
               /\ SenderHas(i)' <=> SenderHas(i)
    BY <1>2 DEF ReaderHas, SearcherHas, SenderHas
  <1>6. \A i : /\ Held(i)' <=> Held(i)
               /\ Started(i)' <=> Started(i)
    BY <1>3, <1>5 DEF Held, IsResult, Started
  <1>7. IsPanicked' <=> IsPanicked BY <1>2 DEF IsPanicked
  <1>8. ThreadsHoldItems' BY <1>2 DEF ScanInv, ThreadsHoldItems
  <1>9. StopIsKnown' BY <1>2, <1>3, <1>7 DEF ScanInv, StopIsKnown
  <1>10. LimitIsAhead' BY <1>3 DEF ScanInv, LimitIsAhead
  <1>11. ReadingIsCounted' BY <1>3, SameClaimers DEF ScanInv
  <1>12. StartedApart' /\ NoneIsLost' /\ PlaceIsHeld'
    BY <1>3, <1>6 DEF ScanInv, StartedApart, NoneIsLost, PlaceIsHeld
  <1>13. EndedForAReason'
    BY <1>2, <1>3 DEF ScanInv, EndedForAReason, is_every_read_started,
                      NothingMoreIsRead
  <1>14. Claimable(schedule)' = Claimable(schedule)
    BY <1>3 DEF Claimable, CanReserve, Fits, Untried
  <1>15. NoLostWakeup'
    BY <1>2, <1>3, <1>14 DEF ScanInv, NoLostWakeup, is_every_read_started
  <1>16. ReturnedIsOver'
    BY <1>2 DEF ScanInv, ReturnedIsOver, IsEveryThreadEnded, Ended
  <1> QED BY <1>4, <1>8, <1>9, <1>10, <1>11, <1>12, <1>13, <1>15, <1>16
          DEF ScanInv

(* take_read                                                               *)
LEMMA TakeReadInv ==
  ASSUME ScanInv, NEW s \in Searcher, TakeRead(s)
  PROVE  ScanInv'
  <1>1. CASE schedule.stopped
    BY <1>1, IdleSearchInv DEF TakeRead
  <1>2. CASE ~schedule.stopped /\ schedule.read # {}
    BY <1>2, TakeItemInv DEF TakeRead
  <1>3. CASE ~schedule.stopped /\ schedule.read = {}
    BY <1>3, IdleSearchInv DEF TakeRead
  <1> QED BY <1>1, <1>2, <1>3

(* finish_search changes the bytes or the place past the bound.            *)
LEMMA FinishSearchFields ==
  ASSUME TypeOK, NEW item \in Item, NEW s, s = finish_search(schedule, item)
  PROVE  /\ s \in Schedule
         /\ s.read = schedule.read /\ s.reading = schedule.reading
         /\ s.next_read = schedule.next_read /\ s.waiting = schedule.waiting
         /\ s.limit = schedule.limit /\ s.stopped = schedule.stopped
         /\ \/ s.past_bound = None
            \/ s.past_bound = schedule.past_bound /\ s.past_bound # item
  <1>1. schedule \in Schedule /\ sizes \in [Item -> Size \cup {None}]
    BY DEF TypeOK
  <1>2. CASE schedule.past_bound = item
    <2>1. s = [schedule EXCEPT !.past_bound = None]
      BY <1>2 DEF finish_search
    <2> QED BY <1>1, <2>1 DEF Schedule
  <1>3. CASE schedule.past_bound # item
    <2> DEFINE bytes == schedule.unsearched_bytes
                          - (IF sizes[item] = None THEN 0 ELSE sizes[item])
    <2>1. s = [schedule EXCEPT !.unsearched_bytes = bytes]
      BY <1>3 DEF finish_search
    <2>2. /\ schedule.unsearched_bytes \in Int
          /\ sizes[item] # None => sizes[item] \in Int
      <3>1. schedule.unsearched_bytes \in Int BY <1>1 DEF Schedule
      <3>2. sizes[item] \in Size \cup {None} BY <1>1
      <3>3. sizes[item] # None => sizes[item] \in Nat
        BY <3>2, DataAssumption
      <3> QED BY <3>1, <3>3
    <2>3. (IF sizes[item] = None THEN 0 ELSE sizes[item]) \in Int BY <2>2
    <2>4. bytes \in Int BY <2>2, <2>3
    <2> HIDE DEF bytes
    <2> QED BY <1>1, <1>3, <2>1, <2>4 DEF Schedule
  <1> QED BY <1>2, <1>3

(* A search ends: its room is free, and everyone looks again.              *)
LEMMA FinishSearchInv ==
  ASSUME ScanInv, NEW s \in Searcher, FinishSearch(s)
  PROVE  ScanInv'
  <1>1. /\ TypeOK /\ reader \in [Reader -> ReadThread]
        /\ searcher \in [Searcher -> SearchThread] /\ schedule \in Schedule
    BY DEF ScanInv, TypeOK
  <1> DEFINE item == searcher[s].position
             searchers == [searcher EXCEPT ![s].pc = "send"]
  <1>2. /\ searcher[s].pc = "search" /\ item \in Item
        /\ schedule' = finish_search(schedule, item)
        /\ searcher' = Woken(searchers) /\ reader' = Woken(reader)
        /\ UNCHANGED <<sizes, results, consumer>>
    BY DEF FinishSearch, ScanInv, ThreadsHoldItems
  <1>3. Thread("ready").pc = "ready" BY DEF Thread
  <1>4. searchers \in [Searcher -> SearchThread]
    BY <1>1 DEF SearchThread
  <1>5. /\ searchers[s].pc = "send" /\ searchers[s].position = item
        /\ \A t \in Searcher : t # s => searchers[t] = searcher[t]
    BY <1>1 DEF SearchThread
  <1> HIDE DEF searchers
  <1>6. /\ searcher'[s].pc = "send" /\ searcher'[s].position = item
        /\ \A t \in Searcher : t # s =>
             searcher'[t] = IF searcher[t].pc = "wait" THEN Thread("ready")
                                                       ELSE searcher[t]
        /\ \A t \in Reader :
             reader'[t] = IF reader[t].pc = "wait" THEN Thread("ready")
                                                   ELSE reader[t]
    BY <1>1, <1>2, <1>3, <1>4, <1>5, WokenThreads
  <1>7. /\ schedule' \in Schedule
        /\ schedule'.read = schedule.read
        /\ schedule'.reading = schedule.reading
        /\ schedule'.next_read = schedule.next_read
        /\ schedule'.waiting = schedule.waiting
        /\ schedule'.limit = schedule.limit
        /\ schedule'.stopped = schedule.stopped
        /\ \/ schedule'.past_bound = None
           \/ /\ schedule'.past_bound = schedule.past_bound
              /\ schedule'.past_bound # item
    BY <1>1, <1>2, FinishSearchFields
  <1>8. TypeOK'
    BY <1>1, <1>2, <1>4, <1>7, WokenReaders, WokenSearchers DEF TypeOK
  <1>9. \A i : /\ ReaderHas(i)' <=> ReaderHas(i)
               /\ SearcherHas(i) => SearcherHas(i)' \/ i = item
               /\ SearcherHas(i)' => SearcherHas(i)
               /\ SenderHas(i)' <=> SenderHas(i) \/ i = item
    BY <1>2, <1>3, <1>6 DEF ReaderHas, SearcherHas, SenderHas
  <1>10. SearcherHas(item) BY <1>2 DEF SearcherHas
  <1>11. \A i : /\ Held(i) => Held(i)' \/ i = item
                /\ Started(i)' <=> Started(i)
    BY <1>2, <1>7, <1>9, <1>10 DEF Held, IsResult, Started
  <1>12. IsPanicked' <=> IsPanicked BY <1>2, <1>3, <1>6 DEF IsPanicked
  <1>13. ThreadsHoldItems' BY <1>2, <1>3, <1>6 DEF ScanInv, ThreadsHoldItems
  <1>14. StopIsKnown'
    BY <1>2, <1>3, <1>6, <1>7, <1>12 DEF ScanInv, StopIsKnown
  <1>15. LimitIsAhead' BY <1>2, <1>7 DEF ScanInv, LimitIsAhead
  <1>16. ReadingIsCounted' BY <1>3, <1>6, <1>7, SameClaimers DEF ScanInv
  <1>17. StartedApart' /\ NoneIsLost'
    BY <1>2, <1>7, <1>11 DEF ScanInv, StartedApart, NoneIsLost
  <1>18. PlaceIsHeld' BY <1>7, <1>11 DEF ScanInv, PlaceIsHeld
  <1>19. EndedForAReason'
    BY <1>2, <1>3, <1>6, <1>7
    DEF ScanInv, EndedForAReason, is_every_read_started, NothingMoreIsRead
  <1>20. NoLostWakeup' BY <1>1, <1>2, <1>4, AllWoken
  <1>21. ReturnedIsOver'
    BY <1>2 DEF ScanInv, ReturnedIsOver, IsEveryThreadEnded, Ended
  <1> QED BY <1>8, <1>13, <1>14, <1>15, <1>16, <1>17, <1>18, <1>19, <1>20,
             <1>21 DEF ScanInv

(* A searcher that panics stops the scan.                                  *)
LEMMA PanicSearchInv ==
  ASSUME ScanInv, NEW s \in Searcher, PanicSearch(s)
  PROVE  ScanInv'
  <1>1. /\ TypeOK /\ reader \in [Reader -> ReadThread]
        /\ searcher \in [Searcher -> SearchThread] /\ schedule \in Schedule
    BY DEF ScanInv, TypeOK
  <1> DEFINE searchers == [searcher EXCEPT ![s] = Thread("panicked")]
  <1>2. /\ searcher[s].pc = "search"
        /\ schedule' = [schedule EXCEPT !.stopped = TRUE]
        /\ searcher' = Woken(searchers) /\ reader' = Woken(reader)
        /\ UNCHANGED <<sizes, results, consumer>>
    BY DEF PanicSearch
  <1>3. Thread("ready").pc = "ready" /\ Thread("panicked").pc = "panicked"
    BY DEF Thread
  <1>4. /\ searcher'[s].pc = "panicked"
        /\ \A t \in Searcher : t # s =>
             searcher'[t] = IF searcher[t].pc = "wait" THEN Thread("ready")
                                                       ELSE searcher[t]
        /\ \A t \in Reader :
             reader'[t] = IF reader[t].pc = "wait" THEN Thread("ready")
                                                   ELSE reader[t]
    BY <1>1, <1>2, <1>3, WokenThreads
  <1>5. searchers \in [Searcher -> SearchThread] BY <1>1, ThreadType
  <1> HIDE DEF searchers
  <1>6. /\ schedule' \in Schedule /\ schedule'.stopped
        /\ schedule'.reading = schedule.reading
        /\ schedule'.read = schedule.read
        /\ schedule'.next_read = schedule.next_read
        /\ schedule'.waiting = schedule.waiting
        /\ schedule'.limit = schedule.limit
    BY <1>1, <1>2 DEF Schedule
  <1>7. TypeOK'
    BY <1>1, <1>2, <1>5, <1>6, WokenReaders, WokenSearchers DEF TypeOK
  <1>8. \A i : Started(i)' => Started(i)
    BY <1>2, <1>3, <1>4, <1>6
    DEF Started, Held, ReaderHas, SearcherHas, SenderHas, IsResult
  <1>9. IsPanicked' BY <1>4 DEF IsPanicked
  <1>10. ThreadsHoldItems' BY <1>3, <1>4 DEF ScanInv, ThreadsHoldItems
  <1>11. StopIsKnown' BY <1>2, <1>6, <1>9 DEF ScanInv, StopIsKnown
  <1>12. LimitIsAhead' BY <1>2, <1>6 DEF ScanInv, LimitIsAhead
  <1>13. ReadingIsCounted'
    BY <1>2, <1>3, <1>4, <1>6, SameClaimers DEF ScanInv
  <1>14. StartedApart' BY <1>6, <1>8 DEF ScanInv, StartedApart
  <1>15. NoneIsLost' /\ PlaceIsHeld' /\ EndedForAReason'
    BY <1>6 DEF NoneIsLost, PlaceIsHeld, EndedForAReason
  <1>16. NoLostWakeup' BY <1>1, <1>2, <1>5, AllWoken
  <1>17. ReturnedIsOver'
    BY <1>2 DEF ScanInv, ReturnedIsOver, IsEveryThreadEnded, Ended
  <1> QED BY <1>7, <1>10, <1>11, <1>12, <1>13, <1>14, <1>15, <1>16, <1>17
          DEF ScanInv

(* The result is in the channel, or the receiver is gone.                  *)
LEMMA SendResultInv ==
  ASSUME ScanInv, NEW s \in Searcher, SendResult(s)
  PROVE  ScanInv'
  <1>1. /\ TypeOK /\ searcher \in [Searcher -> SearchThread]
        /\ results \in Seq(Item)
    BY DEF ScanInv, TypeOK
  <1>2. /\ searcher[s].pc = "send" /\ searcher[s].position \in Item
        /\ UNCHANGED <<sizes, schedule, reader, consumer>>
    BY DEF SendResult, ScanInv, ThreadsHoldItems
  <1> PICK item \in Item : searcher[s].position = item BY <1>2
  <1>3. /\ Thread("ready").pc = "ready" /\ Thread("done").pc = "done"
    BY DEF Thread
  <1>4. /\ searcher'[s].pc \in {"ready", "done"}
        /\ searcher'[s].pc = "done" => consumer.pc = "panicked"
        /\ \A t \in Searcher : t # s => searcher'[t] = searcher[t]
        /\ searcher' \in [Searcher -> SearchThread]
    BY <1>1, <1>3, ThreadType DEF SendResult
  <1>5. /\ results' \in Seq(Item)
        /\ \A i : /\ IsResult(i) => IsResult(i)'
                  /\ IsResult(i)' => IsResult(i) \/ i = item
        /\ consumer.pc # "panicked" => IsResult(item)'
    <2>1. CASE consumer.pc = "panicked"
      <3>1. results' = results BY <2>1 DEF SendResult
      <3> QED BY <1>1, <2>1, <3>1 DEF IsResult
    <2>2. CASE consumer.pc # "panicked"
      <3>1. results' = Append(results, item) BY <2>2 DEF SendResult
      <3>2. /\ results' \in Seq(Item) /\ Len(results') = Len(results) + 1
            /\ \A k \in 1 .. Len(results) : results'[k] = results[k]
            /\ results'[Len(results) + 1] = item /\ Len(results) \in Nat
        BY <1>1, <1>2, <3>1
      <3>3. ASSUME NEW i, IsResult(i) PROVE IsResult(i)'
        BY <3>2, <3>3 DEF IsResult
      <3>4. ASSUME NEW i, IsResult(i)' PROVE IsResult(i) \/ i = item
        <4>1. PICK k \in 1 .. Len(results) + 1 : results'[k] = i
          BY <3>2, <3>4 DEF IsResult
        <4> QED BY <3>2, <4>1 DEF IsResult
      <3>5. IsResult(item)' BY <3>2 DEF IsResult
      <3> QED BY <3>2, <3>3, <3>4, <3>5
    <2> QED BY <2>1, <2>2
  <1>6. TypeOK' BY <1>1, <1>2, <1>4, <1>5 DEF TypeOK
  <1>7. \A i : /\ SearcherHas(i)' <=> SearcherHas(i)
               /\ SenderHas(i)' => SenderHas(i)
               /\ SenderHas(i) => SenderHas(i)' \/ i = item
    BY <1>2, <1>4 DEF SearcherHas, SenderHas
  <1>8. SenderHas(item) BY <1>2 DEF SenderHas
  <1>9. \A i : /\ Held(i)' <=> Held(i)
               /\ Started(i)' => Started(i)
               /\ consumer.pc # "panicked" => (Started(i) => Started(i)')
    BY <1>2, <1>5, <1>7, <1>8 DEF Held, ReaderHas, Started
  <1>10. IsPanicked' <=> IsPanicked BY <1>2, <1>4 DEF IsPanicked
  <1>11. ThreadsHoldItems' BY <1>2, <1>4 DEF ScanInv, ThreadsHoldItems
  <1>12. StopIsKnown' BY <1>2, <1>4, <1>10 DEF ScanInv, StopIsKnown
  <1>13. LimitIsAhead' BY <1>2 DEF ScanInv, LimitIsAhead
  <1>14. ReadingIsCounted' BY <1>2, SameClaimers DEF ScanInv
  <1>15. StartedApart' /\ NoneIsLost' /\ PlaceIsHeld'
    BY <1>2, <1>9 DEF ScanInv, StartedApart, NoneIsLost, PlaceIsHeld
  <1>16. EndedForAReason'
    BY <1>2, <1>4
    DEF ScanInv, EndedForAReason, is_every_read_started, NothingMoreIsRead
  <1>17. Claimable(schedule)' = Claimable(schedule)
    BY <1>2 DEF Claimable, CanReserve, Fits, Untried
  <1>18. NoLostWakeup'
    BY <1>2, <1>4, <1>17
    DEF ScanInv, NoLostWakeup, is_every_read_started, NothingMoreIsRead
  <1>19. ReturnedIsOver'
    BY <1>2 DEF ScanInv, ReturnedIsOver, IsEveryThreadEnded, Ended
  <1> QED BY <1>6, <1>11, <1>12, <1>13, <1>14, <1>15, <1>16, <1>18, <1>19
          DEF ScanInv

-----------------------------------------------------------------------------
(* The caller *)

(* Steps of the caller that leave the pools as they are.                   *)
LEMMA PoolsUnchanged ==
  ASSUME ScanInv, UNCHANGED <<sizes, schedule, reader, searcher>>
  PROVE  /\ ThreadsHoldItems' /\ ReadingIsCounted' /\ PlaceIsHeld'
         /\ NoLostWakeup'
         /\ IsEveryThreadEnded' <=> IsEveryThreadEnded
         /\ \A i : /\ ReaderHas(i)' <=> ReaderHas(i)
                   /\ SearcherHas(i)' <=> SearcherHas(i)
                   /\ SenderHas(i)' <=> SenderHas(i)
                   /\ Held(i)' <=> Held(i)
         /\ consumer'.pc = consumer.pc \/ consumer'.pc = "panicked" =>
              EndedForAReason'
  <1>1. ThreadsHoldItems' BY DEF ScanInv, ThreadsHoldItems
  <1>2. ReadingIsCounted' BY SameClaimers DEF ScanInv
  <1>3. \A i : /\ ReaderHas(i)' <=> ReaderHas(i)
               /\ SearcherHas(i)' <=> SearcherHas(i)
               /\ SenderHas(i)' <=> SenderHas(i)
               /\ Held(i)' <=> Held(i)
    BY DEF ReaderHas, SearcherHas, SenderHas, Held
  <1>4. PlaceIsHeld' BY <1>3 DEF ScanInv, PlaceIsHeld
  <1>5. Claimable(schedule)' = Claimable(schedule)
    BY DEF Claimable, CanReserve, Fits, Untried
  <1>6. NoLostWakeup'
    BY <1>5 DEF ScanInv, NoLostWakeup, is_every_read_started, NothingMoreIsRead
  <1>7. IsEveryThreadEnded' <=> IsEveryThreadEnded BY DEF IsEveryThreadEnded
  <1>8. consumer'.pc = consumer.pc \/ consumer'.pc = "panicked" =>
          EndedForAReason'
    BY DEF ScanInv, EndedForAReason, is_every_read_started, NothingMoreIsRead
  <1> QED BY <1>1, <1>2, <1>3, <1>4, <1>6, <1>7, <1>8

(* A result leaves the channel, for the ones that have finished.           *)
LEMMA ReceiveResultInv ==
  ASSUME ScanInv, ReceiveResult
  PROVE  ScanInv'
  <1> DEFINE item == Head(results)
  <1>1. /\ TypeOK /\ results \in Seq(Item) /\ consumer \in Consumer
    BY DEF ScanInv, TypeOK
  <1>2. /\ consumer.pc = "receive" /\ results # <<>>
        /\ results' = Tail(results)
        /\ UNCHANGED <<sizes, schedule, reader, searcher>>
    BY DEF ReceiveResult
  <1>3. /\ item \in Item /\ results' \in Seq(Item)
        /\ \A i : IsResult(i) => IsResult(i)' \/ i = item
        /\ \A i : IsResult(i)' => IsResult(i)
        /\ IsResult(item)
    <2>1. /\ item \in Item /\ results' \in Seq(Item)
          /\ Len(results) \in Nat /\ Len(results) > 0
          /\ Len(results') = Len(results) - 1
          /\ item = results[1]
          /\ \A k \in 1 .. Len(results) - 1 : results'[k] = results[k + 1]
      BY <1>1, <1>2
    <2> HIDE DEF item
    <2>2. ASSUME NEW i, IsResult(i) PROVE IsResult(i)' \/ i = item
      <3>1. PICK k \in 1 .. Len(results) : results[k] = i
        BY <2>2 DEF IsResult
      <3>2. CASE k = 1 BY <2>1, <3>1, <3>2
      <3>3. CASE k # 1
        <4>1. k - 1 \in 1 .. Len(results) - 1 /\ (k - 1) + 1 = k
          BY <2>1, <3>1, <3>3
        <4>2. results'[k - 1] = i BY <2>1, <3>1, <4>1
        <4> QED BY <2>1, <4>1, <4>2 DEF IsResult
      <3> QED BY <3>2, <3>3
    <2>3. ASSUME NEW i, IsResult(i)' PROVE IsResult(i)
      <3>1. PICK k \in 1 .. Len(results) - 1 : results'[k] = i
        BY <2>1, <2>3 DEF IsResult
      <3>2. k + 1 \in 1 .. Len(results) /\ results[k + 1] = i
        BY <2>1, <3>1
      <3> QED BY <3>2 DEF IsResult
    <2>4. IsResult(item) BY <2>1 DEF IsResult
    <2> QED BY <2>1, <2>2, <2>3, <2>4
  <1> HIDE DEF item
  <1>4. /\ consumer' \in Consumer /\ consumer'.pc = "receive"
        /\ consumer'.consumed = consumer.consumed
        /\ consumer'.stopped = consumer.stopped
        /\ consumer.stopped => consumer'.finished = consumer.finished
        /\ ~consumer.stopped =>
             consumer'.finished = consumer.finished \cup {item}
    <2>1. CASE consumer.stopped BY <1>1, <1>2, <2>1 DEF ReceiveResult
    <2>2. CASE ~consumer.stopped
      <3>1. consumer' = [consumer EXCEPT !.finished = @ \cup {item}]
        BY <2>2 DEF ReceiveResult, item
      <3> QED BY <1>1, <1>2, <1>3, <2>2, <3>1 DEF Consumer
    <2> QED BY <2>1, <2>2
  <1>5. TypeOK' BY <1>1, <1>2, <1>3, <1>4 DEF TypeOK
  <1>6. \A i : /\ Started(i)' => Started(i)
               /\ ~consumer.stopped => (Started(i) => Started(i)')
    BY <1>2, <1>3, <1>4, PoolsUnchanged DEF Started
  <1>7. IsPanicked' <=> IsPanicked BY <1>2, <1>4 DEF IsPanicked
  <1>8. StopIsKnown' BY <1>2, <1>4, <1>7 DEF ScanInv, StopIsKnown
  <1>9. LimitIsAhead' BY <1>2, <1>4 DEF ScanInv, LimitIsAhead
  <1>10. StartedApart' BY <1>2, <1>6 DEF ScanInv, StartedApart
  <1>11. NoneIsLost'
    BY <1>2, <1>4, <1>6 DEF ScanInv, NoneIsLost, StopIsKnown
  <1>12. ReturnedIsOver' BY <1>4 DEF ReturnedIsOver
  <1> QED BY <1>2, <1>4, <1>5, <1>8, <1>9, <1>10, <1>11, <1>12, PoolsUnchanged
          DEF ScanInv

(* The caller panics: its pools go on, and no result is kept.              *)
LEMMA PanicConsumeInv ==
  ASSUME ScanInv, PanicConsume
  PROVE  ScanInv'
  <1>1. /\ TypeOK /\ consumer \in Consumer BY DEF ScanInv, TypeOK
  <1>2. /\ consumer.pc = "receive" /\ results' = <<>>
        /\ consumer' = [consumer EXCEPT !.pc = "panicked", !.finished = {}]
        /\ UNCHANGED <<sizes, schedule, reader, searcher>>
    BY DEF PanicConsume
  <1>3. /\ consumer' \in Consumer /\ consumer'.pc = "panicked"
        /\ consumer'.consumed = consumer.consumed
        /\ consumer'.stopped = consumer.stopped
        /\ consumer'.finished = {}
    BY <1>1, <1>2 DEF Consumer
  <1>4. TypeOK' BY <1>1, <1>2, <1>3 DEF TypeOK
  <1>5. \A i : ~IsResult(i)' BY <1>2 DEF IsResult
  <1>6. \A i : Started(i)' => Started(i)
    BY <1>3, <1>5, <1>2, PoolsUnchanged DEF Started
  <1>7. IsPanicked' BY <1>3 DEF IsPanicked
  <1>8. StopIsKnown' BY <1>2, <1>3, <1>7 DEF ScanInv, StopIsKnown
  <1>9. LimitIsAhead' BY <1>2, <1>3 DEF ScanInv, LimitIsAhead
  <1>10. StartedApart' BY <1>2, <1>6 DEF ScanInv, StartedApart
  <1>11. NoneIsLost' /\ ReturnedIsOver'
    BY <1>3 DEF NoneIsLost, ReturnedIsOver
  <1> QED BY <1>2, <1>3, <1>4, <1>8, <1>9, <1>10, <1>11, PoolsUnchanged
          DEF ScanInv

(* The scan ends, with nothing in the channel.                             *)
LEMMA ReturnInv ==
  ASSUME ScanInv, Return
  PROVE  ScanInv'
  <1>1. /\ TypeOK /\ consumer \in Consumer BY DEF ScanInv, TypeOK
  <1>2. /\ consumer.pc = "receive" /\ IsEveryThreadEnded
        /\ consumer' = [consumer EXCEPT !.pc = "returned"]
        /\ UNCHANGED <<sizes, schedule, reader, searcher, results>>
    BY DEF Return
  <1>3. /\ consumer' \in Consumer /\ consumer'.pc = "returned"
        /\ consumer'.consumed = consumer.consumed
        /\ consumer'.stopped = consumer.stopped
        /\ consumer'.finished = consumer.finished
    BY <1>1, <1>2 DEF Consumer
  <1>4. TypeOK' BY <1>1, <1>2, <1>3 DEF TypeOK
  <1>5. \A i : Started(i)' <=> Started(i)
    BY <1>2, <1>3, PoolsUnchanged DEF Started, IsResult
  <1>6. IsPanicked' <=> IsPanicked BY <1>2, <1>3 DEF IsPanicked
  <1>7. StopIsKnown' BY <1>2, <1>3, <1>6 DEF ScanInv, StopIsKnown
  <1>8. LimitIsAhead' BY <1>2, <1>3 DEF ScanInv, LimitIsAhead
  <1>9. StartedApart' /\ NoneIsLost'
    BY <1>2, <1>3, <1>5 DEF ScanInv, StartedApart, NoneIsLost
  <1>10. EndedForAReason'
    BY <1>2, <1>3
    DEF ScanInv, EndedForAReason, is_every_read_started, NothingMoreIsRead
  <1>11. ReturnedIsOver' BY <1>2, PoolsUnchanged DEF ReturnedIsOver
  <1> QED BY <1>2, <1>4, <1>7, <1>8, <1>9, <1>10, <1>11, PoolsUnchanged
          DEF ScanInv

(* What every turn of the caller's loop leaves, and whom it wakes.         *)
LEMMA TurnOfTheLoop ==
  ASSUME ScanInv, ConsumeResult,
         schedule' \in Schedule,
         schedule'.next_read = schedule.next_read,
         schedule'.waiting = schedule.waiting,
         schedule'.reading = schedule.reading,
         schedule'.read = schedule.read,
         consumer' \in Consumer,
         consumer'.pc = "receive",
         consumer'.consumed = consumer.consumed + 1,
         consumer'.finished \subseteq consumer.finished
  PROVE  /\ TypeOK' /\ ThreadsHoldItems' /\ ReadingIsCounted'
         /\ StartedApart' /\ NoLostWakeup' /\ ReturnedIsOver'
         /\ \A i : /\ ReaderHas(i)' <=> ReaderHas(i)
                   /\ SearcherHas(i)' <=> SearcherHas(i)
                   /\ SenderHas(i)' <=> SenderHas(i)
                   /\ IsResult(i)' <=> IsResult(i)
                   /\ Held(i)' <=> Held(i)
         /\ IsPanicked' <=> IsPanicked
         /\ \A t \in Reader :
              reader'[t].pc \in Ended <=> reader[t].pc \in Ended
         /\ \A t \in Reader : \A pc \in Ended :
              reader'[t].pc = pc <=> reader[t].pc = pc
         /\ \A t \in Searcher : \A pc \in Ended :
              searcher'[t].pc = pc <=> searcher[t].pc = pc
  <1>1. /\ TypeOK /\ reader \in [Reader -> ReadThread]
        /\ searcher \in [Searcher -> SearchThread] /\ consumer \in Consumer
    BY DEF ScanInv, TypeOK
  <1>2. /\ consumer.pc = "receive" /\ consumer.consumed \in consumer.finished
        /\ reader' = Woken(reader) /\ searcher' = Woken(searcher)
        /\ UNCHANGED <<sizes, results>>
    BY DEF ConsumeResult, IsNextFinished
  <1>3. Thread("ready").pc = "ready" BY DEF Thread
  <1>4. /\ \A t \in Reader :
             reader'[t] = IF reader[t].pc = "wait" THEN Thread("ready")
                                                   ELSE reader[t]
        /\ \A t \in Searcher :
             searcher'[t] = IF searcher[t].pc = "wait" THEN Thread("ready")
                                                       ELSE searcher[t]
    BY <1>1, <1>2, WokenThreads
  <1>5. TypeOK' BY <1>1, <1>2, WokenReaders, WokenSearchers DEF TypeOK
  <1>6. ThreadsHoldItems' BY <1>3, <1>4 DEF ScanInv, ThreadsHoldItems
  <1>7. ReadingIsCounted' BY <1>3, <1>4, SameClaimers DEF ScanInv
  <1>8. \A i : /\ ReaderHas(i)' <=> ReaderHas(i)
               /\ SearcherHas(i)' <=> SearcherHas(i)
               /\ SenderHas(i)' <=> SenderHas(i)
               /\ IsResult(i)' <=> IsResult(i)
    BY <1>2, <1>3, <1>4 DEF ReaderHas, SearcherHas, SenderHas, IsResult
  <1>9. \A i : Held(i)' <=> Held(i) BY <1>8 DEF Held
  <1>10. consumer.consumed \in 0 .. N BY <1>1 DEF Consumer
  <1>11. \A i \in Item : Started(i)' => Started(i)
    BY <1>2, <1>8, <1>9, <1>10, ItemsAssumption DEF Started, Item
  <1>12. StartedApart' BY <1>11 DEF ScanInv, StartedApart
  <1>13. NoLostWakeup' BY <1>1, <1>2, AllWoken
  <1>14. ReturnedIsOver' BY DEF ReturnedIsOver
  <1>15. IsPanicked' <=> IsPanicked BY <1>2, <1>3, <1>4 DEF IsPanicked
  <1>16. /\ \A t \in Reader : \A pc \in Ended :
              reader'[t].pc = pc <=> reader[t].pc = pc
         /\ \A t \in Searcher : \A pc \in Ended :
              searcher'[t].pc = pc <=> searcher[t].pc = pc
    BY <1>3, <1>4 DEF Ended
  <1> QED BY <1>5, <1>6, <1>7, <1>8, <1>9, <1>12, <1>13, <1>14, <1>15, <1>16

(* The caller takes the next result, and says to stop or how many more it  *)
(* wants.                                                                  *)
LEMMA ConsumeResultInv ==
  ASSUME ScanInv, ConsumeResult
  PROVE  ScanInv'
  <1> USE ItemsAssumption, DataAssumption
  <1>1. /\ TypeOK /\ schedule \in Schedule /\ consumer \in Consumer
    BY DEF ScanInv, TypeOK
  <1>2. /\ consumer.pc = "receive" /\ consumer.consumed \in consumer.finished
    BY DEF ConsumeResult, IsNextFinished
  <1>3. /\ consumer.finished \subseteq Item /\ consumer.consumed \in Item
        /\ consumer.consumed + 1 \in 0 .. N
    BY <1>1, <1>2 DEF Consumer, Item
  <1>4. CASE /\ schedule' = [schedule EXCEPT !.stopped = TRUE]
             /\ consumer' = [consumer EXCEPT !.consumed = @ + 1,
                                     !.stopped = TRUE, !.finished = {}]
    <2>1. /\ schedule' \in Schedule /\ schedule'.stopped
          /\ schedule'.next_read = schedule.next_read
          /\ schedule'.waiting = schedule.waiting
          /\ schedule'.reading = schedule.reading
          /\ schedule'.read = schedule.read
          /\ schedule'.limit = schedule.limit
      BY <1>1, <1>4 DEF Schedule
    <2>2. /\ consumer' \in Consumer
          /\ consumer'.pc = "receive" /\ consumer'.stopped
          /\ consumer'.consumed = consumer.consumed + 1
          /\ consumer'.finished = {}
      BY <1>1, <1>2, <1>3, <1>4 DEF Consumer
    <2>3. /\ TypeOK' /\ ThreadsHoldItems' /\ ReadingIsCounted'
          /\ StartedApart' /\ NoLostWakeup' /\ ReturnedIsOver'
      BY <2>1, <2>2, TurnOfTheLoop
    <2>4. NoneIsLost' /\ PlaceIsHeld' /\ EndedForAReason'
      BY <2>1 DEF NoneIsLost, PlaceIsHeld, EndedForAReason
    <2>5. StopIsKnown' BY <2>1, <2>2 DEF StopIsKnown
    <2>6. LimitIsAhead' BY <2>2 DEF LimitIsAhead
    <2> QED BY <2>3, <2>4, <2>5, <2>6 DEF ScanInv
  <1>5. ASSUME NEW more_wanted \in Wanted,
               schedule' = [schedule EXCEPT
                 !.limit = consumer.consumed + 1 + window(more_wanted)],
               consumer' = [consumer EXCEPT
                 !.consumed = @ + 1, !.wanted = more_wanted,
                 !.finished = @ \ {consumer.consumed}]
        PROVE  ScanInv'
    <2>1. window(more_wanted) \in Nat /\ window(more_wanted) > 0
      BY PoolAssumption DEF window, Larger
    <2>2. /\ schedule' \in Schedule
          /\ schedule'.next_read = schedule.next_read
          /\ schedule'.waiting = schedule.waiting
          /\ schedule'.reading = schedule.reading
          /\ schedule'.read = schedule.read
          /\ schedule'.past_bound = schedule.past_bound
          /\ schedule'.stopped = schedule.stopped
          /\ schedule'.limit > consumer.consumed + 1
      BY <1>1, <1>3, <1>5, <2>1 DEF Schedule, Item
    <2>3. /\ consumer' \in Consumer
          /\ consumer'.pc = "receive" /\ consumer'.stopped = consumer.stopped
          /\ consumer'.consumed = consumer.consumed + 1
          /\ consumer'.finished = consumer.finished \ {consumer.consumed}
      BY <1>1, <1>2, <1>3, <1>5 DEF Consumer
    <2>4. /\ TypeOK' /\ ThreadsHoldItems' /\ ReadingIsCounted'
          /\ StartedApart' /\ NoLostWakeup' /\ ReturnedIsOver'
      BY <2>2, <2>3, TurnOfTheLoop
    <2>5. /\ \A i : /\ SenderHas(i)' <=> SenderHas(i)
                    /\ IsResult(i)' <=> IsResult(i)
                    /\ Held(i)' <=> Held(i)
          /\ IsPanicked' <=> IsPanicked
          /\ \A t \in Reader : \A pc \in Ended :
               reader'[t].pc = pc <=> reader[t].pc = pc
          /\ \A t \in Searcher : \A pc \in Ended :
               searcher'[t].pc = pc <=> searcher[t].pc = pc
      BY <2>2, <2>3, TurnOfTheLoop
    <2>6. \A i \in Item : Started(i) => Started(i)'
      BY <1>3, <2>3, <2>5 DEF Started, Item
    <2>7. NoneIsLost' BY <1>2, <2>2, <2>6 DEF ScanInv, NoneIsLost
    <2>8. PlaceIsHeld' BY <2>2, <2>5 DEF ScanInv, PlaceIsHeld
    <2>9. StopIsKnown'
      BY <1>2, <2>2, <2>3, <2>5 DEF ScanInv, StopIsKnown, Ended
    <2>10. LimitIsAhead' BY <2>2, <2>3 DEF LimitIsAhead
    <2>11. EndedForAReason'
      BY <1>2, <2>2, <2>3, <2>5
      DEF ScanInv, EndedForAReason, is_every_read_started, NothingMoreIsRead,
          Ended
    <2> QED BY <2>4, <2>7, <2>8, <2>9, <2>10, <2>11 DEF ScanInv
  <1> QED BY <1>4, <1>5 DEF ConsumeResult

(* A condition variable may wake anyone.                                   *)
LEMMA SpuriousWakeInv ==
  ASSUME ScanInv, SpuriousWake
  PROVE  ScanInv'
  BY IdleReadInv, IdleSearchInv DEF SpuriousWake

-----------------------------------------------------------------------------
(* The specification *)

LEMMA StutterInv ==
  ASSUME ScanInv, UNCHANGED vars
  PROVE  ScanInv'
  <1>1. UNCHANGED <<sizes, schedule, reader, searcher>> BY DEF vars
  <1>2. UNCHANGED <<results, consumer>> BY DEF vars
  <1>3. TypeOK' BY <1>1, <1>2 DEF ScanInv, TypeOK
  <1>4. \A i : Started(i)' <=> Started(i)
    BY <1>1, <1>2, PoolsUnchanged DEF Started, IsResult
  <1>5. IsPanicked' <=> IsPanicked BY <1>1, <1>2 DEF IsPanicked
  <1>6. StopIsKnown' BY <1>1, <1>2, <1>5 DEF ScanInv, StopIsKnown
  <1>7. LimitIsAhead' BY <1>1, <1>2 DEF ScanInv, LimitIsAhead
  <1>8. StartedApart' /\ NoneIsLost'
    BY <1>1, <1>2, <1>4 DEF ScanInv, StartedApart, NoneIsLost
  <1>9. ReturnedIsOver'
    BY <1>1, <1>2, PoolsUnchanged DEF ScanInv, ReturnedIsOver
  <1> QED BY <1>1, <1>2, <1>3, <1>6, <1>7, <1>8, <1>9, PoolsUnchanged
          DEF ScanInv

LEMMA NextIsGood ==
  ASSUME ScanInv, [Next]_vars
  PROVE  ScanInv'
  <1>1. ASSUME NEW r \in Reader, ReadStep(r) PROVE ScanInv'
    BY <1>1, ClaimReadInv, FinishReadInv, PanicReadInv DEF ReadStep
  <1>2. ASSUME NEW s \in Searcher, SearchStep(s) PROVE ScanInv'
    BY <1>2, TakeReadInv, FinishSearchInv, PanicSearchInv, SendResultInv
    DEF SearchStep
  <1>3. CASE CallerStep
    BY <1>3, ReceiveResultInv, ConsumeResultInv, PanicConsumeInv, ReturnInv
    DEF CallerStep
  <1>4. CASE SpuriousWake BY <1>4, SpuriousWakeInv
  <1>5. CASE UNCHANGED vars BY <1>5, StutterInv
  <1> QED BY <1>1, <1>2, <1>3, <1>4, <1>5 DEF Next

(* In every reachable state the scan's bookkeeping agrees with where the   *)
(* items and the threads are: no item is lost or kept twice.               *)
THEOREM ScanIsSafe == Spec => []ScanInv
  BY InitIsGood, NextIsGood, PTL DEF Spec

(* The schedule of ordered_scan.rs, its threads and the caller hold what   *)
(* their types allow, however many items and threads there are.            *)
THEOREM ScanTypeCorrect == Spec => []TypeOK
  <1>1. ScanInv => TypeOK BY DEF ScanInv
  <1> QED BY <1>1, ScanIsSafe, PTL

(* No thread of the pools waits on the condition variable while there is   *)
(* something for it to do, and none waits for a scan that is over: every   *)
(* change that gives a waiting thread work comes with a notify_all.        *)
THEOREM NoWakeupIsLost == Spec => []NoLostWakeup
  <1>1. ScanInv => NoLostWakeup BY DEF ScanInv
  <1> QED BY <1>1, ScanIsSafe, PTL

-----------------------------------------------------------------------------
(* Deadlock and the promise to the caller *)

(* With every thread at rest and no result on its way, the caller's next   *)
(* item has not started, and all the room is free.                         *)
LEMMA AtRest ==
  ASSUME ScanInv, ~schedule.stopped,
         consumer.pc = "receive", results = <<>>, ~IsNextFinished,
         \A r \in Reader : reader[r].pc \in {"done", "wait"},
         \A s \in Searcher : searcher[s].pc \in {"done", "wait"}
  PROVE  /\ schedule.reading = 0
         /\ schedule.past_bound = None
         /\ consumer.consumed \in 0 .. N
         /\ consumer.consumed < N =>
              \/ consumer.consumed \in schedule.waiting
              \/ consumer.consumed >= schedule.next_read
  <1>1. /\ TypeOK /\ schedule \in Schedule /\ consumer \in Consumer
    BY DEF ScanInv, TypeOK
  <1>2. schedule.reading = 0
    <2>1. Claimers = {} BY DEF Claimers
    <2>2. ~(schedule.reading > 0) BY <1>1, <2>1, CountedReaders DEF ScanInv
    <2> QED BY <1>1, <2>2 DEF Schedule
  <1>3. schedule.read = {}
    <2>1. PICK s \in Searcher : TRUE BY PoolAssumption
    <2> QED BY <2>1 DEF ScanInv, NoLostWakeup, EndedForAReason
  <1>4. \A i : ~Held(i) /\ ~SenderHas(i) /\ ~IsResult(i)
    BY <1>3 DEF Held, ReaderHas, SearcherHas, SenderHas, IsResult
  <1>5. schedule.past_bound = None BY <1>4 DEF ScanInv, PlaceIsHeld
  <1>6. consumer.consumed \in 0 .. N BY <1>1 DEF Consumer
  <1>7. ASSUME consumer.consumed < N
        PROVE  \/ consumer.consumed \in schedule.waiting
               \/ consumer.consumed >= schedule.next_read
    <2>1. consumer.consumed \in Item BY <1>6, <1>7, ItemsAssumption DEF Item
    <2>2. ~Started(consumer.consumed)
      BY <1>4, <1>6 DEF Started, IsNextFinished
    <2> QED BY <2>1, <2>2 DEF ScanInv, NoneIsLost
  <1> QED BY <1>2, <1>5, <1>6, <1>7

(* Never do the pools and the caller wait for each other: if no thread can *)
(* run and there is no result for the caller, all threads have ended.  The *)
(* window holds the caller's next item, and nothing holds back its room.   *)
THEOREM ScanIsNeverStuck == Spec => []NeverStuck
  <1> SUFFICES ScanInv => NeverStuck BY ScanIsSafe, PTL
  <1> SUFFICES ASSUME ScanInv, IsBlocked(reader), IsBlocked(searcher),
                      consumer.pc = "receive", results = <<>>, ~IsNextFinished,
                      ~IsEveryThreadEnded
               PROVE  FALSE
    BY DEF NeverStuck
  <1>1. /\ TypeOK /\ schedule \in Schedule
        /\ reader \in [Reader -> ReadThread]
        /\ searcher \in [Searcher -> SearchThread]
    BY DEF ScanInv, TypeOK
  <1>2. /\ \A r \in Reader : reader[r].pc \in {"done", "panicked", "wait"}
        /\ \A s \in Searcher : searcher[s].pc \in {"done", "panicked", "wait"}
    BY <1>1 DEF IsBlocked, Ended
  <1>3. \/ \E r \in Reader : reader[r].pc = "wait"
        \/ \E s \in Searcher : searcher[s].pc = "wait"
    BY <1>2 DEF IsEveryThreadEnded, Ended
  <1>4. ~schedule.stopped BY <1>3 DEF ScanInv, NoLostWakeup
  <1>5. /\ \A r \in Reader : reader[r].pc \in {"done", "wait"}
        /\ \A s \in Searcher : searcher[s].pc \in {"done", "wait"}
    BY <1>2, <1>4 DEF ScanInv, StopIsKnown
  <1>6. /\ schedule.reading = 0 /\ schedule.past_bound = None
        /\ consumer.consumed \in 0 .. N
        /\ consumer.consumed < N =>
             \/ consumer.consumed \in schedule.waiting
             \/ consumer.consumed >= schedule.next_read
    BY <1>4, <1>5, AtRest
  <1>7. ~is_every_read_started(schedule)
    BY <1>3, <1>6 DEF ScanInv, NoLostWakeup, NothingMoreIsRead
  <1>8. Claimable(schedule) = {}
    <2>1. PICK r \in Reader : TRUE BY PoolAssumption
    <2>2. reader[r].pc = "wait"
      BY <1>4, <1>5, <1>7, <2>1 DEF ScanInv, EndedForAReason
    <2> QED BY <2>2 DEF ScanInv, NoLostWakeup
  <1>9. consumer.consumed = N
    <2>1. SUFFICES ASSUME consumer.consumed < N PROVE FALSE
      BY <1>6, ItemsAssumption
    <2>2. consumer.consumed < schedule.limit
      BY <1>1, <1>4, <1>6 DEF ScanInv, LimitIsAhead, StopIsKnown, Schedule
    <2>3. consumer.consumed \in schedule.waiting \cup Untried(schedule)
      BY <1>1, <1>6, <2>1, ItemsAssumption DEF Untried, Schedule
    <2>4. CanReserve(schedule, consumer.consumed) BY <1>6 DEF CanReserve
    <2> QED BY <1>8, <2>2, <2>3, <2>4 DEF Claimable
  <1>10. \A i \in Item : i < schedule.next_read /\ i \notin schedule.waiting
    BY <1>9, ItemsAssumption DEF ScanInv, StartedApart, Started, Item
  <1>11. schedule.waiting = {} BY <1>1, <1>10 DEF Schedule
  <1>12. schedule.next_read >= N
    <2>1. N - 1 \in Item BY ItemsAssumption DEF Item
    <2>2. N - 1 < schedule.next_read BY <1>10, <2>1
    <2> QED BY <1>1, <2>2, ItemsAssumption DEF Schedule
  <1> QED BY <1>7, <1>11, <1>12 DEF is_every_read_started

(* The pools' steps, as the caller sees them.                              *)
LEMMA PoolStepSeen ==
  ASSUME ScanInv, UNCHANGED consumer,
         \/ IsPanicked' <=> IsPanicked
         \/ IsPanicked' /\ ~IsEveryThreadEnded
  PROVE  [InOrder!Next]_InOrder!vars
  <1>1. CASE IsPanicked' <=> IsPanicked
    <2>1. IsPanicked' = IsPanicked BY <1>1 DEF IsPanicked
    <2> QED BY <2>1 DEF InOrder!vars
  <1>2. CASE IsPanicked' /\ ~IsEveryThreadEnded
    <2>1. consumer.pc # "returned" BY <1>2 DEF ScanInv, ReturnedIsOver
    <2>2. IsPanicked' = TRUE BY <1>2 DEF IsPanicked
    <2>3. InOrder!Panic BY <2>1, <2>2 DEF InOrder!Panic
    <2> QED BY <2>3 DEF InOrder!Next
  <1> QED BY <1>1, <1>2

(* Threads that were at rest, wake or start work: no panic.                *)
LEMMA NoPanic ==
  ASSUME UNCHANGED consumer,
         \A r \in Reader : reader'[r].pc = "panicked" <=> reader[r].pc = "panicked",
         \A s \in Searcher :
           searcher'[s].pc = "panicked" <=> searcher[s].pc = "panicked"
  PROVE  IsPanicked' <=> IsPanicked
  BY DEF IsPanicked

LEMMA ReadStepSeen ==
  ASSUME ScanInv, NEW r \in Reader, ReadStep(r)
  PROVE  [InOrder!Next]_InOrder!vars
  <1>1. /\ reader \in [Reader -> ReadThread]
        /\ searcher \in [Searcher -> SearchThread]
    BY DEF ScanInv, TypeOK
  <1>2. /\ Thread("ready").pc = "ready" /\ Thread("done").pc = "done"
        /\ Thread("wait").pc = "wait" /\ Thread("panicked").pc = "panicked"
    BY DEF Thread
  <1>3. CASE ClaimRead(r)
    <2>1. /\ reader[r].pc = "ready" /\ UNCHANGED <<searcher, consumer>>
          /\ reader'[r].pc # "panicked"
          /\ \A t \in Reader : t # r => reader'[t] = reader[t]
      BY <1>1, <1>2, <1>3 DEF ClaimRead
    <2>2. IsPanicked' <=> IsPanicked BY <2>1, NoPanic
    <2> QED BY <2>1, <2>2, PoolStepSeen
  <1>4. CASE FinishRead(r)
    <2> DEFINE readers == [reader EXCEPT ![r] = Thread("ready")]
    <2>1. /\ reader[r].pc = "read" /\ UNCHANGED consumer
          /\ reader' = Woken(readers) /\ searcher' = Woken(searcher)
      BY <1>4 DEF FinishRead
    <2>2. /\ DOMAIN readers = Reader /\ readers[r].pc = "ready"
          /\ \A t \in Reader : t # r => readers[t] = reader[t]
      BY <1>1, <1>2
    <2> HIDE DEF readers
    <2>3. /\ \A t \in Reader :
               reader'[t].pc = "panicked" <=> reader[t].pc = "panicked"
          /\ \A t \in Searcher :
               searcher'[t].pc = "panicked" <=> searcher[t].pc = "panicked"
      BY <1>1, <1>2, <2>1, <2>2, WokenThreads
    <2>4. IsPanicked' <=> IsPanicked BY <2>1, <2>3, NoPanic
    <2> QED BY <2>1, <2>4, PoolStepSeen
  <1>5. CASE PanicRead(r)
    <2> DEFINE readers == [reader EXCEPT ![r] = Thread("panicked")]
    <2>1. /\ reader[r].pc = "read" /\ UNCHANGED consumer
          /\ reader' = Woken(readers)
      BY <1>5 DEF PanicRead
    <2>2. reader'[r].pc = "panicked" BY <1>1, <1>2, <2>1, WokenThreads
    <2>3. IsPanicked' BY <2>2 DEF IsPanicked
    <2>4. ~IsEveryThreadEnded BY <2>1 DEF IsEveryThreadEnded, Ended
    <2> QED BY <2>1, <2>3, <2>4, PoolStepSeen
  <1> QED BY <1>3, <1>4, <1>5 DEF ReadStep

LEMMA SearchStepSeen ==
  ASSUME ScanInv, NEW s \in Searcher, SearchStep(s)
  PROVE  [InOrder!Next]_InOrder!vars
  <1>1. /\ reader \in [Reader -> ReadThread]
        /\ searcher \in [Searcher -> SearchThread]
    BY DEF ScanInv, TypeOK
  <1>2. /\ Thread("ready").pc = "ready" /\ Thread("done").pc = "done"
        /\ Thread("wait").pc = "wait" /\ Thread("panicked").pc = "panicked"
    BY DEF Thread
  <1>3. CASE TakeRead(s) \/ SendResult(s)
    <2>1. /\ searcher[s].pc \in {"ready", "send"}
          /\ UNCHANGED <<reader, consumer>>
          /\ searcher'[s].pc # "panicked"
          /\ \A t \in Searcher : t # s => searcher'[t] = searcher[t]
      BY <1>1, <1>2, <1>3 DEF TakeRead, SendResult
    <2>2. IsPanicked' <=> IsPanicked BY <2>1, NoPanic
    <2> QED BY <2>1, <2>2, PoolStepSeen
  <1>4. CASE FinishSearch(s)
    <2> DEFINE searchers == [searcher EXCEPT ![s].pc = "send"]
    <2>1. /\ searcher[s].pc = "search" /\ UNCHANGED consumer
          /\ reader' = Woken(reader) /\ searcher' = Woken(searchers)
      BY <1>4 DEF FinishSearch
    <2>2. /\ DOMAIN searchers = Searcher /\ searchers[s].pc = "send"
          /\ \A t \in Searcher : t # s => searchers[t] = searcher[t]
      BY <1>1 DEF SearchThread
    <2> HIDE DEF searchers
    <2>3. /\ \A t \in Reader :
               reader'[t].pc = "panicked" <=> reader[t].pc = "panicked"
          /\ \A t \in Searcher :
               searcher'[t].pc = "panicked" <=> searcher[t].pc = "panicked"
      BY <1>1, <1>2, <2>1, <2>2, WokenThreads
    <2>4. IsPanicked' <=> IsPanicked BY <2>1, <2>3, NoPanic
    <2> QED BY <2>1, <2>4, PoolStepSeen
  <1>5. CASE PanicSearch(s)
    <2> DEFINE searchers == [searcher EXCEPT ![s] = Thread("panicked")]
    <2>1. /\ searcher[s].pc = "search" /\ UNCHANGED consumer
          /\ searcher' = Woken(searchers)
      BY <1>5 DEF PanicSearch
    <2>2. searcher'[s].pc = "panicked" BY <1>1, <1>2, <2>1, WokenThreads
    <2>3. IsPanicked' BY <2>2 DEF IsPanicked
    <2>4. ~IsEveryThreadEnded BY <2>1 DEF IsEveryThreadEnded, Ended
    <2> QED BY <2>1, <2>3, <2>4, PoolStepSeen
  <1> QED BY <1>3, <1>4, <1>5 DEF SearchStep

(* A scan that nothing cut short returns with every result consumed.       *)
LEMMA ReturnIsComplete ==
  ASSUME ScanInv, Return
  PROVE  consumer.consumed = N \/ consumer.stopped \/ IsPanicked
  <1> SUFFICES ASSUME ~consumer.stopped, ~IsPanicked
               PROVE  consumer.consumed = N
    OBVIOUS
  <1>1. schedule \in Schedule BY DEF ScanInv, TypeOK
  <1>2. ~schedule.stopped BY DEF ScanInv, StopIsKnown
  <1>3. /\ \A r \in Reader : reader[r].pc = "done"
        /\ \A s \in Searcher : searcher[s].pc = "done"
    BY DEF Return, IsEveryThreadEnded, Ended, IsPanicked
  <1>4. /\ consumer.pc = "receive" /\ results = <<>> /\ ~IsNextFinished
    BY DEF Return
  <1>5. /\ consumer.consumed \in 0 .. N
        /\ consumer.consumed < N =>
             \/ consumer.consumed \in schedule.waiting
             \/ consumer.consumed >= schedule.next_read
    BY <1>2, <1>3, <1>4, AtRest
  <1>6. schedule.waiting = {} /\ schedule.next_read >= N
    <2>1. PICK r \in Reader : TRUE BY PoolAssumption
    <2> QED BY <1>2, <1>3, <2>1
            DEF ScanInv, EndedForAReason, is_every_read_started
  <1> QED BY <1>1, <1>5, <1>6, ItemsAssumption DEF Schedule

LEMMA CallerStepSeen ==
  ASSUME ScanInv, CallerStep
  PROVE  [InOrder!Next]_InOrder!vars
  <1>1. consumer \in Consumer BY DEF ScanInv, TypeOK
  <1>2. CASE ReceiveResult
    <2>1. /\ consumer.pc = "receive" /\ consumer'.pc = "receive"
          /\ consumer'.consumed = consumer.consumed
          /\ consumer'.stopped = consumer.stopped
          /\ UNCHANGED <<reader, searcher>>
      BY <1>1, <1>2 DEF ReceiveResult, Consumer
    <2>2. IsPanicked' = IsPanicked BY <2>1 DEF IsPanicked
    <2> QED BY <2>1, <2>2 DEF InOrder!vars
  <1>3. CASE ConsumeResult
    <2>1. /\ consumer.pc = "receive" /\ consumer'.pc = "receive"
          /\ consumer.consumed \in consumer.finished
          /\ consumer'.consumed = consumer.consumed + 1
          /\ consumer'.stopped \in BOOLEAN
          /\ reader' = Woken(reader) /\ searcher' = Woken(searcher)
      BY <1>1, <1>3 DEF ConsumeResult, IsNextFinished, Consumer
    <2>2. consumer.consumed < N
      BY <1>1, <2>1, ItemsAssumption DEF Consumer, Item
    <2>3. ~consumer.stopped BY <2>1 DEF ScanInv, StopIsKnown
    <2>4. Thread("ready").pc = "ready" BY DEF Thread
    <2>5. IsPanicked' <=> IsPanicked
      BY <2>1, <2>4, WokenThreads DEF ScanInv, TypeOK, IsPanicked
    <2>6. IsPanicked' = IsPanicked BY <2>5 DEF IsPanicked
    <2>7. InOrder!Consume
      BY <2>1, <2>2, <2>3, <2>6 DEF InOrder!Consume
    <2> QED BY <2>7 DEF InOrder!Next
  <1>4. CASE PanicConsume
    <2>1. /\ consumer.pc = "receive" /\ consumer'.pc = "panicked"
          /\ consumer'.consumed = consumer.consumed
          /\ consumer'.stopped = consumer.stopped
      BY <1>1, <1>4 DEF PanicConsume, Consumer
    <2>2. IsPanicked' = TRUE BY <2>1 DEF IsPanicked
    <2>3. InOrder!Panic BY <2>1, <2>2 DEF InOrder!Panic
    <2> QED BY <2>3 DEF InOrder!Next
  <1>5. CASE Return
    <2>1. /\ consumer.pc = "receive" /\ consumer'.pc = "returned"
          /\ consumer'.consumed = consumer.consumed
          /\ consumer'.stopped = consumer.stopped
          /\ UNCHANGED <<reader, searcher>>
      BY <1>1, <1>5 DEF Return, Consumer
    <2>2. IsPanicked' = IsPanicked BY <2>1 DEF IsPanicked
    <2>3. consumer.consumed = N \/ consumer.stopped \/ IsPanicked
      BY <1>5, ReturnIsComplete
    <2>4. InOrder!Return BY <2>1, <2>2, <2>3 DEF InOrder!Return
    <2> QED BY <2>4 DEF InOrder!Next
  <1> QED BY <1>2, <1>3, <1>4, <1>5 DEF CallerStep

LEMMA SpuriousWakeSeen ==
  ASSUME ScanInv, SpuriousWake
  PROVE  [InOrder!Next]_InOrder!vars
  <1>1. /\ reader \in [Reader -> ReadThread]
        /\ searcher \in [Searcher -> SearchThread]
    BY DEF ScanInv, TypeOK
  <1>2. Thread("ready").pc = "ready" BY DEF Thread
  <1>3. IsPanicked' <=> IsPanicked
    BY <1>1, <1>2, NoPanic DEF SpuriousWake
  <1>4. UNCHANGED consumer BY DEF SpuriousWake
  <1> QED BY <1>3, <1>4, PoolStepSeen

(* The scan keeps the promise of InOrderScan: it hands over the results    *)
(* one after the other, none once the caller has said to stop, and unless  *)
(* it was stopped or a closure panicked it returns only after the last.    *)
THEOREM ScanImplementsInOrder == Spec => ImplementsInOrder
  <1>1. Init => InOrder!Init
    <2> SUFFICES ASSUME Init PROVE InOrder!Init OBVIOUS
    <2>1. /\ consumer.consumed = 0 /\ consumer.stopped = FALSE
          /\ consumer.pc = "receive"
      BY DEF Init
    <2>2. /\ \A r \in Reader : reader[r].pc = "ready"
          /\ \A s \in Searcher : searcher[s].pc = "ready"
      BY DEF Init, Thread
    <2>3. IsPanicked = FALSE BY <2>1, <2>2 DEF IsPanicked
    <2>4. (consumer.pc = "returned") = FALSE BY <2>1
    <2> QED BY <2>1, <2>3, <2>4 DEF InOrder!Init
  <1>2. ScanInv /\ [Next]_vars => [InOrder!Next]_InOrder!vars
    <2> SUFFICES ASSUME ScanInv, [Next]_vars
                 PROVE  [InOrder!Next]_InOrder!vars
      OBVIOUS
    <2>1. CASE UNCHANGED vars
      <3>1. UNCHANGED <<reader, searcher, consumer>> BY <2>1 DEF vars
      <3>2. IsPanicked' <=> IsPanicked BY <3>1, NoPanic
      <3> QED BY <3>1, <3>2, PoolStepSeen
    <2> QED BY <2>1, ReadStepSeen, SearchStepSeen, CallerStepSeen,
               SpuriousWakeSeen DEF Next
  <1> QED BY <1>1, <1>2, ScanIsSafe, PTL DEF Spec, ImplementsInOrder, InOrder!Spec

-----------------------------------------------------------------------------
(* What a step may never do *)

(* The limit is the window past what the caller has consumed; after a stop *)
(* it stays behind.                                                        *)
LimitIsWindow ==
  ~consumer.stopped =>
    schedule.limit = consumer.consumed + window(consumer.wanted)

(* A thread that a step has left at work was at work on the same item.     *)
ReadersKeepOn ==
  \A r \in Reader : reader'[r].pc = "read" => reader'[r] = reader[r]
SearchersKeepOn ==
  \A s \in Searcher : searcher'[s].pc = "search" => searcher'[s] = searcher[s]

-----------------------------------------------------------------------------
(* Who sets a thread to work *)

(* notify_all sets nobody to work.                                         *)
LEMMA WokenKeepOn ==
  ASSUME NEW threads, NEW t \in DOMAIN threads, NEW pc \in {"read", "search"},
         Woken(threads)[t].pc = pc
  PROVE  Woken(threads)[t] = threads[t]
  <1>1. Thread("ready").pc = "ready" BY DEF Thread
  <1> QED BY <1>1, WokenThreads

LEMMA ReadStepKeepsOn ==
  ASSUME ScanInv, NEW r \in Reader, ReadStep(r)
  PROVE  /\ SearchersKeepOn
         /\ ReadersKeepOn \/ (ClaimRead(r) /\ ~schedule.stopped)
  <1>1. /\ reader \in [Reader -> ReadThread]
        /\ searcher \in [Searcher -> SearchThread]
    BY DEF ScanInv, TypeOK
  <1>2. \A pc \in {"ready", "done", "panicked"} : Thread(pc).pc = pc
    BY DEF Thread
  <1>3. CASE ClaimRead(r)
    <2>1. UNCHANGED searcher BY <1>3 DEF ClaimRead
    <2>2. SearchersKeepOn BY <2>1 DEF SearchersKeepOn
    <2>3. CASE schedule.stopped
      <3>1. reader' = [reader EXCEPT ![r] = Thread("done")]
        BY <1>3, <2>3 DEF ClaimRead
      <3> QED BY <1>1, <1>2, <2>2, <3>1 DEF ReadersKeepOn
    <2> QED BY <1>3, <2>2, <2>3
  <1>4. CASE FinishRead(r) \/ PanicRead(r)
    <2>1. PICK pc \in {"ready", "panicked"} :
            /\ reader' = Woken([reader EXCEPT ![r] = Thread(pc)])
            /\ searcher' = Woken(searcher)
      BY <1>4 DEF FinishRead, PanicRead
    <2> DEFINE readers == [reader EXCEPT ![r] = Thread(pc)]
    <2>2. /\ DOMAIN readers = Reader /\ readers[r].pc = pc
          /\ \A t \in Reader : t # r => readers[t] = reader[t]
      BY <1>1, <1>2
    <2> HIDE DEF readers
    <2>3. reader' = Woken(readers) BY <2>1 DEF readers
    <2>4. ReadersKeepOn
      BY <2>2, <2>3, WokenKeepOn DEF ReadersKeepOn
    <2>5. SearchersKeepOn
      BY <1>1, <2>1, WokenKeepOn DEF SearchersKeepOn
    <2> QED BY <2>4, <2>5
  <1> QED BY <1>3, <1>4 DEF ReadStep

LEMMA SearchStepKeepsOn ==
  ASSUME ScanInv, NEW s \in Searcher, SearchStep(s)
  PROVE  /\ ReadersKeepOn
         /\ SearchersKeepOn \/ ~schedule.stopped
  <1>1. /\ reader \in [Reader -> ReadThread]
        /\ searcher \in [Searcher -> SearchThread]
    BY DEF ScanInv, TypeOK
  <1>2. \A pc \in {"ready", "done", "panicked"} : Thread(pc).pc = pc
    BY DEF Thread
  <1>3. CASE TakeRead(s)
    <2>1. UNCHANGED reader BY <1>3 DEF TakeRead
    <2>2. ReadersKeepOn BY <2>1 DEF ReadersKeepOn
    <2>3. CASE schedule.stopped
      <3>1. searcher' = [searcher EXCEPT ![s] = Thread("done")]
        BY <1>3, <2>3 DEF TakeRead
      <3> QED BY <1>1, <1>2, <2>2, <3>1 DEF SearchersKeepOn
    <2> QED BY <2>2, <2>3
  <1>4. CASE SendResult(s)
    <2>1. UNCHANGED reader BY <1>4 DEF SendResult
    <2>2. PICK pc \in {"ready", "done"} :
            searcher' = [searcher EXCEPT ![s] = Thread(pc)]
      BY <1>4 DEF SendResult
    <2> QED BY <1>1, <1>2, <2>1, <2>2 DEF ReadersKeepOn, SearchersKeepOn
  <1>5. CASE FinishSearch(s) \/ PanicSearch(s)
    <2>1. PICK searchers :
            /\ searchers \in {[searcher EXCEPT ![s].pc = "send"],
                              [searcher EXCEPT ![s] = Thread("panicked")]}
            /\ searcher' = Woken(searchers) /\ reader' = Woken(reader)
      BY <1>5 DEF FinishSearch, PanicSearch
    <2>2. /\ DOMAIN searchers = Searcher
          /\ searchers[s].pc \in {"send", "panicked"}
          /\ \A t \in Searcher : t # s => searchers[t] = searcher[t]
      BY <1>1, <1>2, <2>1 DEF SearchThread
    <2>3. SearchersKeepOn
      BY <2>1, <2>2, WokenKeepOn DEF SearchersKeepOn
    <2>4. ReadersKeepOn BY <1>1, <2>1, WokenKeepOn DEF ReadersKeepOn
    <2> QED BY <2>3, <2>4
  <1> QED BY <1>3, <1>4, <1>5 DEF SearchStep

LEMMA OtherStepKeepsOn ==
  ASSUME ScanInv, CallerStep \/ SpuriousWake \/ UNCHANGED vars
  PROVE  ReadersKeepOn /\ SearchersKeepOn
  <1>1. /\ reader \in [Reader -> ReadThread]
        /\ searcher \in [Searcher -> SearchThread]
    BY DEF ScanInv, TypeOK
  <1>2. Thread("ready").pc = "ready" BY DEF Thread
  <1>3. CASE UNCHANGED <<reader, searcher>>
    BY <1>3 DEF ReadersKeepOn, SearchersKeepOn
  <1>4. CASE ConsumeResult
    <2>1. reader' = Woken(reader) /\ searcher' = Woken(searcher)
      BY <1>4 DEF ConsumeResult
    <2> QED BY <1>1, <2>1, WokenKeepOn DEF ReadersKeepOn, SearchersKeepOn
  <1>5. CASE SpuriousWake
    BY <1>1, <1>2, <1>5 DEF SpuriousWake, ReadersKeepOn, SearchersKeepOn
  <1> QED BY <1>3, <1>4, <1>5
          DEF CallerStep, ReceiveResult, PanicConsume, Return, vars

-----------------------------------------------------------------------------
(* After a stop *)

(* Once the caller has said to stop, no read and no search starts: the     *)
(* stop is in the schedule before the caller lets go of the mutex.         *)
THEOREM NothingStarts == Spec => NothingStartsAfterStop
  <1> DEFINE Quiet == consumer.stopped =>
               \A i \in Item : ~StartsReading(i) /\ ~StartsSearching(i)
  <1>1. ScanInv /\ [Next]_vars => [Quiet]_vars
    <2> SUFFICES ASSUME ScanInv, [Next]_vars, consumer.stopped,
                        NEW i \in Item
                 PROVE  ~StartsReading(i) /\ ~StartsSearching(i)
      OBVIOUS
    <2>1. schedule.stopped BY DEF ScanInv, StopIsKnown
    <2>2. ReadersKeepOn /\ SearchersKeepOn
      BY <2>1, ReadStepKeepsOn, SearchStepKeepsOn, OtherStepKeepsOn DEF Next
    <2>3. ~StartsReading(i)
      BY <2>2 DEF StartsReading, Reading, ReadersKeepOn
    <2>4. ~StartsSearching(i)
      BY <2>2 DEF StartsSearching, Searching, SearchersAt, SearchersKeepOn
    <2> QED BY <2>3, <2>4
  <1> QED BY <1>1, ScanIsSafe, PTL DEF Spec, NothingStartsAfterStop

-----------------------------------------------------------------------------
(* In order *)

LEMMA InitLimit == Init => LimitIsWindow
  <1> SUFFICES ASSUME Init PROVE LimitIsWindow OBVIOUS
  <1>1. PICK first_wanted \in Wanted :
          /\ schedule.limit = window(first_wanted)
          /\ consumer.consumed = 0 /\ consumer.wanted = first_wanted
    BY DEF Init
  <1>2. window(first_wanted) \in Nat
    BY PoolAssumption, DataAssumption DEF window, Larger
  <1> QED BY <1>1, <1>2 DEF LimitIsWindow

(* The pools leave the limit as it is.                                     *)
LEMMA PoolsKeepLimit ==
  ASSUME ScanInv,
         \/ \E r \in Reader : ReadStep(r)
         \/ \E s \in Searcher : SearchStep(s)
         \/ SpuriousWake
  PROVE  schedule'.limit = schedule.limit /\ UNCHANGED consumer
  <1>1. TypeOK /\ schedule \in Schedule BY DEF ScanInv, TypeOK
  <1>2. ASSUME NEW r \in Reader, ClaimRead(r)
        PROVE  schedule'.limit = schedule.limit /\ UNCHANGED consumer
    <2>1. \/ UNCHANGED schedule
          \/ \E position \in Claimable(schedule) :
               schedule' = claim_next(schedule, position)
          \/ schedule' = claim_none(schedule)
      BY <1>2 DEF ClaimRead
    <2> QED BY <1>1, <1>2, <2>1, ClaimNext, ClaimNone DEF ClaimRead
  <1>3. ASSUME NEW r \in Reader, FinishRead(r) \/ PanicRead(r)
        PROVE  schedule'.limit = schedule.limit /\ UNCHANGED consumer
    BY <1>1, <1>3 DEF FinishRead, PanicRead, Schedule
  <1>4. ASSUME NEW s \in Searcher, FinishSearch(s)
        PROVE  schedule'.limit = schedule.limit /\ UNCHANGED consumer
    <2>1. searcher[s].position \in Item
      BY <1>4 DEF FinishSearch, ScanInv, ThreadsHoldItems
    <2> QED BY <1>1, <1>4, <2>1, FinishSearchFields DEF FinishSearch
  <1>5. ASSUME NEW s \in Searcher, TakeRead(s) \/ PanicSearch(s) \/ SendResult(s)
        PROVE  schedule'.limit = schedule.limit /\ UNCHANGED consumer
    BY <1>1, <1>5 DEF TakeRead, PanicSearch, SendResult, Schedule
  <1>6. CASE SpuriousWake BY <1>6 DEF SpuriousWake
  <1> QED BY <1>2, <1>3, <1>4, <1>5, <1>6 DEF ReadStep, SearchStep

LEMMA NextLimit ==
  ASSUME ScanInv, LimitIsWindow, [Next]_vars
  PROVE  LimitIsWindow'
  <1>1. TypeOK /\ schedule \in Schedule /\ consumer \in Consumer
    BY DEF ScanInv, TypeOK
  <1>2. CASE UNCHANGED vars BY <1>2 DEF vars, LimitIsWindow
  <1>3. CASE \/ \E r \in Reader : ReadStep(r)
             \/ \E s \in Searcher : SearchStep(s)
             \/ SpuriousWake
    BY <1>3, PoolsKeepLimit DEF LimitIsWindow
  <1>4. CASE ReceiveResult \/ PanicConsume \/ Return
    <2>1. /\ UNCHANGED schedule
          /\ consumer'.consumed = consumer.consumed
          /\ consumer'.stopped = consumer.stopped
          /\ consumer'.wanted = consumer.wanted
      BY <1>1, <1>4 DEF ReceiveResult, PanicConsume, Return, Consumer
    <2> QED BY <2>1 DEF LimitIsWindow
  <1>5. CASE ConsumeResult
    <2>1. \/ consumer'.stopped
          \/ \E more_wanted \in Wanted :
               /\ schedule'.limit =
                    consumer.consumed + 1 + window(more_wanted)
               /\ consumer'.consumed = consumer.consumed + 1
               /\ consumer'.wanted = more_wanted
      BY <1>1, <1>5 DEF ConsumeResult, Schedule, Consumer
    <2> QED BY <2>1 DEF LimitIsWindow
  <1> QED BY <1>2, <1>3, <1>4, <1>5 DEF Next, CallerStep

(* In every reachable state the limit is the window past what the caller   *)
(* has consumed, until it stops.                                           *)
LEMMA LimitFollowsCaller == Spec => [](ScanInv /\ LimitIsWindow)
  BY InitIsGood, InitLimit, NextIsGood, NextLimit, PTL DEF Spec

(* A read starts within the window past the last result consumed, and only *)
(* when no earlier item that has not started has room: items that waited   *)
(* for room are not overtaken by later ones once they have it.             *)
THEOREM ReadsAreInOrder == Spec => ReadsStartInOrder
  <1> DEFINE InTurn == \A i \in Item : StartsReading(i) =>
               /\ i < consumer.consumed + window(consumer.wanted)
               /\ \A j \in schedule.waiting \cup Untried(schedule) :
                    j < i => ~CanReserve(schedule, j)
  <1>1. ScanInv /\ LimitIsWindow /\ [Next]_vars => [InTurn]_vars
    <2> SUFFICES ASSUME ScanInv, LimitIsWindow, [Next]_vars,
                        NEW i \in Item, StartsReading(i)
                 PROVE  /\ i < consumer.consumed + window(consumer.wanted)
                        /\ \A j \in schedule.waiting \cup Untried(schedule) :
                             j < i => ~CanReserve(schedule, j)
      OBVIOUS
    <2>1. schedule \in Schedule /\ reader \in [Reader -> ReadThread]
      BY DEF ScanInv, TypeOK
    <2>2. ~ReadersKeepOn BY DEF StartsReading, Reading, ReadersKeepOn
    <2>3. PICK r \in Reader : ClaimRead(r) /\ ~schedule.stopped
      BY <2>2, ReadStepKeepsOn, SearchStepKeepsOn, OtherStepKeepsOn DEF Next
    <2>4. PICK t \in Reader :
            /\ reader'[t].pc = "read" /\ reader'[t].position = i
            /\ ~(reader[t].pc = "read" /\ reader[t].position = i)
      BY DEF StartsReading, Reading
    <2>5. PICK position \in Claimable(schedule) :
            /\ \A other \in Claimable(schedule) : position <= other
            /\ reader' = [reader EXCEPT
                 ![r] = [pc |-> "read", position |-> position]]
      <3>1. /\ Thread("done").pc = "done" /\ Thread("wait").pc = "wait"
        BY DEF Thread
      <3> QED BY <2>1, <2>3, <2>4, <3>1 DEF ClaimRead
    <2>6. i = position BY <2>1, <2>4, <2>5
    <2>7. i < schedule.limit BY <2>6 DEF Claimable
    <2>8. ~consumer.stopped BY <2>3 DEF ScanInv, StopIsKnown
    <2>9. ASSUME NEW j \in schedule.waiting \cup Untried(schedule), j < i,
                 CanReserve(schedule, j)
          PROVE  FALSE
      <3>1. j \in Int /\ i \in Int /\ schedule.limit \in Int
        BY <2>1, <2>9, ItemsAssumption DEF Schedule, Untried, Item
      <3>2. j < schedule.limit BY <2>7, <2>9, <3>1
      <3>3. j \in Claimable(schedule) BY <2>9, <3>2 DEF Claimable
      <3>4. i <= j BY <2>5, <2>6, <3>3
      <3> QED BY <2>9, <3>1, <3>4
    <2> QED BY <2>7, <2>8, <2>9 DEF LimitIsWindow
  <1> QED BY <1>1, LimitFollowsCaller, PTL DEF Spec, ReadsStartInOrder

-----------------------------------------------------------------------------
(* Each item once *)

(* The place p holds item i, once it has started.                          *)
At(i, p) ==
  \/ p = <<"read", 0>> /\ i \in schedule.read
  \/ p = <<"finished", 0>> /\ i \in consumer.finished
  \/ p = <<"consumed", 0>> /\ i < consumer.consumed
  \/ \E r \in Reader : p = <<"reading", r>> /\ reader[r].position = i
  \/ \E s \in Searcher : p = <<"searching", s>> /\ searcher[s].position = i
  \/ \E k \in DOMAIN results : p = <<"result", k>> /\ results[k] = i

InOnePlace(i) == \A p, q : At(i, p) /\ At(i, q) => p = q

(* A thread that is not at work on an item has none.                       *)
IdleHoldNone ==
  /\ \A r \in Reader : reader[r].pc # "read" => reader[r].position = None
  /\ \A s \in Searcher :
       searcher[s].pc \notin {"search", "send"} => searcher[s].position = None

OnceInv == IdleHoldNone /\ \A i \in Item : InOnePlace(i)

(* notify_all leaves every thread with what it had.                        *)
LEMMA WokenHoldTheSame ==
  ASSUME NEW threads,
         \A t \in DOMAIN threads :
           threads[t].pc = "wait" => threads[t].position = None
  PROVE  \A t \in DOMAIN threads : Woken(threads)[t].position = threads[t].position
  <1>1. Thread("ready").position = None BY DEF Thread
  <1> QED BY <1>1, WokenThreads

(* An item that moves on, or leaves, is again in one place.                *)
LEMMA MovesOn ==
  ASSUME NEW i, InOnePlace(i), NEW from, NEW to,
         At(i, from) \/ \A p : ~At(i, p),
         \A p : At(i, p)' => p = to \/ (At(i, p) /\ p # from)
  PROVE  InOnePlace(i)'
  BY DEF InOnePlace

LEMMA StaysOrLeaves ==
  ASSUME NEW i, InOnePlace(i), \A p : At(i, p)' => At(i, p)
  PROVE  InOnePlace(i)'
  BY DEF InOnePlace

(* Every place of an item that has started is one where ScanInv knows it.  *)
LEMMA AtIsStarted ==
  ASSUME ScanInv, IdleHoldNone, NEW i \in Item, NEW p, At(i, p)
  PROVE  Started(i)
  <1>1. i # None BY DataAssumption DEF Item
  <1>2. results \in Seq(Item) BY DEF ScanInv, TypeOK
  <1> QED BY <1>1, <1>2
          DEF At, Started, Held, ReaderHas, SearcherHas, SenderHas, IsResult,
              IdleHoldNone

LEMMA InitOnce == Init => OnceInv
  <1> SUFFICES ASSUME Init PROVE OnceInv OBVIOUS
  <1>1. /\ \A r \in Reader : reader[r].position = None
        /\ \A s \in Searcher : searcher[s].position = None
        /\ schedule.read = {} /\ results = <<>>
        /\ consumer.finished = {} /\ consumer.consumed = 0
    BY DEF Init, Thread
  <1>2. \A i \in Item : i # None /\ ~(i < 0) BY DataAssumption DEF Item
  <1>3. \A i \in Item : \A p : ~At(i, p) BY <1>1, <1>2 DEF At
  <1> QED BY <1>1, <1>3 DEF OnceInv, IdleHoldNone, InOnePlace

LEMMA ReadStepOnce ==
  ASSUME ScanInv, OnceInv, NEW r \in Reader, ReadStep(r)
  PROVE  OnceInv'
  <1>1. /\ TypeOK /\ reader \in [Reader -> ReadThread]
        /\ searcher \in [Searcher -> SearchThread] /\ schedule \in Schedule
    BY DEF ScanInv, TypeOK
  <1>2. /\ IdleHoldNone /\ UNCHANGED <<results, consumer>>
        /\ \A i \in Item : InOnePlace(i) /\ i # None
    BY DataAssumption
    DEF OnceInv, ReadStep, ClaimRead, FinishRead, PanicRead, Item
  <1>3. \A pc \in {"ready", "wait", "done", "panicked"} :
          Thread(pc).pc = pc /\ Thread(pc).position = None
    BY DEF Thread
  <1>4. CASE /\ ClaimRead(r) /\ schedule'.read = schedule.read
             /\ \E pc \in {"done", "wait"} :
                  reader' = [reader EXCEPT ![r] = Thread(pc)]
    <2>1. UNCHANGED searcher BY <1>4 DEF ClaimRead
    <2>2. /\ \A t \in Reader : reader'[t].position = None
                               \/ reader'[t] = reader[t]
          /\ reader'[r].pc # "read" /\ reader'[r].position = None
      BY <1>1, <1>3, <1>4
    <2>3. IdleHoldNone'
      BY <1>1, <1>2, <1>3, <1>4, <2>1 DEF IdleHoldNone
    <2>4. \A i \in Item : \A p : At(i, p)' => At(i, p)
      BY <1>2, <1>4, <2>1, <2>2 DEF At
    <2> QED BY <1>2, <2>3, <2>4, StaysOrLeaves DEF OnceInv
  <1>5. CASE /\ ClaimRead(r)
             /\ \E position \in Claimable(schedule) :
                  /\ schedule' = claim_next(schedule, position)
                  /\ reader' = [reader EXCEPT
                       ![r] = [pc |-> "read", position |-> position]]
    <2>1. PICK position \in Claimable(schedule) :
                  /\ schedule' = claim_next(schedule, position)
                  /\ reader' = [reader EXCEPT
                       ![r] = [pc |-> "read", position |-> position]]
      BY <1>5
    <2>2. /\ position \in Item /\ schedule'.read = schedule.read
          /\ position \in schedule.waiting \/ position >= schedule.next_read
      BY <1>1, <2>1, ClaimNext
    <2>3. UNCHANGED searcher BY <1>5 DEF ClaimRead
    <2>4. \A p : ~At(position, p)
      <3>1. ~Started(position)
        BY <1>1, <2>2 DEF ScanInv, StartedApart, Schedule, Item
      <3> QED BY <1>2, <2>2, <3>1, AtIsStarted
    <2>5. IdleHoldNone' BY <1>1, <1>2, <2>1, <2>3 DEF IdleHoldNone
    <2>6. /\ reader'[r].position = position
          /\ \A t \in Reader : t # r => reader'[t] = reader[t]
      BY <1>1, <2>1
    <2>7. InOnePlace(position)'
      <3>1. \A p : At(position, p)' => p = <<"reading", r>> \/ At(position, p)
        BY <1>2, <2>2, <2>3, <2>6 DEF At
      <3> QED BY <1>2, <2>2, <2>4, <3>1, MovesOn
    <2>8. \A i \in Item \ {position} : InOnePlace(i)'
      <3>1. \A i \in Item \ {position} : \A p : At(i, p)' => At(i, p)
        BY <1>2, <2>2, <2>3, <2>6 DEF At
      <3> QED BY <1>2, <3>1, StaysOrLeaves
    <2> QED BY <2>5, <2>7, <2>8 DEF OnceInv
  <1>6. CASE FinishRead(r) \/ PanicRead(r)
    <2>0. PICK item : item = reader[r].position OBVIOUS
    <2>1. PICK pc \in {"ready", "panicked"} :
            /\ reader[r].pc = "read"
            /\ reader' = Woken([reader EXCEPT ![r] = Thread(pc)])
            /\ searcher' = Woken(searcher)
            /\ schedule'.read \subseteq schedule.read \cup {item}
      BY <1>1, <1>6, <2>0 DEF FinishRead, PanicRead, Schedule
    <2>2. item \in Item BY <2>0, <2>1 DEF ScanInv, ThreadsHoldItems
    <2> DEFINE readers == [reader EXCEPT ![r] = Thread(pc)]
    <2>3. /\ DOMAIN readers = Reader /\ readers[r].position = None
          /\ readers[r].pc = pc
          /\ \A t \in Reader : t # r => readers[t] = reader[t]
      BY <1>1, <1>3
    <2> HIDE DEF readers
    <2>4. reader' = Woken(readers) BY <2>1 DEF readers
    <2>5. /\ \A t \in Reader : reader'[t].position = readers[t].position
          /\ \A t \in Searcher : searcher'[t].position = searcher[t].position
      BY <1>1, <1>2, <2>1, <2>3, <2>4, WokenHoldTheSame DEF IdleHoldNone
    <2>6. /\ \A t \in Reader : reader'[t].pc = "read" <=> readers[t].pc = "read"
          /\ \A t \in Searcher :
               /\ searcher'[t].pc = "search" <=> searcher[t].pc = "search"
               /\ searcher'[t].pc = "send" <=> searcher[t].pc = "send"
      BY <1>1, <1>3, <2>1, <2>3, <2>4, WokenThreads
    <2>7. IdleHoldNone'
      <3>1. ASSUME NEW t \in Reader, reader'[t].pc # "read"
            PROVE  reader'[t].position = None
        BY <1>2, <2>3, <2>5, <2>6, <3>1 DEF IdleHoldNone
      <3>2. ASSUME NEW t \in Searcher, searcher'[t].pc \notin {"search", "send"}
            PROVE  searcher'[t].position = None
        BY <1>2, <2>5, <2>6, <3>2 DEF IdleHoldNone
      <3> QED BY <3>1, <3>2 DEF IdleHoldNone
    <2>8. InOnePlace(item)'
      <3>1. At(item, <<"reading", r>>) BY <2>0 DEF At
      <3>2. item # None BY <1>2, <2>2
      <3>3. ASSUME NEW p, At(item, p)'
            PROVE  p = <<"read", 0>> \/ (At(item, p) /\ p # <<"reading", r>>)
        <4>1. \A t \in Reader : reader'[t].position = item =>
                t # r /\ reader[t].position = item
          BY <2>3, <2>5, <3>2
        <4>2. CASE \E t \in Reader :
                     p = <<"reading", t>> /\ reader'[t].position = item
          <5>1. PICK t \in Reader :
                  p = <<"reading", t>> /\ reader'[t].position = item
            BY <4>2
          <5>2. p[2] = t /\ t # r /\ reader[t].position = item BY <4>1, <5>1
          <5>3. At(item, p) BY <5>1, <5>2 DEF At
          <5> QED BY <5>2, <5>3
        <4>3. CASE ~\E t \in Reader :
                     p = <<"reading", t>> /\ reader'[t].position = item
          <5>1. p = <<"read", 0>> \/ At(item, p)
            BY <1>2, <2>1, <2>5, <3>3, <4>3 DEF At
          <5>2. p[1] # "reading" BY <3>3, <4>3 DEF At
          <5> QED BY <5>1, <5>2
        <4> QED BY <4>2, <4>3
      <3> QED BY <1>2, <2>2, <3>1, <3>3, MovesOn
    <2>9. \A i \in Item \ {item} : InOnePlace(i)'
      <3>1. ASSUME NEW i \in Item \ {item}
            PROVE  \A p : At(i, p)' => At(i, p)
        <4>1. i # None BY <1>2
        <4>2. \A t \in Reader : reader'[t].position = i => reader[t].position = i
          BY <2>3, <2>5, <4>1
        <4> QED BY <1>2, <2>1, <2>5, <3>1, <4>2 DEF At
      <3> QED BY <1>2, <3>1, StaysOrLeaves
    <2> QED BY <2>7, <2>8, <2>9 DEF OnceInv
  <1>7. CASE ClaimRead(r)
    <2>1. schedule' = claim_none(schedule) => schedule'.read = schedule.read
      BY <1>1, ClaimNone
    <2> QED BY <1>4, <1>5, <1>7, <2>1 DEF ClaimRead
  <1> QED BY <1>6, <1>7 DEF ReadStep

(* What FinishSearch, PanicSearch and ConsumeResult have in common: all    *)
(* threads are woken, and those of one pool are where `threads` says.      *)
LEMMA WokenOnce ==
  ASSUME ScanInv, IdleHoldNone, NEW threads,
         reader' = Woken(reader), searcher' = Woken(threads),
         DOMAIN threads = Searcher,
         \A t \in Searcher :
           threads[t].pc \notin {"search", "send"} => threads[t].position = None
  PROVE  /\ IdleHoldNone'
         /\ \A t \in Reader : reader'[t].position = reader[t].position
         /\ \A t \in Searcher : searcher'[t].position = threads[t].position
  <1>1. reader \in [Reader -> ReadThread] BY DEF ScanInv, TypeOK
  <1>2. Thread("ready").pc = "ready" /\ Thread("ready").position = None
    BY DEF Thread
  <1>3. /\ \A t \in Reader : reader'[t].position = reader[t].position
        /\ \A t \in Searcher : searcher'[t].position = threads[t].position
    BY <1>1, WokenHoldTheSame DEF IdleHoldNone
  <1>4. /\ \A t \in Reader : reader'[t].pc # "read" => reader[t].pc # "read"
        /\ \A t \in Searcher : searcher'[t].pc \notin {"search", "send"}
                                 => threads[t].pc \notin {"search", "send"}
    BY <1>1, <1>2, WokenThreads
  <1>5. IdleHoldNone' BY <1>3, <1>4 DEF IdleHoldNone
  <1> QED BY <1>3, <1>5

LEMMA TakeReadOnce ==
  ASSUME ScanInv, OnceInv, NEW s \in Searcher, TakeRead(s)
  PROVE  OnceInv'
  <1>1. /\ searcher \in [Searcher -> SearchThread] /\ schedule \in Schedule
    BY DEF ScanInv, TypeOK
  <1>2. /\ IdleHoldNone /\ UNCHANGED <<reader, results, consumer>>
        /\ \A i \in Item : InOnePlace(i) /\ i # None
    BY DataAssumption DEF OnceInv, TakeRead, Item
  <1>3. \A pc \in {"wait", "done"} : Thread(pc).pc = pc /\ Thread(pc).position = None
    BY DEF Thread
  <1>4. CASE /\ UNCHANGED schedule
             /\ \E pc \in {"wait", "done"} :
                  searcher' = [searcher EXCEPT ![s] = Thread(pc)]
    <2>1. /\ searcher'[s].position = None
          /\ \A t \in Searcher : t # s => searcher'[t] = searcher[t]
      BY <1>1, <1>3, <1>4
    <2>2. IdleHoldNone' BY <1>2, <2>1 DEF IdleHoldNone
    <2>3. \A i \in Item : \A p : At(i, p)' => At(i, p)
      BY <1>2, <1>4, <2>1 DEF At
    <2> QED BY <1>2, <2>2, <2>3, StaysOrLeaves DEF OnceInv
  <1>5. CASE \E position \in schedule.read :
               /\ schedule' = [schedule EXCEPT !.read = @ \ {position}]
               /\ searcher' = [searcher EXCEPT
                    ![s] = [pc |-> "search", position |-> position]]
    <2>1. PICK position \in schedule.read :
               /\ schedule' = [schedule EXCEPT !.read = @ \ {position}]
               /\ searcher' = [searcher EXCEPT
                    ![s] = [pc |-> "search", position |-> position]]
      BY <1>5
    <2>2. position \in Item /\ schedule'.read = schedule.read \ {position}
      BY <1>1, <2>1 DEF Schedule
    <2>3. /\ searcher'[s] = [pc |-> "search", position |-> position]
          /\ \A t \in Searcher : t # s => searcher'[t] = searcher[t]
      BY <1>1, <2>1
    <2>4. IdleHoldNone' BY <1>2, <2>3 DEF IdleHoldNone
    <2>5. InOnePlace(position)'
      <3>1. At(position, <<"read", 0>>) BY DEF At
      <3>2. ASSUME NEW p, At(position, p)'
            PROVE  \/ p = <<"searching", s>>
                   \/ At(position, p) /\ p # <<"read", 0>>
        <4>1. p = <<"searching", s>> \/ At(position, p)
          BY <1>2, <2>2, <2>3, <3>2 DEF At
        <4>2. p[1] # "read" BY <2>2, <3>2 DEF At
        <4> QED BY <4>1, <4>2
      <3> QED BY <1>2, <2>2, <3>1, <3>2, MovesOn
    <2>6. \A i \in Item \ {position} : InOnePlace(i)'
      <3>1. \A i \in Item \ {position} : \A p : At(i, p)' => At(i, p)
        BY <1>2, <2>2, <2>3 DEF At
      <3> QED BY <1>2, <3>1, StaysOrLeaves
    <2> QED BY <2>4, <2>5, <2>6 DEF OnceInv
  <1> QED BY <1>4, <1>5 DEF TakeRead

LEMMA EndSearchOnce ==
  ASSUME ScanInv, OnceInv, NEW s \in Searcher, FinishSearch(s) \/ PanicSearch(s)
  PROVE  OnceInv'
  <1>1. /\ TypeOK /\ searcher \in [Searcher -> SearchThread]
        /\ schedule \in Schedule
    BY DEF ScanInv, TypeOK
  <1>2. /\ IdleHoldNone /\ UNCHANGED <<results, consumer>>
        /\ \A i \in Item : InOnePlace(i) /\ i # None
    BY DataAssumption DEF OnceInv, FinishSearch, PanicSearch, Item
  <1>3. Thread("panicked").pc = "panicked" /\ Thread("panicked").position = None
    BY DEF Thread
  <1>4. searcher[s].position \in Item /\ searcher[s].pc = "search"
    BY DEF FinishSearch, PanicSearch, ScanInv, ThreadsHoldItems
  <1>5. schedule'.read = schedule.read
    BY <1>1, <1>4, FinishSearchFields DEF FinishSearch, PanicSearch, Schedule
  <1>6. PICK threads :
          /\ threads \in {[searcher EXCEPT ![s].pc = "send"],
                          [searcher EXCEPT ![s] = Thread("panicked")]}
          /\ searcher' = Woken(threads) /\ reader' = Woken(reader)
    BY DEF FinishSearch, PanicSearch
  <1>7. /\ DOMAIN threads = Searcher
        /\ \A t \in Searcher : t # s => threads[t] = searcher[t]
        /\ \/ threads[s].pc = "send" /\ threads[s].position = searcher[s].position
           \/ threads[s].pc = "panicked" /\ threads[s].position = None
    BY <1>1, <1>3, <1>6 DEF SearchThread
  <1>8. \A t \in Searcher :
          threads[t].pc \notin {"search", "send"} => threads[t].position = None
    BY <1>2, <1>7 DEF IdleHoldNone
  <1>9. /\ IdleHoldNone'
        /\ \A t \in Reader : reader'[t].position = reader[t].position
        /\ \A t \in Searcher : searcher'[t].position = threads[t].position
    BY <1>2, <1>6, <1>7, <1>8, WokenOnce
  <1>10. \A t \in Searcher : \A i \in Item :
           searcher'[t].position = i => searcher[t].position = i
    BY <1>2, <1>7, <1>9
  <1>11. \A i \in Item : \A p : At(i, p)' => At(i, p)
    BY <1>2, <1>5, <1>9, <1>10 DEF At
  <1> QED BY <1>2, <1>9, <1>11, StaysOrLeaves DEF OnceInv

LEMMA SendResultOnce ==
  ASSUME ScanInv, OnceInv, NEW s \in Searcher, SendResult(s)
  PROVE  OnceInv'
  <1>1. /\ searcher \in [Searcher -> SearchThread] /\ results \in Seq(Item)
    BY DEF ScanInv, TypeOK
  <1>2. /\ IdleHoldNone /\ UNCHANGED <<schedule, reader, consumer>>
        /\ \A i \in Item : InOnePlace(i) /\ i # None
    BY DataAssumption DEF OnceInv, SendResult, Item
  <1>3. \A pc \in {"ready", "done"} :
          Thread(pc).pc = pc /\ Thread(pc).position = None
    BY DEF Thread
  <1>4. PICK item \in Item : item = searcher[s].position
    BY DEF SendResult, ScanInv, ThreadsHoldItems
  <1>5. /\ searcher'[s].position = None
        /\ \A t \in Searcher : t # s => searcher'[t] = searcher[t]
        /\ results' = results \/ results' = Append(results, item)
    BY <1>1, <1>3, <1>4 DEF SendResult
  <1>6. IdleHoldNone' BY <1>2, <1>5 DEF IdleHoldNone
  <1>7. \A t \in Searcher, i \in Item :
          searcher'[t].position = i => t # s /\ searcher[t].position = i
    BY <1>2, <1>5
  <1> DEFINE last == Len(results) + 1
  <1>8. \A k \in DOMAIN results' :
          \/ k \in DOMAIN results /\ results'[k] = results[k]
          \/ k = last /\ results'[k] = item
    BY <1>1, <1>5
  <1>9. InOnePlace(item)'
    <2>1. At(item, <<"searching", s>>) BY <1>4 DEF At
    <2> HIDE DEF last
    <2>2. PICK to : to = <<"result", last>> OBVIOUS
    <2>3. ASSUME NEW p, At(item, p)'
          PROVE  p = to \/ (At(item, p) /\ p # <<"searching", s>>)
      <3>1. CASE \E t \in Searcher :
                   p = <<"searching", t>> /\ searcher'[t].position = item
        <4>1. PICK t \in Searcher :
                p = <<"searching", t>> /\ searcher'[t].position = item
          BY <3>1
        <4>2. p[2] = t /\ t # s /\ searcher[t].position = item BY <1>7, <4>1
        <4>3. At(item, p) BY <4>1, <4>2 DEF At
        <4> QED BY <4>2, <4>3
      <3>2. CASE ~\E t \in Searcher :
                   p = <<"searching", t>> /\ searcher'[t].position = item
        <4>1. p = to \/ At(item, p) BY <1>2, <1>8, <2>2, <2>3, <3>2 DEF At
        <4>2. p[1] # "searching" BY <2>3, <3>2 DEF At
        <4> QED BY <4>1, <4>2
      <3> QED BY <3>1, <3>2
    <2> QED BY <1>2, <2>1, <2>3, MovesOn
  <1>10. \A i \in Item \ {item} : InOnePlace(i)'
    <2> HIDE DEF last
    <2>1. \A i \in Item \ {item} : \A p : At(i, p)' => At(i, p)
      BY <1>2, <1>7, <1>8 DEF At
    <2> QED BY <1>2, <2>1, StaysOrLeaves
  <1> QED BY <1>6, <1>9, <1>10 DEF OnceInv

LEMMA ReceiveResultOnce ==
  ASSUME ScanInv, OnceInv, ReceiveResult
  PROVE  OnceInv'
  <1>1. /\ results \in Seq(Item) /\ results # <<>> /\ consumer \in Consumer
        /\ results' = Tail(results)
        /\ UNCHANGED <<schedule, reader, searcher>>
    BY DEF ScanInv, TypeOK, ReceiveResult
  <1>2. PICK item \in Item : item = Head(results) /\ item = results[1]
    BY <1>1
  <1>3. /\ consumer'.consumed = consumer.consumed
        /\ consumer'.finished \subseteq consumer.finished \cup {item}
    BY <1>1, <1>2 DEF ReceiveResult, Consumer
  <1>4. /\ 1 \in DOMAIN results
        /\ \A k \in DOMAIN results' :
             /\ k \in Nat /\ k > 0
             /\ k + 1 \in DOMAIN results /\ results'[k] = results[k + 1]
    BY <1>1
  <1>5. IdleHoldNone' BY <1>1 DEF OnceInv, IdleHoldNone
  <1>6. ASSUME NEW i \in Item, NEW k \in DOMAIN results', results'[k] = i
        PROVE  /\ i # item /\ \A p : At(i, p) => p = <<"result", k + 1>>
    <2>1. At(i, <<"result", k + 1>>) BY <1>4, <1>6 DEF At
    <2>2. \A p : At(i, p) => p = <<"result", k + 1>>
      BY <2>1 DEF OnceInv, InOnePlace
    <2>3. i # item
      <3>1. At(item, <<"result", 1>>) BY <1>2, <1>4 DEF At
      <3>2. <<"result", 1>> # <<"result", k + 1>>
        <4>1. k + 1 # 1 BY <1>4
        <4>2. <<"result", 1>>[2] = 1 /\ <<"result", k + 1>>[2] = k + 1 OBVIOUS
        <4> QED BY <4>1, <4>2
      <3> QED BY <2>2, <3>1, <3>2
    <2> QED BY <2>2, <2>3
  <1>7. ASSUME NEW i \in Item PROVE InOnePlace(i)'
    <2>1. CASE \E k \in DOMAIN results' : results'[k] = i
      <3>1. PICK k \in DOMAIN results' : results'[k] = i BY <2>1
      <3>2. i # item /\ \A p : At(i, p) => p = <<"result", k + 1>>
        BY <1>6, <3>1
      <3>3. ASSUME NEW p, At(i, p)' PROVE p = <<"result", k>>
        <4>1. \A q : At(i, q) => q[1] = "result" BY <3>2
        <4>2. PICK j \in DOMAIN results' :
                p = <<"result", j>> /\ results'[j] = i
          <5>1. /\ ~At(i, <<"read", 0>>) /\ ~At(i, <<"finished", 0>>)
                /\ ~At(i, <<"consumed", 0>>)
                /\ \A t : ~At(i, <<"reading", t>>) /\ ~At(i, <<"searching", t>>)
            BY <4>1
          <5>2. /\ i \notin schedule.read /\ i \notin consumer.finished
                /\ ~(i < consumer.consumed)
                /\ \A t \in Reader : reader[t].position # i
                /\ \A t \in Searcher : searcher[t].position # i
            BY <5>1 DEF At
          <5> QED BY <1>1, <1>3, <3>2, <3>3, <5>2 DEF At
        <4>3. At(i, <<"result", j + 1>>) BY <1>4, <4>2 DEF At
        <4>4. <<"result", j + 1>> = <<"result", k + 1>> BY <3>2, <4>3
        <4>5. j + 1 = k + 1
          <5>1. <<"result", j + 1>>[2] = j + 1 /\ <<"result", k + 1>>[2] = k + 1
            OBVIOUS
          <5> QED BY <4>4, <5>1
        <4>6. j = k BY <1>4, <4>5
        <4> QED BY <4>2, <4>6
      <3> QED BY <3>3 DEF InOnePlace
    <2>2. CASE i # item /\ ~\E k \in DOMAIN results' : results'[k] = i
      <3>1. \A p : At(i, p)' => At(i, p) BY <1>1, <1>3, <2>2 DEF At
      <3> QED BY <3>1, StaysOrLeaves DEF OnceInv
    <2>3. CASE i = item /\ ~\E k \in DOMAIN results' : results'[k] = i
      <3>1. At(i, <<"result", 1>>) BY <1>2, <1>4, <2>3 DEF At
      <3>2. ASSUME NEW p, At(i, p)'
            PROVE  p = <<"finished", 0>> \/ (At(i, p) /\ p # <<"result", 1>>)
        <4>1. p = <<"finished", 0>> \/ At(i, p)
          BY <1>1, <1>3, <2>3, <3>2 DEF At
        <4>2. p[1] # "result" BY <2>3, <3>2 DEF At
        <4> QED BY <4>1, <4>2
      <3> QED BY <3>1, <3>2, MovesOn DEF OnceInv
    <2> QED BY <2>1, <2>2, <2>3
  <1> QED BY <1>5, <1>7 DEF OnceInv

LEMMA ConsumeResultOnce ==
  ASSUME ScanInv, OnceInv, ConsumeResult
  PROVE  OnceInv'
  <1>1. /\ schedule \in Schedule /\ consumer \in Consumer
        /\ searcher \in [Searcher -> SearchThread]
    BY DEF ScanInv, TypeOK
  <1>2. PICK item : item = consumer.consumed OBVIOUS
  <1>3. /\ item \in consumer.finished /\ item \in Item
        /\ consumer'.finished \subseteq consumer.finished \ {item}
        /\ consumer'.consumed = item + 1
        /\ schedule'.read = schedule.read /\ UNCHANGED results
        /\ reader' = Woken(reader) /\ searcher' = Woken(searcher)
    BY <1>1, <1>2 DEF ConsumeResult, IsNextFinished, Consumer, Schedule
  <1>4. /\ IdleHoldNone'
        /\ \A t \in Reader : reader'[t].position = reader[t].position
        /\ \A t \in Searcher : searcher'[t].position = searcher[t].position
    <2>1. DOMAIN searcher = Searcher /\ IdleHoldNone BY <1>1 DEF OnceInv
    <2> QED BY <1>3, <2>1, WokenOnce DEF IdleHoldNone
  <1>5. \A i \in Item : i < item + 1 <=> i < item \/ i = item
    BY <1>3 DEF Item
  <1>6. InOnePlace(item)'
    <2>1. At(item, <<"finished", 0>>) BY <1>3 DEF At
    <2>2. ASSUME NEW p, At(item, p)'
          PROVE  p = <<"consumed", 0>> \/ (At(item, p) /\ p # <<"finished", 0>>)
      <3>1. p = <<"consumed", 0>> \/ At(item, p)
        BY <1>3, <1>4, <2>2 DEF At
      <3>2. p[1] # "finished" BY <1>3, <2>2 DEF At
      <3> QED BY <3>1, <3>2
    <2> QED BY <1>3, <2>1, <2>2, MovesOn DEF OnceInv
  <1>7. \A i \in Item \ {item} : InOnePlace(i)'
    <2>1. \A i \in Item \ {item} : \A p : At(i, p)' => At(i, p)
      BY <1>2, <1>3, <1>4, <1>5 DEF At
    <2> QED BY <2>1, StaysOrLeaves DEF OnceInv
  <1> QED BY <1>4, <1>6, <1>7 DEF OnceInv

LEMMA OtherStepOnce ==
  ASSUME ScanInv, OnceInv,
         PanicConsume \/ Return \/ SpuriousWake \/ UNCHANGED vars
  PROVE  OnceInv'
  <1>1. /\ consumer \in Consumer /\ reader \in [Reader -> ReadThread]
        /\ searcher \in [Searcher -> SearchThread]
    BY DEF ScanInv, TypeOK
  <1>2. Thread("ready").pc = "ready" /\ Thread("ready").position = None
    BY DEF Thread
  <1>3. \A i \in Item : i # None BY DataAssumption DEF Item
  <1>4. /\ schedule'.read = schedule.read /\ results' \in {results, <<>>}
        /\ consumer'.consumed = consumer.consumed
        /\ consumer'.finished \subseteq consumer.finished
    BY <1>1 DEF PanicConsume, Return, SpuriousWake, vars, Consumer
  <1>5. /\ \A t \in Reader : reader'[t] \in {reader[t], Thread("ready")}
        /\ \A t \in Searcher : searcher'[t] \in {searcher[t], Thread("ready")}
    BY <1>1 DEF PanicConsume, Return, SpuriousWake, vars
  <1>6. IdleHoldNone' BY <1>2, <1>5 DEF OnceInv, IdleHoldNone
  <1>7. /\ \A t \in Reader, i \in Item :
             reader'[t].position = i => reader[t].position = i
        /\ \A t \in Searcher, i \in Item :
             searcher'[t].position = i => searcher[t].position = i
        /\ \A k \in DOMAIN results' : k \in DOMAIN results /\ results'[k] = results[k]
    BY <1>2, <1>3, <1>4, <1>5
  <1>8. \A i \in Item : \A p : At(i, p)' => At(i, p) BY <1>4, <1>7 DEF At
  <1> QED BY <1>6, <1>8, StaysOrLeaves DEF OnceInv

LEMMA NextOnce ==
  ASSUME ScanInv, OnceInv, [Next]_vars
  PROVE  OnceInv'
  BY ReadStepOnce, TakeReadOnce, EndSearchOnce, SendResultOnce,
     ReceiveResultOnce, ConsumeResultOnce, OtherStepOnce
  DEF Next, SearchStep, CallerStep

LEMMA EveryItemOnce == Spec => [](ScanInv /\ OnceInv)
  BY InitIsGood, InitOnce, NextIsGood, NextOnce, PTL DEF Spec

(* An item is in one place, from untried to consumed: none is read,        *)
(* searched or handed over twice, however the pools and the caller         *)
(* interleave, and none is lost unless the caller stopped or a closure     *)
(* panicked.                                                               *)
THEOREM EachItemIsOnce == Spec => []EachItemOnce
  <1>1. ScanInv /\ OnceInv => EachItemOnce
    <2> SUFFICES ASSUME ScanInv, OnceInv, NEW i \in Item
                 PROVE  /\ Cardinality(Places(i)) <= 1
                        /\ Places(i) = {} => consumer.stopped \/ IsPanicked
      BY DEF EachItemOnce
    <2>1. schedule \in Schedule /\ results \in Seq(Item)
      BY DEF ScanInv, TypeOK
    <2>2. \A p : p \in Places(i) <=>
            \/ p = <<"untried", 0>> /\ i \in Untried(schedule)
            \/ p = <<"waiting", 0>> /\ i \in schedule.waiting
            \/ At(i, p)
      BY DEF Places, At
    <2>3. /\ i \in Untried(schedule) <=> i >= schedule.next_read
          /\ i \in schedule.waiting => ~(i >= schedule.next_read)
          /\ Started(i) => i \notin schedule.waiting /\ i \notin Untried(schedule)
      BY <2>1 DEF ScanInv, StartedApart, Untried, Item, Schedule
    <2>4. \A p : At(i, p) => Started(i) BY AtIsStarted DEF OnceInv
    <2>5. \A p, q \in Places(i) : p = q
      BY <2>2, <2>3, <2>4 DEF OnceInv, InOnePlace
    <2>6. Cardinality(Places(i)) <= 1
      <3>1. CASE Places(i) = {}
        <4>1. Cardinality(Places(i)) = 0 BY <3>1, FS_EmptySet
        <4> QED BY <4>1
      <3>2. CASE Places(i) # {}
        <4>1. PICK p : Places(i) = {p} BY <2>5, <3>2
        <4>2. Cardinality(Places(i)) = 1 BY <4>1, FS_Singleton
        <4> QED BY <4>2
      <3> QED BY <3>1, <3>2
    <2>7. ASSUME Places(i) = {} PROVE consumer.stopped \/ IsPanicked
      <3>1. \A p : ~At(i, p) BY <2>2, <2>7
      <3>2. ~Started(i)
        <4>1. /\ i \notin schedule.read /\ i \notin consumer.finished
              /\ ~(i < consumer.consumed)
              /\ \A r \in Reader : reader[r].position # i
              /\ \A s \in Searcher : searcher[s].position # i
              /\ \A k \in DOMAIN results : results[k] # i
          BY <3>1 DEF At
        <4> QED BY <2>1, <4>1
            DEF Started, Held, ReaderHas, SearcherHas, SenderHas, IsResult
      <3>3. i \notin schedule.waiting /\ ~(i >= schedule.next_read)
        BY <2>2, <2>3, <2>7
      <3>4. schedule.stopped \/ consumer.pc = "panicked"
        BY <3>2, <3>3 DEF ScanInv, NoneIsLost
      <3> QED BY <3>4 DEF ScanInv, StopIsKnown, IsPanicked
    <2> QED BY <2>6, <2>7
  <1> QED BY <1>1, EveryItemOnce, PTL

-----------------------------------------------------------------------------
(* The read-ahead bound *)

(* Items whose bytes the schedule counts: those in memory, but for the one *)
(* past the bound.                                                         *)
Counted == {i \in Item : Held(i) /\ i # schedule.past_bound}

SizesKnown(items) == \A i \in items : sizes[i] # None

(* What is counted keeps to the bound, and covers what is held; a search   *)
(* or a read that panicked gives nothing back.                             *)
BytesInv ==
  /\ SizesKnown(Counted)
  /\ schedule.unsearched_bytes <= ReadAheadBytes
  /\ schedule.unsearched_bytes >= BytesOf(Counted)
  /\ ~IsPanicked => schedule.unsearched_bytes = BytesOf(Counted)

LEMMA ItemsAreFinite == \A items \in SUBSET Item : IsFiniteSet(items)
  <1>1. IsFiniteSet(Item) BY ItemsAssumption, FS_Interval DEF Item
  <1> QED BY <1>1, FS_Subset

(* The bytes of one item.                                                  *)
LEMMA BytesOfItem ==
  ASSUME NEW i, NEW n \in Nat
  PROVE  IsFiniteSet({i} \X (1 .. n)) /\ Cardinality({i} \X (1 .. n)) = n
  <1>1. IsFiniteSet({i}) /\ Cardinality({i}) = 1 BY FS_Singleton
  <1>2. IsFiniteSet(1 .. n) /\ Cardinality(1 .. n) = n
    <2>1. /\ IsFiniteSet(1 .. n)
          /\ Cardinality(1 .. n) = IF 1 > n THEN 0 ELSE n - 1 + 1
      BY FS_Interval
    <2> QED BY <2>1
  <1>3. /\ IsFiniteSet({i} \X (1 .. n))
        /\ Cardinality({i} \X (1 .. n)) = Cardinality({i}) * Cardinality(1 .. n)
    BY <1>1, <1>2, FS_Product
  <1> QED BY <1>1, <1>2, <1>3

LEMMA BytesAreFinite ==
  ASSUME TypeOK, NEW items \in SUBSET Item, SizesKnown(items)
  PROVE  /\ \A i \in items : sizes[i] \in Nat
         /\ IsFiniteSet(UNION {{i} \X (1 .. sizes[i]) : i \in items})
         /\ BytesOf(items) \in Nat
  <1>1. \A i \in items : sizes[i] \in Nat
    BY DataAssumption DEF TypeOK, SizesKnown
  <1> DEFINE bytes == {{i} \X (1 .. sizes[i]) : i \in items}
             F == [i \in items |-> {i} \X (1 .. sizes[i])]
  <1>2. IsFiniteSet(items) BY ItemsAreFinite
  <1>3. F \in Surjection(items, bytes)
    <2>1. \A T \in bytes : \E i \in items : F[i] = T OBVIOUS
    <2>2. F \in [items -> bytes] OBVIOUS
    <2> HIDE DEF bytes, F
    <2> QED BY <2>1, <2>2 DEF Surjection
  <1>4. IsFiniteSet(bytes)
    <2> HIDE DEF bytes, F
    <2> QED BY <1>2, <1>3, FS_Surjection
  <1>5. \A T \in bytes : IsFiniteSet(T)
    <2> SUFFICES ASSUME NEW i \in items PROVE IsFiniteSet({i} \X (1 .. sizes[i]))
      OBVIOUS
    <2> QED BY <1>1, BytesOfItem
  <1>6. IsFiniteSet(UNION bytes)
    <2> HIDE DEF bytes
    <2> QED BY <1>4, <1>5, FS_UNION
  <1>7. Cardinality(UNION bytes) \in Nat BY <1>6, FS_CardinalityType
  <1> QED BY <1>1, <1>6, <1>7 DEF BytesOf

(* An item more, and its bytes more.                                       *)
LEMMA BytesAdd ==
  ASSUME TypeOK, NEW items \in SUBSET Item, NEW i \in Item \ items,
         SizesKnown(items \cup {i})
  PROVE  /\ sizes[i] \in Nat /\ BytesOf(items) \in Nat
         /\ BytesOf(items \cup {i}) = BytesOf(items) + sizes[i]
  <1>1. SizesKnown(items) BY DEF SizesKnown
  <1>2. /\ sizes[i] \in Nat /\ BytesOf(items) \in Nat
        /\ IsFiniteSet(UNION {{j} \X (1 .. sizes[j]) : j \in items})
    BY <1>1, BytesAreFinite, DataAssumption DEF TypeOK, SizesKnown
  <1> DEFINE old == UNION {{j} \X (1 .. sizes[j]) : j \in items}
             new == {i} \X (1 .. sizes[i])
             all == UNION {{j} \X (1 .. sizes[j]) : j \in items \cup {i}}
  <1>3. IsFiniteSet(new) /\ Cardinality(new) = sizes[i]
    BY <1>2, BytesOfItem
  <1>4. old \cap new = {}
    <2> SUFFICES ASSUME NEW b \in old, b \in new PROVE FALSE OBVIOUS
    <2>1. PICK j \in items : b \in {j} \X (1 .. sizes[j]) OBVIOUS
    <2>2. b[1] = j /\ b[1] = i BY <2>1
    <2> QED BY <2>2
  <1>5. all = old \cup new
    <2>1. \A b : b \in all <=>
                  \E j \in items \cup {i} : b \in {j} \X (1 .. sizes[j])
      OBVIOUS
    <2>2. \A b : b \in old <=> \E j \in items : b \in {j} \X (1 .. sizes[j])
      OBVIOUS
    <2> QED BY <2>1, <2>2
  <1>6. Cardinality(old \cap new) = 0 BY <1>4, FS_EmptySet
  <1>7. IsFiniteSet(old) BY <1>2
  <1>8. Cardinality(old) = BytesOf(items) BY DEF BytesOf
  <1>9. Cardinality(all) = BytesOf(items \cup {i}) BY DEF BytesOf
  <1> HIDE DEF old, new, all
  <1>10. Cardinality(old \cup new)
           = Cardinality(old) + Cardinality(new) - Cardinality(old \cap new)
    BY <1>3, <1>7, FS_Union
  <1> QED BY <1>2, <1>3, <1>5, <1>6, <1>8, <1>9, <1>10

LEMMA BytesMonotone ==
  ASSUME TypeOK, NEW items \in SUBSET Item, SizesKnown(items),
         NEW fewer \in SUBSET items
  PROVE  BytesOf(fewer) <= BytesOf(items)
  <1> DEFINE S == UNION {{j} \X (1 .. sizes[j]) : j \in items}
             T == UNION {{j} \X (1 .. sizes[j]) : j \in fewer}
  <1>1. IsFiniteSet(S) BY BytesAreFinite
  <1>2. T \in SUBSET S OBVIOUS
  <1>3. Cardinality(T) <= Cardinality(S)
    <2> HIDE DEF S, T
    <2> QED BY <1>1, <1>2, FS_Subset
  <1> QED BY <1>3 DEF BytesOf

(* What a step does to what is counted: nothing, nothing but to lose the   *)
(* items of a thread that panicked, take an item, or give one back.        *)
LEMMA SameBytes ==
  ASSUME BytesInv, sizes' = sizes, Counted' = Counted,
         schedule'.unsearched_bytes = schedule.unsearched_bytes,
         IsPanicked => IsPanicked'
  PROVE  BytesInv'
  <1>1. BytesOf(Counted)' = BytesOf(Counted) BY DEF BytesOf
  <1>2. SizesKnown(Counted)' BY DEF BytesInv, SizesKnown
  <1> QED BY <1>1, <1>2 DEF BytesInv

LEMMA LostBytes ==
  ASSUME TypeOK, BytesInv, sizes' = sizes, Counted' \subseteq Counted,
         schedule'.unsearched_bytes = schedule.unsearched_bytes, IsPanicked'
  PROVE  BytesInv'
  <1> PICK fewer : fewer = Counted' OBVIOUS
  <1>1. SizesKnown(Counted)' BY DEF BytesInv, SizesKnown
  <1>2. BytesOf(Counted)' = BytesOf(fewer) BY DEF BytesOf
  <1>3. Counted \in SUBSET Item BY DEF Counted
  <1>4. BytesOf(fewer) <= BytesOf(Counted)
    BY <1>3, BytesMonotone DEF BytesInv
  <1>5. BytesOf(Counted) \in Nat /\ BytesOf(fewer) \in Nat
    BY <1>3, BytesAreFinite DEF BytesInv, SizesKnown
  <1>6. schedule.unsearched_bytes \in Int BY DEF TypeOK, Schedule
  <1> QED BY <1>1, <1>2, <1>4, <1>5, <1>6 DEF BytesInv

LEMMA TakenBytes ==
  ASSUME TypeOK, BytesInv, sizes' = sizes, NEW i \in Item,
         i \notin Counted, Fits(schedule, i), Counted' = Counted \cup {i},
         schedule'.unsearched_bytes = schedule.unsearched_bytes + sizes[i],
         IsPanicked => IsPanicked'
  PROVE  BytesInv'
  <1>1. SizesKnown(Counted \cup {i}) BY DEF BytesInv, SizesKnown, Fits
  <1>2. SizesKnown(Counted)' BY <1>1 DEF SizesKnown
  <1>3. BytesOf(Counted)' = BytesOf(Counted \cup {i}) BY DEF BytesOf
  <1>4. Counted \in SUBSET Item BY DEF Counted
  <1>5. /\ sizes[i] \in Nat /\ BytesOf(Counted) \in Nat
        /\ BytesOf(Counted \cup {i}) = BytesOf(Counted) + sizes[i]
    BY <1>1, <1>4, BytesAdd
  <1>6. schedule.unsearched_bytes \in Int BY DEF TypeOK, Schedule
  <1> QED BY <1>2, <1>3, <1>5, <1>6 DEF BytesInv, Fits

LEMMA GivenBackBytes ==
  ASSUME TypeOK, BytesInv, sizes' = sizes, NEW i \in Counted,
         Counted' = Counted \ {i},
         schedule'.unsearched_bytes = schedule.unsearched_bytes - sizes[i],
         IsPanicked => IsPanicked'
  PROVE  BytesInv'
  <1> PICK others : others = Counted \ {i} OBVIOUS
  <1>1. others \cup {i} = Counted /\ i \in Item \ others
        /\ others \in SUBSET Item
    BY DEF Counted
  <1>2. SizesKnown(others \cup {i}) BY <1>1 DEF BytesInv
  <1>3. SizesKnown(Counted)' BY DEF BytesInv, SizesKnown
  <1>4. BytesOf(Counted)' = BytesOf(others) BY DEF BytesOf
  <1>5. /\ sizes[i] \in Nat /\ BytesOf(others) \in Nat
        /\ BytesOf(Counted) = BytesOf(others) + sizes[i]
    BY <1>1, <1>2, BytesAdd
  <1>6. schedule.unsearched_bytes \in Int /\ ReadAheadBytes \in Nat
    BY DataAssumption DEF TypeOK, Schedule
  <1> QED BY <1>3, <1>4, <1>5, <1>6 DEF BytesInv

(* The bytes that a claim takes.                                           *)
LEMMA ClaimedBytes ==
  ASSUME NEW i \in Item, schedule \in Schedule,
         NEW s, s = claim_next(schedule, i)
  PROVE  /\ Fits(schedule, i) =>
              /\ s.unsearched_bytes = schedule.unsearched_bytes + sizes[i]
              /\ s.past_bound = schedule.past_bound
         /\ ~Fits(schedule, i) =>
              /\ s.unsearched_bytes = schedule.unsearched_bytes
              /\ s.past_bound = i
  <1> DEFINE room == reserve(schedule, i)
             tried == Tried(room, i + 1)
  <1>1. s = [tried EXCEPT !.waiting = @ \ {i}] BY DEF claim_next
  <1>2. /\ s.unsearched_bytes = room.unsearched_bytes
        /\ s.past_bound = room.past_bound
    BY <1>1 DEF Tried, reserve, Schedule
  <1>3. /\ Fits(schedule, i) =>
              /\ room.unsearched_bytes = schedule.unsearched_bytes + sizes[i]
              /\ room.past_bound = schedule.past_bound
        /\ ~Fits(schedule, i) =>
              /\ room.unsearched_bytes = schedule.unsearched_bytes
              /\ room.past_bound = i
    BY DEF reserve, Schedule
  <1> QED BY <1>2, <1>3

(* Nothing is held at first.                                               *)
LEMMA InitBytes == Init => BytesInv
  <1> SUFFICES ASSUME Init PROVE BytesInv OBVIOUS
  <1>1. /\ \A r \in Reader : reader[r].pc = "ready"
        /\ \A s \in Searcher : searcher[s].pc = "ready"
        /\ schedule.read = {} /\ schedule.unsearched_bytes = 0
    BY DEF Init, Thread
  <1>2. Counted = {}
    BY <1>1 DEF Counted, Held, ReaderHas, SearcherHas
  <1>3. {{i} \X (1 .. sizes[i]) : i \in Counted} = {} BY <1>2
  <1>4. UNION {{i} \X (1 .. sizes[i]) : i \in Counted} = {} BY <1>3
  <1>5. BytesOf(Counted) = 0 BY <1>4, FS_EmptySet DEF BytesOf
  <1>6. SizesKnown(Counted) BY <1>2 DEF SizesKnown
  <1> QED BY <1>1, <1>5, <1>6, DataAssumption DEF BytesInv

(* notify_all leaves those at work, and those that panicked, as they were. *)
LEMMA WokenHold ==
  ASSUME NEW threads, NEW pc \in {"read", "search", "send", "panicked"},
         NEW t \in DOMAIN threads
  PROVE  /\ Woken(threads)[t].pc = pc <=> threads[t].pc = pc
         /\ threads[t].pc = pc => Woken(threads)[t] = threads[t]
  <1>1. Thread("ready").pc = "ready" BY DEF Thread
  <1> QED BY <1>1, WokenThreads

LEMMA CallerStepBytes ==
  ASSUME ScanInv, BytesInv,
         CallerStep \/ SpuriousWake \/ UNCHANGED vars
  PROVE  BytesInv'
  <1>1. /\ consumer \in Consumer /\ schedule \in Schedule
        /\ reader \in [Reader -> ReadThread]
        /\ searcher \in [Searcher -> SearchThread]
    BY DEF ScanInv, TypeOK
  <1>2. /\ sizes' = sizes /\ schedule'.read = schedule.read
        /\ schedule'.unsearched_bytes = schedule.unsearched_bytes
        /\ schedule'.past_bound = schedule.past_bound
        /\ consumer.pc = "panicked" => consumer'.pc = "panicked"
    <2>1. CASE ConsumeResult
      BY <1>1, <2>1 DEF ConsumeResult, Schedule, Consumer
    <2>2. CASE ReceiveResult \/ PanicConsume \/ Return
      BY <1>1, <2>2 DEF ReceiveResult, PanicConsume, Return, Consumer
    <2>3. CASE SpuriousWake \/ UNCHANGED vars
      BY <2>3 DEF SpuriousWake, vars
    <2> QED BY <2>1, <2>2, <2>3 DEF CallerStep
  <1>3. Thread("ready").pc = "ready" BY DEF Thread
  <1>4. \A pc \in {"read", "panicked"}, t \in Reader :
          /\ reader'[t].pc = pc <=> reader[t].pc = pc
          /\ reader[t].pc = pc => reader'[t] = reader[t]
    <2>1. CASE reader' = Woken(reader) BY <1>1, <2>1, WokenHold
    <2>2. CASE reader' = reader BY <2>2
    <2>3. CASE SpuriousWake BY <1>1, <1>3, <2>3 DEF SpuriousWake
    <2> QED BY <2>1, <2>2, <2>3
        DEF CallerStep, ReceiveResult, ConsumeResult, PanicConsume, Return, vars
  <1>5. \A pc \in {"search", "panicked"}, t \in Searcher :
          /\ searcher'[t].pc = pc <=> searcher[t].pc = pc
          /\ searcher[t].pc = pc => searcher'[t] = searcher[t]
    <2>1. CASE searcher' = Woken(searcher) BY <1>1, <2>1, WokenHold
    <2>2. CASE searcher' = searcher BY <2>2
    <2>3. CASE SpuriousWake BY <1>1, <1>3, <2>3 DEF SpuriousWake
    <2> QED BY <2>1, <2>2, <2>3
        DEF CallerStep, ReceiveResult, ConsumeResult, PanicConsume, Return, vars
  <1>6. \A i : Held(i)' <=> Held(i)
    BY <1>2, <1>4, <1>5 DEF Held, ReaderHas, SearcherHas
  <1>7. Counted' = Counted BY <1>2, <1>6 DEF Counted
  <1>8. IsPanicked => IsPanicked' BY <1>2, <1>4, <1>5 DEF IsPanicked
  <1> QED BY <1>2, <1>7, <1>8, SameBytes

LEMMA ClaimReadBytes ==
  ASSUME ScanInv, BytesInv, NEW r \in Reader, ClaimRead(r)
  PROVE  BytesInv'
  <1>1. /\ TypeOK /\ schedule \in Schedule /\ reader \in [Reader -> ReadThread]
    BY DEF ScanInv, TypeOK
  <1>2. /\ UNCHANGED <<sizes, searcher, consumer>> /\ reader[r].pc = "ready"
    BY DEF ClaimRead
  <1>3. \A pc \in {"wait", "done"} : Thread(pc).pc = pc BY DEF Thread
  <1>4. CASE /\ schedule' \in {schedule, claim_none(schedule)}
             /\ \E pc \in {"wait", "done"} :
                  reader' = [reader EXCEPT ![r] = Thread(pc)]
    <2>1. /\ schedule'.read = schedule.read
          /\ schedule'.unsearched_bytes = schedule.unsearched_bytes
          /\ schedule'.past_bound = schedule.past_bound
      BY <1>1, <1>4 DEF claim_none, Tried, Schedule
    <2>2. \A t \in Reader :
            IF t = r THEN reader'[t].pc \in {"wait", "done"}
                     ELSE reader'[t] = reader[t]
      BY <1>1, <1>3, <1>4
    <2>3. \A i : Held(i)' <=> Held(i)
      BY <1>2, <2>1, <2>2 DEF Held, ReaderHas, SearcherHas
    <2>4. Counted' = Counted BY <2>1, <2>3 DEF Counted
    <2>5. IsPanicked => IsPanicked' BY <1>2, <2>2 DEF IsPanicked
    <2> QED BY <1>2, <2>1, <2>4, <2>5, SameBytes
  <1>5. CASE /\ ~schedule.stopped
             /\ \E position \in Claimable(schedule) :
                  /\ schedule' = claim_next(schedule, position)
                  /\ reader' = [reader EXCEPT
                       ![r] = [pc |-> "read", position |-> position]]
    <2>1. PICK position \in Claimable(schedule) :
                  /\ schedule' = claim_next(schedule, position)
                  /\ reader' = [reader EXCEPT
                       ![r] = [pc |-> "read", position |-> position]]
      BY <1>5
    <2>2. /\ position \in Item /\ schedule'.read = schedule.read
          /\ position \in schedule.waiting \/ position >= schedule.next_read
      BY <1>1, <2>1, ClaimNext
    <2>3. ~Held(position)
      BY <1>1, <2>2 DEF ScanInv, StartedApart, Started, Schedule, Item
    <2>4. position # None BY <2>2, DataAssumption DEF Item
    <2>5. schedule.past_bound # position
      BY <1>5, <2>3, <2>4 DEF ScanInv, PlaceIsHeld
    <2>6. /\ reader'[r].position = position /\ reader'[r].pc = "read"
          /\ \A t \in Reader : t # r => reader'[t] = reader[t]
      BY <1>1, <2>1
    <2>7. \A i : Held(i)' <=> Held(i) \/ i = position
      BY <1>2, <2>2, <2>6 DEF Held, ReaderHas, SearcherHas
    <2>8. IsPanicked => IsPanicked' BY <1>2, <2>6 DEF IsPanicked
    <2>9. position \notin Counted BY <2>3 DEF Counted
    <2>10. CASE Fits(schedule, position)
      <3>1. /\ schedule'.unsearched_bytes
                 = schedule.unsearched_bytes + sizes[position]
            /\ schedule'.past_bound = schedule.past_bound
        BY <1>1, <2>1, <2>2, <2>10, ClaimedBytes
      <3>2. Counted' = Counted \cup {position}
        BY <2>2, <2>5, <2>7, <3>1 DEF Counted
      <3> QED BY <1>1, <1>2, <2>2, <2>8, <2>9, <2>10, <3>1, <3>2, TakenBytes
    <2>11. CASE ~Fits(schedule, position)
      <3>1. /\ schedule'.unsearched_bytes = schedule.unsearched_bytes
            /\ schedule'.past_bound = position
        BY <1>1, <2>1, <2>2, <2>11, ClaimedBytes
      <3>2. schedule.past_bound = None
        BY <2>11 DEF Claimable, CanReserve
      <3>3. Counted' = Counted
        BY <2>3, <2>7, <3>1, <3>2, DataAssumption DEF Counted, Item
      <3> QED BY <1>2, <2>8, <3>1, <3>3, SameBytes
    <2> QED BY <2>10, <2>11
  <1> QED BY <1>4, <1>5 DEF ClaimRead

LEMMA EndReadBytes ==
  ASSUME ScanInv, BytesInv, NEW r \in Reader, FinishRead(r) \/ PanicRead(r)
  PROVE  BytesInv'
  <1>1. /\ TypeOK /\ schedule \in Schedule /\ reader \in [Reader -> ReadThread]
        /\ searcher \in [Searcher -> SearchThread]
    BY DEF ScanInv, TypeOK
  <1> PICK item : item = reader[r].position OBVIOUS
  <1>2. PICK pc \in {"ready", "panicked"} :
          /\ reader' = Woken([reader EXCEPT ![r] = Thread(pc)])
          /\ IF pc = "ready" THEN schedule'.read = schedule.read \cup {item}
                             ELSE schedule'.read = schedule.read
    BY <1>1 DEF FinishRead, PanicRead, Schedule
  <1>3. /\ UNCHANGED <<sizes, consumer>> /\ searcher' = Woken(searcher)
        /\ reader[r].pc = "read"
        /\ schedule'.unsearched_bytes = schedule.unsearched_bytes
        /\ schedule'.past_bound = schedule.past_bound
    BY <1>1 DEF FinishRead, PanicRead, Schedule
  <1> PICK readers : readers = [reader EXCEPT ![r] = Thread(pc)] OBVIOUS
  <1>4. /\ DOMAIN readers = Reader /\ readers[r].pc = pc
        /\ \A t \in Reader : t # r => readers[t] = reader[t]
    BY <1>1 DEF Thread
  <1>5. \A t \in Reader :
          /\ \A p \in {"read", "panicked"} :
               reader'[t].pc = p <=> readers[t].pc = p
          /\ readers[t].pc = "read" => reader'[t] = readers[t]
    <2>1. reader' = Woken(readers) BY <1>2
    <2>2. SUFFICES ASSUME NEW t \in Reader, NEW p \in {"read", "panicked"}
                   PROVE  /\ reader'[t].pc = p <=> readers[t].pc = p
                          /\ readers[t].pc = p => reader'[t] = readers[t]
      OBVIOUS
    <2> QED BY ONLY <1>4, <2>1, <2>2, WokenHold
  <1>6. \A t \in Searcher :
          /\ \A p \in {"search", "panicked"} :
               searcher'[t].pc = p <=> searcher[t].pc = p
          /\ searcher[t].pc = "search" => searcher'[t] = searcher[t]
    BY <1>1, <1>3, WokenHold
  <1>7. /\ \A i : ReaderHas(i)' => ReaderHas(i)
        /\ \A i : ReaderHas(i) => ReaderHas(i)' \/ i = item
        /\ \A i : SearcherHas(i)' <=> SearcherHas(i)
        /\ ReaderHas(item)
    BY <1>3, <1>4, <1>5, <1>6 DEF ReaderHas, SearcherHas
  <1>8. IsPanicked => IsPanicked'
    BY <1>3, <1>4, <1>5, <1>6 DEF IsPanicked
  <1>9. CASE pc = "ready"
    <2>1. \A i : Held(i)' <=> Held(i) BY <1>2, <1>7, <1>9 DEF Held
    <2>2. Counted' = Counted BY <1>3, <2>1 DEF Counted
    <2> QED BY <1>3, <1>8, <2>2, SameBytes
  <1>10. CASE pc = "panicked"
    <2>1. \A i : Held(i)' => Held(i) BY <1>2, <1>7, <1>10 DEF Held
    <2>2. Counted' \subseteq Counted BY <1>3, <2>1 DEF Counted
    <2>3. IsPanicked' BY <1>4, <1>5, <1>10 DEF IsPanicked
    <2> QED BY <1>1, <1>3, <2>2, <2>3, LostBytes
  <1> QED BY <1>9, <1>10

LEMMA TakeReadBytes ==
  ASSUME ScanInv, BytesInv, NEW s \in Searcher, TakeRead(s)
  PROVE  BytesInv'
  <1>1. /\ schedule \in Schedule /\ searcher \in [Searcher -> SearchThread]
    BY DEF ScanInv, TypeOK
  <1>2. /\ UNCHANGED <<sizes, reader, consumer>> /\ searcher[s].pc = "ready"
    BY DEF TakeRead
  <1>3. CASE /\ schedule' = schedule
             /\ \E pc \in {"done", "wait"} :
                  searcher' = [searcher EXCEPT ![s] = Thread(pc)]
    <2>1. \A pc \in {"done", "wait"} : Thread(pc).pc = pc BY DEF Thread
    <2>2. \A t \in Searcher :
            IF t = s THEN searcher'[t].pc \in {"wait", "done"}
                     ELSE searcher'[t] = searcher[t]
      BY <1>1, <1>3, <2>1
    <2>3. \A i : Held(i)' <=> Held(i)
      BY <1>2, <1>3, <2>2 DEF Held, ReaderHas, SearcherHas
    <2>4. Counted' = Counted BY <1>3, <2>3 DEF Counted
    <2>5. IsPanicked => IsPanicked' BY <1>2, <2>2 DEF IsPanicked
    <2> QED BY <1>2, <1>3, <2>4, <2>5, SameBytes
  <1>4. CASE \E position \in schedule.read :
               /\ schedule' = [schedule EXCEPT !.read = @ \ {position}]
               /\ searcher' = [searcher EXCEPT
                    ![s] = [pc |-> "search", position |-> position]]
    <2>1. PICK position \in schedule.read :
               /\ schedule' = [schedule EXCEPT !.read = @ \ {position}]
               /\ searcher' = [searcher EXCEPT
                    ![s] = [pc |-> "search", position |-> position]]
      BY <1>4
    <2>2. /\ schedule'.read = schedule.read \ {position}
          /\ schedule'.unsearched_bytes = schedule.unsearched_bytes
          /\ schedule'.past_bound = schedule.past_bound
      BY <1>1, <2>1 DEF Schedule
    <2>3. /\ searcher'[s].pc = "search" /\ searcher'[s].position = position
          /\ \A t \in Searcher : t # s => searcher'[t] = searcher[t]
      BY <1>1, <2>1
    <2>4. \A i : SearcherHas(i)' <=> SearcherHas(i) \/ i = position
      BY <1>2, <2>3 DEF SearcherHas
    <2>5. \A i : Held(i)' <=> Held(i)
      BY <1>2, <2>1, <2>2, <2>4 DEF Held, ReaderHas
    <2>6. Counted' = Counted BY <2>2, <2>5 DEF Counted
    <2>7. IsPanicked => IsPanicked' BY <1>2, <2>3 DEF IsPanicked
    <2> QED BY <1>2, <2>2, <2>6, <2>7, SameBytes
  <1> QED BY <1>3, <1>4 DEF TakeRead

LEMMA SendResultBytes ==
  ASSUME ScanInv, BytesInv, NEW s \in Searcher, SendResult(s)
  PROVE  BytesInv'
  <1>1. searcher \in [Searcher -> SearchThread] BY DEF ScanInv, TypeOK
  <1>2. /\ UNCHANGED <<sizes, schedule, reader, consumer>>
        /\ searcher[s].pc = "send"
        /\ \E pc \in {"done", "ready"} :
             searcher' = [searcher EXCEPT ![s] = Thread(pc)]
    BY DEF SendResult
  <1>3. \A pc \in {"done", "ready"} : Thread(pc).pc = pc BY DEF Thread
  <1>4. \A t \in Searcher :
          IF t = s THEN searcher'[t].pc \in {"ready", "done"}
                   ELSE searcher'[t] = searcher[t]
    BY <1>1, <1>2, <1>3
  <1>5. \A i : Held(i)' <=> Held(i)
    BY <1>2, <1>4 DEF Held, ReaderHas, SearcherHas
  <1>6. Counted' = Counted BY <1>2, <1>5 DEF Counted
  <1>7. IsPanicked => IsPanicked' BY <1>2, <1>4 DEF IsPanicked
  <1> QED BY <1>2, <1>6, <1>7, SameBytes

(* The item of a searcher is with nobody else.                             *)
LEMMA SearchedByOne ==
  ASSUME OnceInv, NEW s \in Searcher, searcher[s].position \in Item
  PROVE  LET i == searcher[s].position
         IN  /\ ~ReaderHas(i) /\ i \notin schedule.read
             /\ \A t \in Searcher : t # s => searcher[t].position # i
  <1> PICK i : i = searcher[s].position OBVIOUS
  <1>1. \A p, q : At(i, p) /\ At(i, q) => p = q BY DEF OnceInv, InOnePlace
  <1>2. At(i, <<"searching", s>>) BY DEF At
  <1>3. \A r \in Reader : ~At(i, <<"reading", r>>)
    BY <1>1, <1>2
  <1>4. ~At(i, <<"read", 0>>) BY <1>1, <1>2
  <1>5. \A t \in Searcher : At(i, <<"searching", t>>) => t = s
    BY <1>1, <1>2
  <1> QED BY <1>3, <1>4, <1>5 DEF At, ReaderHas

(* A search that ends gives back what its item took, if it took any.       *)
LEMMA GivenBack ==
  ASSUME NEW i, schedule \in Schedule, NEW s, s = finish_search(schedule, i)
  PROVE  /\ s.read = schedule.read
         /\ schedule.past_bound = i =>
              /\ s.past_bound = None
              /\ s.unsearched_bytes = schedule.unsearched_bytes
         /\ schedule.past_bound # i =>
              /\ s.past_bound = schedule.past_bound
              /\ s.unsearched_bytes = schedule.unsearched_bytes
                   - (IF sizes[i] = None THEN 0 ELSE sizes[i])
  BY DEF finish_search, Schedule

LEMMA EndSearchBytes ==
  ASSUME ScanInv, OnceInv, BytesInv, NEW s \in Searcher,
         FinishSearch(s) \/ PanicSearch(s)
  PROVE  BytesInv'
  <1>1. /\ TypeOK /\ schedule \in Schedule /\ reader \in [Reader -> ReadThread]
        /\ searcher \in [Searcher -> SearchThread]
    BY DEF ScanInv, TypeOK
  <1> PICK item : item = searcher[s].position OBVIOUS
  <1>2. PICK searchers :
          /\ searcher' = Woken(searchers)
          /\ \/ /\ FinishSearch(s)
                /\ searchers = [searcher EXCEPT ![s].pc = "send"]
             \/ /\ PanicSearch(s)
                /\ searchers = [searcher EXCEPT ![s] = Thread("panicked")]
    BY DEF FinishSearch, PanicSearch
  <1>3. /\ UNCHANGED <<sizes, consumer>> /\ reader' = Woken(reader)
        /\ searcher[s].pc = "search"
    BY DEF FinishSearch, PanicSearch
  <1>4. item \in Item BY <1>3 DEF ScanInv, ThreadsHoldItems
  <1>5. /\ ~ReaderHas(item) /\ item \notin schedule.read
        /\ \A t \in Searcher : t # s => searcher[t].position # item
    BY <1>4, SearchedByOne
  <1>6. /\ DOMAIN searchers = Searcher
        /\ searchers[s].pc \in {"send", "panicked"}
        /\ \A t \in Searcher : t # s => searchers[t] = searcher[t]
    BY <1>1, <1>2 DEF Thread, SearchThread
  <1>7. \A t \in Reader :
          /\ \A p \in {"read", "panicked"} :
               reader'[t].pc = p <=> reader[t].pc = p
          /\ reader[t].pc = "read" => reader'[t] = reader[t]
    BY <1>1, <1>3, WokenHold
  <1>8. \A t \in Searcher :
          /\ \A p \in {"search", "panicked"} :
               searcher'[t].pc = p <=> searchers[t].pc = p
          /\ searchers[t].pc = "search" => searcher'[t] = searchers[t]
    BY <1>2, <1>6, WokenHold
  <1>9. /\ \A i : ReaderHas(i)' <=> ReaderHas(i)
        /\ \A i : SearcherHas(i)' <=> SearcherHas(i) /\ i # item
        /\ SearcherHas(item)
    BY <1>3, <1>5, <1>6, <1>7, <1>8 DEF ReaderHas, SearcherHas
  <1>10. IsPanicked => IsPanicked'
    BY <1>3, <1>6, <1>7, <1>8 DEF IsPanicked
  <1>11. CASE PanicSearch(s)
    <2>1. /\ schedule'.read = schedule.read
          /\ schedule'.unsearched_bytes = schedule.unsearched_bytes
          /\ schedule'.past_bound = schedule.past_bound
      BY <1>1, <1>11 DEF PanicSearch, Schedule
    <2>2. Counted' \subseteq Counted BY <1>9, <2>1 DEF Counted, Held
    <2>3. IsPanicked'
      <3>1. Thread("panicked").pc = "panicked" BY DEF Thread
      <3>2. PICK threads : /\ threads = [searcher EXCEPT ![s] = Thread("panicked")]
                           /\ searcher' = Woken(threads)
        BY <1>11 DEF PanicSearch
      <3>3. DOMAIN threads = Searcher /\ threads[s].pc = "panicked"
        BY <1>1, <3>1, <3>2
      <3>4. searcher'[s].pc = "panicked" BY <3>2, <3>3, WokenThreads
      <3> QED BY <3>4 DEF IsPanicked
    <2> QED BY <1>1, <1>3, <2>1, <2>2, <2>3, LostBytes
  <1>12. CASE FinishSearch(s)
    <2>1. schedule' = finish_search(schedule, item)
      BY <1>12 DEF FinishSearch
    <2>2. /\ schedule'.read = schedule.read
          /\ schedule.past_bound = item =>
               /\ schedule'.past_bound = None
               /\ schedule'.unsearched_bytes = schedule.unsearched_bytes
          /\ schedule.past_bound # item =>
               /\ schedule'.past_bound = schedule.past_bound
               /\ schedule'.unsearched_bytes = schedule.unsearched_bytes
                    - (IF sizes[item] = None THEN 0 ELSE sizes[item])
      BY <1>1, <2>1, GivenBack
    <2>3. \A i : Held(i)' <=> Held(i) /\ i # item
      BY <1>5, <1>9, <2>2 DEF Held
    <2>4. CASE schedule.past_bound = item
      <3>1. \A i \in Item : i # None BY DataAssumption DEF Item
      <3>2. Counted' = Counted BY <2>2, <2>3, <2>4, <3>1 DEF Counted
      <3> QED BY <1>3, <1>10, <2>2, <2>4, <3>2, SameBytes
    <2>5. CASE schedule.past_bound # item
      <3>1. item \in Counted BY <1>4, <1>9, <2>5 DEF Counted, Held
      <3>2. Counted' = Counted \ {item} BY <2>2, <2>3, <2>5 DEF Counted
      <3>3. sizes[item] # None BY <3>1 DEF BytesInv, SizesKnown
      <3> QED BY <1>1, <1>3, <1>10, <2>2, <2>5, <3>1, <3>2, <3>3, GivenBackBytes
    <2> QED BY <2>4, <2>5
  <1> QED BY <1>11, <1>12

LEMMA NextBytes ==
  ASSUME ScanInv, OnceInv, BytesInv, [Next]_vars
  PROVE  BytesInv'
  BY ClaimReadBytes, EndReadBytes, TakeReadBytes, EndSearchBytes,
     SendResultBytes, CallerStepBytes
  DEF Next, ReadStep, SearchStep

(* However the pools interleave, the items in memory but one have known    *)
(* sizes that together keep to the read-ahead bound, and unsearched_bytes, *)
(* a u64, is what they take: it never goes below zero.                     *)
THEOREM ReadAheadKeepsToTheBound == Spec => []ReadAheadBounded
  <1>1. Spec => [](ScanInv /\ OnceInv /\ BytesInv)
    BY InitIsGood, InitOnce, InitBytes, NextIsGood, NextOnce, NextBytes, PTL
    DEF Spec
  <1>2. ScanInv /\ BytesInv => ReadAheadBounded
    <2> SUFFICES ASSUME ScanInv, BytesInv PROVE ReadAheadBounded OBVIOUS
    <2>1. TypeOK /\ schedule.unsearched_bytes \in Int /\ ReadAheadBytes \in Nat
      BY DataAssumption DEF ScanInv, TypeOK, Schedule
    <2>2. \A i : i \in Outstanding <=> Held(i)
      BY DEF Outstanding, Reading, Searching, SearchersAt, Held, ReaderHas,
             SearcherHas
    <2>3. \A i : Held(i) => i \in Item
      BY DEF ScanInv, TypeOK, ThreadsHoldItems, Held, ReaderHas, SearcherHas,
             Schedule
    <2>4. Outstanding \ {schedule.past_bound} = Counted
      BY <2>2, <2>3 DEF Counted
    <2>5. ASSUME Outstanding # {}
          PROVE  \E past \in Outstanding :
                   /\ \A i \in Outstanding \ {past} : sizes[i] # None
                   /\ BytesOf(Outstanding \ {past}) <= ReadAheadBytes
      <3>1. PICK past \in Outstanding :
              schedule.past_bound \in Outstanding => past = schedule.past_bound
        BY <2>5
      <3> PICK others : others = Outstanding \ {past} OBVIOUS
      <3>2. others \subseteq Counted /\ Counted \in SUBSET Item
        BY <2>4, <3>1 DEF Counted
      <3>3. \A i \in others : sizes[i] # None
        BY <3>2 DEF BytesInv, SizesKnown
      <3>4. BytesOf(others) <= BytesOf(Counted)
        BY <2>1, <3>2, BytesMonotone DEF BytesInv
      <3>5. BytesOf(others) \in Nat /\ BytesOf(Counted) \in Nat
        BY <2>1, <3>2, <3>3, BytesAreFinite DEF BytesInv, SizesKnown
      <3>6. BytesOf(others) <= ReadAheadBytes
        BY <2>1, <3>4, <3>5 DEF BytesInv
      <3> QED BY <3>3, <3>6
    <2> QED BY <2>4, <2>5 DEF ReadAheadBounded, BytesInv
  <1> QED BY <1>1, <1>2, PTL
=============================================================================
