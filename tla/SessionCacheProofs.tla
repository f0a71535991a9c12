------------------------- MODULE SessionCacheProofs -------------------------
(***************************************************************************)
(* Proofs about SessionCache, for every set of sessions, shards, threads   *)
(* and processes, every fault, and any number of changes.                  *)
(*                                                                         *)
(* HitIsCurrent: every entry, on disk or in a thread, was stamped before   *)
(* the content it holds was read, and no content is newer than the         *)
(* transcript's.  So an entry stamped with the transcript's fingerprint    *)
(* can only hold what the transcript holds.                                *)
(*                                                                         *)
(* MergeKeepsOthers: from its lock to its store, a thread that merges      *)
(* holds its process's turn, so that only those who do not ask for it can  *)
(* write the shard it read; then it raced (MergeInv).                      *)
(*                                                                         *)
(* NextLoadParsesNothing: a load that is still quiet knows of each session *)
(* where its current entry is: in the shard, in its hands, or in the row   *)
(* that took it, whose shard it has no reason to write (QuietInv).         *)
(***************************************************************************)
EXTENDS SessionCache, WellFoundedInduction, TLAPS

(* No entry is stamped later than what it holds, or holds what is yet to   *)
(* be written.                                                             *)
Honest(entries, ver) ==
  \A s \in Sessions : entries[s] # None =>
    /\ entries[s].stamp <= entries[s].text
    /\ entries[s].text <= ver[s]

Past(stamps, ver) ==
  \A s \in Sessions : stamps[s] # None => stamps[s] <= ver[s]

Sound(w, ver) ==
  /\ w \in Thread
  /\ Honest(w.read, ver) /\ Honest(w.current, ver) /\ Past(w.stamps, ver)
  /\ w.carried # None => Honest(w.carried, ver)
  /\ w.pc = "migrate" => w.carried # None

CacheHonest ==
  /\ \A i \in Shards : Honest(shard[i], version)
  /\ bin \notin {None, Foreign} => Honest(bin, version)
  /\ \A t \in Threads : Sound(thread[t], version)

HonestInv == TypeOK /\ CacheHonest

-----------------------------------------------------------------------------
(* Operators *)

LEMMA FirstInSet ==
  ASSUME NEW numbers \in SUBSET Nat, numbers # {}
  PROVE  First(numbers) \in numbers
<1>1. PICK i \in numbers : \A j \in numbers : <<j, i>> \notin OpToRel(<, Nat)
  BY NatLessThanWellFounded, WFMin, Zenon
<1>2. \A j \in numbers : ~(j < i)
  BY <1>1, Zenon DEF OpToRel
<1>3. \A j \in numbers : i <= j
  BY <1>2
<1> QED  BY <1>3 DEF First

LEMMA WithinType ==
  ASSUME NEW entries \in Entries, NEW i
  PROVE  Within(entries, i) \in Entries
BY DEF Within, Entries

LEMMA WithinHonest ==
  ASSUME NEW entries \in Entries, NEW i, NEW ver, Honest(entries, ver)
  PROVE  Honest(Within(entries, i), ver)
BY DEF Within, Entries, Honest

LEMMA NoEntriesSound ==
  ASSUME NEW ver
  PROVE  NoEntries \in Entries /\ Honest(NoEntries, ver) /\ Past(NoEntries, ver)
         /\ NoEntries \in [Sessions -> Version \cup {None}]
BY DEF NoEntries, Entries, Honest, Past

LEMMA IdleSound ==
  ASSUME NEW ver PROVE Sound(Idle, ver)
BY NoEntriesSound DEF Idle, Sound, Thread

LEMMA TurnedType ==
  ASSUME NEW i \in Shards, NEW stamps \in [Sessions -> Version \cup {None}],
         NEW pending \in SUBSET Sessions, NEW unread \in SUBSET Sessions
  PROVE  [Idle EXCEPT !.pc = "look", !.task = "stubs", !.at = i,
             !.stamps = stamps, !.pending = pending, !.unread = unread] \in Thread
<1>1. Idle \in Thread
  BY IdleSound DEF Sound
<1> QED  BY <1>1 DEF Thread

LEMMA NextStubsSound ==
  ASSUME NEW ver, NEW w, Sound(w, ver)
  PROVE  Sound(NextStubs(w), ver)
<1>1. CASE w.pending = {}
  BY <1>1, IdleSound DEF NextStubs
<1>2. CASE w.pending # {}
  <2> DEFINE all == {ShardOf[s] : s \in w.pending}
             i == First(all)
             its == {s \in w.pending : ShardOf[s] = i}
  <2>1. w.pending \subseteq Sessions
    BY DEF Sound, Thread
  <2>2. all \in SUBSET Nat /\ all # {} /\ all \subseteq Shards
    BY <1>2, <2>1, ShardAssumption
  <2>3. i \in Shards
    BY <2>2, FirstInSet
  <2>4. its \subseteq Sessions /\ w.pending \ its \subseteq Sessions
    BY <2>1
  <2> HIDE DEF all, i, its
  <2>5. NextStubs(w) = [Idle EXCEPT !.pc = "look", !.task = "stubs", !.at = i,
             !.stamps = w.stamps, !.pending = w.pending \ its, !.unread = its]
    BY <1>2 DEF NextStubs, all, i, its
  <2>6. NextStubs(w) \in Thread
    <3>1. /\ w.stamps \in [Sessions -> Version \cup {None}]
          /\ its \in SUBSET Sessions /\ w.pending \ its \in SUBSET Sessions
      BY <2>4 DEF Sound, Thread
    <3>2. [Idle EXCEPT !.pc = "look", !.task = "stubs", !.at = i,
             !.stamps = w.stamps, !.pending = w.pending \ its, !.unread = its]
            \in Thread
      BY <2>3, <3>1, TurnedType, Zenon
    <3> QED  BY <2>5, <3>2, Zenon
  <2>7. /\ NextStubs(w).read = NoEntries /\ NextStubs(w).current = NoEntries
        /\ NextStubs(w).carried = None /\ NextStubs(w).stamps = w.stamps
        /\ NextStubs(w).pc = "look"
    BY <2>5 DEF Idle
  <2> QED  BY <2>6, <2>7, NoEntriesSound DEF Sound
<1> QED  BY <1>1, <1>2

LEMMA ToMergeSound ==
  ASSUME NEW ver, NEW w, Sound(w, ver)
  PROVE  Sound(ToMerge(w), ver)
<1> DEFINE stamps == [s \in Sessions |->
                        IF s \in w.pending THEN w.stamps[s] ELSE None]
<1>1. stamps \in [Sessions -> Version \cup {None}] /\ Past(stamps, ver)
  BY DEF Sound, Thread, Past
<1> HIDE DEF stamps
<1>2. ToMerge(w) = [Idle EXCEPT !.pc = "lock", !.task = "merge", !.at = w.at,
        !.current = w.current, !.pending = w.pending, !.stamps = stamps]
  BY DEF ToMerge, stamps
<1>3. ToMerge(w) \in Thread
  BY <1>1, <1>2, IdleSound DEF Sound, Thread
<1>4. /\ ToMerge(w).read = NoEntries /\ ToMerge(w).current = w.current
      /\ ToMerge(w).carried = None /\ ToMerge(w).stamps = stamps
      /\ ToMerge(w).pc = "lock"
  BY <1>2 DEF Idle
<1> QED  BY <1>1, <1>3, <1>4, NoEntriesSound DEF Sound

LEMMA LoadedSound ==
  ASSUME NEW ver, NEW w, Sound(w, ver)
  PROVE  Sound(Loaded(w), ver)
<1>1. w.quiet \in BOOLEAN
  BY DEF Sound, Thread
<1> QED  BY <1>1, NoEntriesSound DEF Sound, Thread, Idle, Loaded

LEMMA SettledSound ==
  ASSUME NEW ver, NEW w, Sound(w, ver)
  PROVE  Sound(Settled(w), ver)
<1>1. w.quiet \in BOOLEAN /\ w.current \in Entries /\ Honest(w.current, ver)
  BY DEF Sound, Thread
<1>2. Sound(Loaded(w), ver)
  BY <1>1, NoEntriesSound DEF Sound, Thread, Idle, Loaded
<1>3. Changed(w) \subseteq Shards
  BY ShardAssumption DEF Changed
<1>4. Sound([Loaded(w) EXCEPT !.pc = "write", !.current = w.current,
                              !.left = Changed(w)], ver)
  BY <1>1, <1>3, NoEntriesSound DEF Sound, Thread, Idle, Loaded
<1> QED  BY <1>2, <1>4, ToMergeSound, NextStubsSound DEF Settled

LEMMA WithEntriesSound ==
  ASSUME NEW ver, NEW w, Sound(w, ver),
         NEW entries \in Entries, Honest(entries, ver)
  PROVE  Sound(WithEntries(w, entries), ver)
<1> DEFINE hits == Hits(w, entries)
           rd == [s \in Sessions |->
             IF s \in hits /\ IsListed(entries[s]) THEN None ELSE entries[s]]
           cur == [s \in Sessions |->
             IF s \in hits \ Taken(w, entries) THEN entries[s] ELSE None]
           next == [w EXCEPT !.pc = "parse", !.carried = None, !.hits = hits,
                             !.unread = @ \ hits, !.read = rd, !.current = cur]
<1>1. CASE w.task = "merge"
  BY <1>1 DEF WithEntries, Sound, Thread
<1>2. CASE w.task # "merge"
  <2>1. hits \subseteq Sessions
    BY DEF Hits, Sound, Thread
  <2>2. rd \in Entries /\ cur \in Entries /\ Honest(rd, ver) /\ Honest(cur, ver)
    BY DEF Entries, Honest
  <2> HIDE DEF hits, rd, cur
  <2>3. Sound(next, ver)
    BY <2>1, <2>2 DEF Sound, Thread
  <2>4. WithEntries(w, entries) = Settled(next)
    BY <1>2 DEF WithEntries, hits, rd, cur
  <2> HIDE DEF next
  <2> QED  BY <2>3, <2>4, SettledSound
<1> QED  BY <1>1, <1>2

(* What a load or a read of stubs finds on disk.                           *)
LEMMA OnDiskSound ==
  ASSUME HonestInv, NEW w
  PROVE  OnDisk(w) \in Entries /\ Honest(OnDisk(w), version)
<1>1. ShardOf \in [Sessions -> Shards]
  BY ShardAssumption
<1> QED  BY <1>1 DEF HonestInv, TypeOK, CacheHonest, OnDisk, Entries, Honest

LEMMA StampsSound ==
  ASSUME HonestInv, NEW picked \in SUBSET Sessions
  PROVE  /\ Stamps(picked) \in [Sessions -> Version \cup {None}]
         /\ Past(Stamps(picked), version)
BY DEF HonestInv, TypeOK, Stamps, Past, Version

LEMMA BinIsMap ==
  ASSUME NEW entries \in Entries
  PROVE  entries \notin {None, Foreign}
BY NoneAssumption DEF Entries

-----------------------------------------------------------------------------
(* Steps *)

LEMMA GoesKeeps ==
  ASSUME HonestInv, NEW t \in Threads, NEW w, Sound(w, version), Goes(t, w),
         turn' \in [Processes -> Threads \cup {None}],
         bin' \in {bin, None},
         UNCHANGED <<present, version, shard>>
  PROVE  HonestInv'
<1>1. \A u \in Threads : Sound(thread'[u], version)
  BY DEF HonestInv, TypeOK, CacheHonest, Goes
<1>2. thread' = [u \in Threads |-> thread'[u]]
  BY DEF HonestInv, TypeOK, Goes
<1>3. TypeOK'
  BY <1>1, <1>2 DEF HonestInv, TypeOK, Sound
<1>4. CacheHonest'
  BY <1>1 DEF HonestInv, CacheHonest, Sound, Honest, Past
<1> QED  BY <1>3, <1>4 DEF HonestInv

LEMMA WriteKeeps ==
  ASSUME HonestInv, NEW t \in Threads, NEW i, NEW merging \in BOOLEAN,
         NEW entries \in Entries, Honest(entries, version),
         NEW next, Sound(next, version),
         write_shard(t, i, entries, merging, next),
         turn' \in [Processes -> Threads \cup {None}],
         UNCHANGED <<present, version, bin>>
  PROVE  HonestInv'
<1>1. PICK done \in Outcomes("write") :
        /\ shard' = IF done THEN [shard EXCEPT ![i] = Within(entries, i)] ELSE shard
        /\ thread' = [u \in Threads |->
             IF u = t THEN [next EXCEPT !.quiet = @ /\ done,
                                        !.raced = @ \/ (~done /\ next.task = "merge")]
             ELSE [thread[u] EXCEPT
                     !.quiet = FALSE,
                     !.raced = \/ @
                               \/ /\ turn[ProcessOf[u]] = u /\ thread[u].at = i
                                  /\ ~(merging /\ ProcessOf[u] = ProcessOf[t])]]
  BY DEF write_shard
<1>2. /\ shard' \in [Shards -> Entries]
      /\ \A j \in Shards : Honest(shard'[j], version)
  BY <1>1, WithinType, WithinHonest DEF HonestInv, TypeOK, CacheHonest
<1>3. ASSUME NEW w, Sound(w, version), NEW q \in BOOLEAN, NEW r \in BOOLEAN
      PROVE  Sound([w EXCEPT !.quiet = q, !.raced = r], version)
  <2> DEFINE to == [w EXCEPT !.quiet = q, !.raced = r]
  <2>1. to \in Thread
    BY <1>3 DEF Sound, Thread
  <2>2. /\ to.read = w.read /\ to.current = w.current /\ to.carried = w.carried
        /\ to.stamps = w.stamps /\ to.pc = w.pc
    BY <1>3 DEF Sound, Thread
  <2> HIDE DEF to
  <2>3. Sound(to, version)
    BY <1>3, <2>1, <2>2 DEF Sound
  <2> QED  BY <2>3 DEF to
<1>4. \A u \in Threads : Sound(thread'[u], version)
  <2> SUFFICES ASSUME NEW u \in Threads PROVE Sound(thread'[u], version)
    OBVIOUS
  <2>1. CASE u = t
    <3> DEFINE q == next.quiet /\ done
               r == next.raced \/ (~done /\ next.task = "merge")
    <3>1. q \in BOOLEAN /\ r \in BOOLEAN
      OBVIOUS
    <3>2. thread'[u] = [next EXCEPT !.quiet = q, !.raced = r]
      BY <1>1, <2>1
    <3> HIDE DEF q, r
    <3>3. Sound([next EXCEPT !.quiet = q, !.raced = r], version)
      BY <1>3, <3>1, Zenon
    <3> QED  BY <3>2, <3>3, Zenon
  <2>2. CASE u # t
    <3> DEFINE r == \/ thread[u].raced
                    \/ /\ turn[ProcessOf[u]] = u /\ thread[u].at = i
                       /\ ~(merging /\ ProcessOf[u] = ProcessOf[t])
    <3>1. r \in BOOLEAN /\ Sound(thread[u], version)
      BY DEF HonestInv, CacheHonest
    <3>2. thread'[u] = [thread[u] EXCEPT !.quiet = FALSE, !.raced = r]
      BY <1>1, <2>2
    <3> HIDE DEF r
    <3>3. Sound([thread[u] EXCEPT !.quiet = FALSE, !.raced = r], version)
      BY <1>3, <3>1, Zenon
    <3> QED  BY <3>2, <3>3, Zenon
  <2> QED  BY <2>1, <2>2
<1>5. thread' = [u \in Threads |-> thread'[u]]
  BY <1>1
<1>6. TypeOK'
  BY <1>2, <1>4, <1>5 DEF HonestInv, TypeOK, Sound
<1>7. CacheHonest'
  BY <1>2, <1>4 DEF HonestInv, CacheHonest, Sound, Honest, Past
<1> QED  BY <1>6, <1>7 DEF HonestInv

LEMMA InitHonest ==
  Init => HonestInv
<1> SUFFICES ASSUME Init PROVE HonestInv
  OBVIOUS
<1> DEFINE old == [s \in Sessions |-> [stamp |-> 1, text |-> 1]]
<1>1. 1 \in Version
  BY ThreadAssumption DEF Version
<1>2. old \in Entries /\ (version = [s \in Sessions |-> 1] => Honest(old, version))
  BY <1>1 DEF Entries, Entry, Honest
<1>3. bin \in {None, Foreign, old}
  BY DEF Init
<1> HIDE DEF old
<1>4. TypeOK
  <2>1. thread \in [Threads -> Thread]
    BY IdleSound DEF Init, Sound
  <2> QED  BY <1>1, <1>2, <1>3, <2>1, NoEntriesSound DEF Init, TypeOK
<1>5. CacheHonest
  BY <1>2, <1>3, NoEntriesSound, IdleSound DEF Init, CacheHonest
<1> QED  BY <1>4, <1>5 DEF HonestInv

LEMMA ChangesKeepHonest ==
  ASSUME HonestInv, NEW s \in Sessions, Change(s) \/ Delete(s)
  PROVE  HonestInv'
<1>1. /\ thread' = Unsettled
      /\ UNCHANGED <<shard, bin, turn>>
      /\ present' \subseteq Sessions
  BY DEF Change, Delete, HonestInv, TypeOK
<1>2. /\ version' \in [Sessions -> Version]
      /\ \A x \in Sessions : version[x] <= version'[x]
  BY ThreadAssumption DEF Change, Delete, HonestInv, TypeOK, Version
<1>3. \A x \in Sessions : version[x] \in Nat /\ version'[x] \in Nat
  BY <1>2 DEF HonestInv, TypeOK, Version
<1>4. ASSUME NEW entries \in Entries, Honest(entries, version)
      PROVE  Honest(entries, version')
  <2> SUFFICES ASSUME NEW x \in Sessions, entries[x] # None
               PROVE  entries[x].stamp <= entries[x].text /\ entries[x].text <= version'[x]
    BY DEF Honest
  <2>1. entries[x].text \in Nat
    BY DEF Entries, Entry, Version
  <2> QED  BY <1>2, <1>3, <1>4, <2>1 DEF Honest
<1>5. ASSUME NEW w, Sound(w, version)
      PROVE  Sound([w EXCEPT !.quiet = FALSE], version')
  <2>1. w \in Thread /\ [w EXCEPT !.quiet = FALSE] \in Thread
    BY <1>5 DEF Sound, Thread
  <2>2. Past(w.stamps, version')
    <3> SUFFICES ASSUME NEW x \in Sessions, w.stamps[x] # None
                 PROVE  w.stamps[x] <= version'[x]
      BY DEF Past
    <3>1. w.stamps[x] \in Nat
      BY <2>1 DEF Thread, Version
    <3> QED  BY <1>2, <1>3, <1>5, <3>1 DEF Sound, Past
  <2>3. /\ w.read \in Entries /\ w.current \in Entries
        /\ w.carried \in Entries \cup {None}
    BY <2>1 DEF Thread
  <2> QED  BY <1>4, <1>5, <2>1, <2>2, <2>3 DEF Sound, Thread
<1>6. \A t \in Threads : Sound(thread'[t], version')
  BY <1>1, <1>5 DEF Unsettled, HonestInv, CacheHonest
<1>7. TypeOK'
  BY <1>1, <1>2, <1>6 DEF Unsettled, HonestInv, TypeOK, Sound
<1>8. CacheHonest'
  BY <1>1, <1>4, <1>6 DEF HonestInv, TypeOK, CacheHonest
<1> QED  BY <1>7, <1>8 DEF HonestInv

LEMMA StepKeepsHonest ==
  ASSUME HonestInv, NEW t \in Threads, Step(t)
  PROVE  HonestInv'
<1> DEFINE w == thread[t]
<1>1. /\ Sound(w, version) /\ w \in Thread
      /\ turn \in [Processes -> Threads \cup {None}]
  BY DEF HonestInv, TypeOK, CacheHonest
<1> HIDE DEF w
<1>2. CASE StartLoad(t)
  <2> DEFINE next == [Idle EXCEPT !.pc = "look", !.stamps = Stamps(present),
                                  !.unread = present, !.quiet = TRUE]
  <2>1. present \in SUBSET Sessions
    BY DEF HonestInv, TypeOK
  <2>2. next \in Thread
    BY <2>1, StampsSound, IdleSound DEF Sound, Thread
  <2>3. /\ next.read = NoEntries /\ next.current = NoEntries
        /\ next.carried = None /\ next.stamps = Stamps(present)
        /\ next.pc = "look"
    BY DEF Idle
  <2>4. Sound(next, version)
    BY <2>1, <2>2, <2>3, StampsSound, NoEntriesSound DEF Sound
  <2>5. Goes(t, next) /\ UNCHANGED <<present, version, shard, bin, turn>>
    BY <1>2 DEF StartLoad
  <2> HIDE DEF next
  <2> QED  BY <1>1, <2>4, <2>5, GoesKeeps
<1>3. CASE StartStubs(t)
  <2>1. PICK picked \in SUBSET present \ {{}} :
          Goes(t, NextStubs([Idle EXCEPT !.stamps = Stamps(picked),
                                         !.pending = picked]))
    BY <1>3 DEF StartStubs
  <2> DEFINE from == [Idle EXCEPT !.stamps = Stamps(picked), !.pending = picked]
  <2>2. picked \in SUBSET Sessions
    BY DEF HonestInv, TypeOK
  <2>3. from \in Thread
    BY <2>2, StampsSound, IdleSound DEF Sound, Thread
  <2>4. /\ from.read = NoEntries /\ from.current = NoEntries
        /\ from.carried = None /\ from.stamps = Stamps(picked)
        /\ from.pc = "idle"
    BY DEF Idle
  <2>5. Sound(from, version)
    BY <2>2, <2>3, <2>4, StampsSound, NoEntriesSound DEF Sound
  <2>6. Goes(t, NextStubs(from)) /\ UNCHANGED <<present, version, shard, bin, turn>>
    BY <1>3, <2>1 DEF StartStubs
  <2> HIDE DEF from
  <2> QED  BY <1>1, <2>5, <2>6, NextStubsSound, GoesKeeps
<1>4. CASE Look(t)
  <2>1. UNCHANGED <<present, version, shard, bin, turn>>
    BY <1>4 DEF Look
  <2>2. CASE bin = None
    <3> bin # Foreign
      BY <2>2, NoneAssumption
    <3>1. Goes(t, WithEntries(w, OnDisk(w)))
      BY <1>4, <2>2 DEF Look, w
    <3>2. Sound(WithEntries(w, OnDisk(w)), version)
      BY <1>1, OnDiskSound, WithEntriesSound
    <3> QED  BY <1>1, <2>1, <3>1, <3>2, GoesKeeps
  <2>3. CASE bin = Foreign
    <3> bin # None
      BY <2>3, NoneAssumption
    <3>1. Goes(t, [w EXCEPT !.pc = "unlink"])
      BY <1>4, <2>3 DEF Look, w
    <3>2. Sound([w EXCEPT !.pc = "unlink"], version)
      BY <1>1 DEF Sound, Thread
    <3> QED  BY <1>1, <2>1, <3>1, <3>2, GoesKeeps
  <2>4. CASE bin \notin {None, Foreign}
    <3>1. Goes(t, [w EXCEPT !.pc = "migrate", !.carried = bin, !.left = Shards])
      BY <1>4, <2>4 DEF Look, w
    <3>2. bin \in Entries /\ Honest(bin, version)
      BY <2>4 DEF HonestInv, TypeOK, CacheHonest
    <3> DEFINE next == [w EXCEPT !.pc = "migrate", !.carried = bin, !.left = Shards]
    <3>3. next \in Thread
      BY <1>1, <3>2 DEF Thread
    <3>4. /\ next.read = w.read /\ next.current = w.current /\ next.carried = bin
          /\ next.stamps = w.stamps
      BY <1>1 DEF Thread
    <3>5. Sound(next, version)
      BY <1>1, <2>4, <3>2, <3>3, <3>4 DEF Sound
    <3> QED  BY <1>1, <2>1, <3>1, <3>5, GoesKeeps
  <2> QED  BY <2>2, <2>3, <2>4
<1>5. CASE Unlink(t)
  <2>1. PICK done \in Outcomes("remove") :
          /\ bin' = IF done THEN None ELSE bin
          /\ Goes(t, WithEntries([w EXCEPT !.quiet = @ /\ done],
                       IF w.carried = None THEN OnDisk(w) ELSE InShards(w, w.carried)))
    BY <1>5 DEF Unlink, w
  <2> DEFINE from == [w EXCEPT !.quiet = @ /\ done]
             entries == IF w.carried = None THEN OnDisk(w) ELSE InShards(w, w.carried)
  <2>2. Sound(from, version)
    <3> DEFINE q == w.quiet /\ done
    <3>1. q \in BOOLEAN
      OBVIOUS
    <3>2. from = [w EXCEPT !.quiet = q]
      OBVIOUS
    <3> HIDE DEF q, from
    <3> QED  BY <1>1, <3>1, <3>2 DEF Sound, Thread
  <2>3. entries \in Entries /\ Honest(entries, version)
    BY <1>1, OnDiskSound, WithinType, WithinHonest DEF InShards, Sound, Thread
  <2>4. /\ Goes(t, WithEntries(from, entries)) /\ bin' \in {bin, None}
        /\ UNCHANGED <<present, version, shard, turn>>
    BY <1>5, <2>1 DEF Unlink
  <2> HIDE DEF from, entries
  <2> QED  BY <1>1, <2>2, <2>3, <2>4, WithEntriesSound, GoesKeeps
<1>6. CASE Migrate(t)
  <2> DEFINE next == [w EXCEPT !.left = @ \ {First(w.left)},
                        !.pc = IF w.left = {First(w.left)} THEN "unlink" ELSE @]
  <2>1. Sound(next, version)
    <3>1. w.carried # None /\ w.carried \in Entries
      BY <1>1, <1>6 DEF Migrate, w, Sound, Thread
    <3>2. next \in Thread
      BY <1>1 DEF Thread
    <3> QED  BY <1>1, <3>1, <3>2 DEF Sound, Thread
  <2>2. /\ write_shard(t, First(w.left), w.carried, FALSE, next)
        /\ UNCHANGED <<present, version, bin, turn>>
    BY <1>6 DEF Migrate, w
  <2> HIDE DEF next
  <2>3. w.carried \in Entries /\ Honest(w.carried, version)
    BY <1>1, <1>6 DEF Migrate, w, Sound, Thread
  <2> QED  BY <1>1, <2>1, <2>2, <2>3, WriteKeeps
<1>7. CASE \E s \in Sessions : Parse(t, s)
  <2>1. PICK s \in Sessions : Parse(t, s)
    BY <1>7
  <2> DEFINE next == [w EXCEPT !.unread = @ \ {s}]
             read == [stamp |-> w.stamps[s], text |-> version[s]]
  <2>2. Sound(next, version) /\ UNCHANGED <<present, version, shard, bin, turn>>
    BY <1>1, <2>1 DEF Parse, Sound, Thread
  <2>3. CASE /\ w.stamps[s] # None
             /\ Goes(t, Settled([next EXCEPT !.current[s] = read]))
    <3>1. version[s] \in Version /\ w.stamps[s] \in Version
          /\ w.stamps[s] <= version[s]
      BY <1>1, <2>3 DEF HonestInv, TypeOK, Sound, Thread, Past
    <3>2. read \in Entry
      BY <3>1 DEF Entry
    <3>3. [next.current EXCEPT ![s] = read] \in Entries
      BY <2>2, <3>2 DEF Sound, Thread, Entries
    <3>4. Honest([next.current EXCEPT ![s] = read], version)
      BY <2>2, <3>1, NoneAssumption DEF Sound, Thread, Entries, Honest, Version
    <3> HIDE DEF read, next
    <3>5. Sound([next EXCEPT !.current[s] = read], version)
      BY <2>2, <3>3, <3>4 DEF Sound, Thread
    <3> QED  BY <1>1, <2>2, <2>3, <3>5, SettledSound, GoesKeeps
  <2>4. CASE Goes(t, Settled([next EXCEPT !.quiet = FALSE]))
    <3> HIDE DEF next
    <3>1. Sound([next EXCEPT !.quiet = FALSE], version)
      BY <2>2, ZenonT(60) DEF Sound, Thread
    <3> QED  BY <1>1, <2>2, <2>4, <3>1, SettledSound, GoesKeeps
  <2> QED  BY <2>1, <2>3, <2>4 DEF Parse, w
<1>8. CASE Write(t)
  <2> DEFINE i == First(w.left)
             next == IF w.left = {i} THEN Loaded(w) ELSE [w EXCEPT !.left = @ \ {i}]
  <2>1. /\ write_shard(t, i, w.current, FALSE, next)
        /\ UNCHANGED <<present, version, bin, turn>>
    BY <1>8 DEF Write, w
  <2>2. Sound([w EXCEPT !.left = @ \ {i}], version)
    BY <1>1 DEF Sound, Thread
  <2>3. Sound(Loaded(w), version)
    BY <1>1, LoadedSound
  <2>4. w.current \in Entries /\ Honest(w.current, version)
    BY <1>1 DEF Sound, Thread
  <2> HIDE DEF i
  <2>5. Sound(next, version)
    BY <2>2, <2>3
  <2> HIDE DEF next
  <2> QED  BY <1>1, <2>1, <2>4, <2>5, WriteKeeps
<1>9. CASE Lock(t)
  <2>1. Goes(t, [w EXCEPT !.pc = "look"]) /\ UNCHANGED <<present, version, shard, bin>>
    BY <1>9 DEF Lock, w
  <2>2. Sound([w EXCEPT !.pc = "look"], version)
    BY <1>1 DEF Sound, Thread
  <2>3. turn' \in [Processes -> Threads \cup {None}]
    BY <1>1, <1>9 DEF Lock
  <2> QED  BY <2>1, <2>2, <2>3, GoesKeeps
<1>10. CASE Store(t)
  <2>1. /\ write_shard(t, w.at, Extend(w.read, w.current), TRUE, NextStubs(w))
        /\ UNCHANGED <<present, version, bin>>
    BY <1>10 DEF Store, w
  <2>2. turn' \in [Processes -> Threads \cup {None}]
    BY <1>1, <1>10 DEF Store
  <2>3. /\ Extend(w.read, w.current) \in Entries
        /\ Honest(Extend(w.read, w.current), version)
    BY <1>1 DEF Extend, Sound, Thread, Entries, Honest
  <2>4. Sound(NextStubs(w), version)
    BY <1>1, NextStubsSound
  <2> QED  BY <2>1, <2>2, <2>3, <2>4, WriteKeeps
<1> QED  BY <1>2, <1>3, <1>4, <1>5, <1>6, <1>7, <1>8, <1>9, <1>10 DEF Step

LEMMA CrashKeepsHonest ==
  ASSUME HonestInv, NEW p \in Processes, Crash(p)
  PROVE  HonestInv'
<1>1. /\ UNCHANGED <<present, version, shard, bin>>
      /\ turn' \in [Processes -> Threads \cup {None}]
  BY DEF Crash, HonestInv, TypeOK
<1>2. \A t \in Threads : Sound(thread'[t], version)
  BY IdleSound DEF Crash, HonestInv, CacheHonest
<1>3. TypeOK'
  BY <1>1, <1>2 DEF Crash, HonestInv, TypeOK, Sound
<1>4. CacheHonest'
  BY <1>1, <1>2 DEF HonestInv, CacheHonest, Sound, Honest, Past
<1> QED  BY <1>3, <1>4 DEF HonestInv

(* Every entry, on disk or in a thread's hands, was stamped before its     *)
(* content was read, through every merge, migration, fault and crash.      *)
THEOREM CacheIsHonest == Spec => []HonestInv
<1>1. Init => HonestInv
  BY InitHonest
<1>2. HonestInv /\ [Next]_vars => HonestInv'
  <2> SUFFICES ASSUME HonestInv, [Next]_vars PROVE HonestInv'
    OBVIOUS
  <2>1. CASE UNCHANGED vars
    BY <2>1 DEF vars, HonestInv, TypeOK, CacheHonest, Sound, Honest, Past
  <2> QED  BY <2>1, ChangesKeepHonest, StepKeepsHonest, CrashKeepsHonest DEF Next
<1> QED  BY <1>1, <1>2, PTL DEF Spec

(* The cache's files and its threads hold what their types allow.          *)
THEOREM CacheTypeCorrect == Spec => []TypeOK
<1>1. HonestInv => TypeOK
  BY DEF HonestInv
<1> QED  BY <1>1, CacheIsHonest, PTL

(* A session whose transcript still has its entry's fingerprint is listed  *)
(* with what the transcript holds.                                         *)
THEOREM HitsAreCurrent == Spec => []HitIsCurrent
<1>1. HonestInv => HitIsCurrent
  <2> SUFFICES ASSUME HonestInv, NEW s \in Sessions, IsCurrent(s)
               PROVE  Stored(s).text = version[s]
    BY DEF HitIsCurrent
  <2>1. /\ Stored(s) \in Entry /\ Stored(s).stamp = version[s]
        /\ Stored(s).stamp <= Stored(s).text /\ Stored(s).text <= version[s]
    BY ShardAssumption
       DEF HonestInv, TypeOK, CacheHonest, Honest, Stored, IsCurrent, Entries
  <2>2. Stored(s).text \in Nat /\ version[s] \in Nat
    BY <2>1 DEF HonestInv, TypeOK, Entry, Version
  <2> QED  BY <2>1, <2>2
<1> QED  BY <1>1, CacheIsHonest, PTL

-----------------------------------------------------------------------------
(* Merges *)

(* A thread that merges, from the lock to the store, has its turn; what it *)
(* migrates and what it read is what its shard holds, unless it raced.     *)
Merging(w) == w.task = "merge" /\ w.pc \in {"look", "migrate", "unlink", "store"}

ReadsItsShard(w, files) ==
  w.task = "merge" /\ ~w.raced =>
    /\ w.pc = "store" =>
         \A s \in Sessions : ShardOf[s] = w.at => w.read[s] = files[w.at][s]
    /\ \/ w.pc = "migrate" /\ w.at \notin w.left
       \/ w.pc = "unlink" /\ w.carried # None
       => files[w.at] = Within(w.carried, w.at)

MergeSafe(w, files) ==
  /\ w.pc \in {"lock", "store"} => w.task = "merge"
  /\ w.task = "merge" => w.at \in Shards /\ w.pc # "parse"
  /\ w.pc \in {"lock", "look"} => w.carried = None
  /\ ReadsItsShard(w, files)

MergeInv ==
  \A t \in Threads :
    /\ Merging(thread[t]) => turn[ProcessOf[t]] = t
    /\ MergeSafe(thread[t], shard)


LEMMA NextStubsFresh ==
  ASSUME NEW w
  PROVE  /\ NextStubs(w).task # "merge" /\ ~NextStubs(w).quiet
         /\ NextStubs(w).pc \in {"idle", "look"} /\ NextStubs(w).carried = None
BY DEF NextStubs, Idle

LEMMA ToMergeFresh ==
  ASSUME NEW w
  PROVE  /\ ToMerge(w).pc = "lock" /\ ToMerge(w).task = "merge"
         /\ ToMerge(w).at = w.at /\ ~ToMerge(w).quiet /\ ToMerge(w).carried = None
BY DEF ToMerge, Idle

LEMMA LoadedFresh ==
  ASSUME NEW w
  PROVE  /\ Loaded(w).pc = "idle" /\ Loaded(w).task = "load"
         /\ Loaded(w).quiet = w.quiet /\ Loaded(w).left = {}
BY DEF Loaded, Idle

(* Only a read of stubs goes on to a merge, of the shard it is at.         *)
LEMMA NotMergingSafe ==
  ASSUME NEW w, NEW files, w.task # "merge", w.pc \notin {"lock", "store"},
         w.pc = "look" => w.carried = None
  PROVE  MergeSafe(w, files) /\ ~Merging(w)
BY DEF MergeSafe, Merging, ReadsItsShard

(* A thread that misses stands at one of the shards.                       *)
LEMMA SettledSafe ==
  ASSUME NEW ver, NEW w, Sound(w, ver), NEW files, w.task # "merge",
         w.pc \notin {"lock", "look", "store"}
  PROVE  MergeSafe(Settled(w), files) /\ ~Merging(Settled(w))
<1>1. MergeSafe(w, files) /\ ~Merging(w)
  BY NotMergingSafe
<1>2. MergeSafe(NextStubs(w), files) /\ ~Merging(NextStubs(w))
  BY NextStubsFresh, NotMergingSafe
<1>3. MergeSafe(Loaded(w), files) /\ ~Merging(Loaded(w))
  BY LoadedFresh, NotMergingSafe
<1>4. PICK next : next = [Loaded(w) EXCEPT !.pc = "write", !.current = w.current,
                                           !.left = Changed(w)]
  OBVIOUS
<1>5. MergeSafe(next, files) /\ ~Merging(next)
  <2>1. next.task = "load" /\ next.pc = "write"
    BY <1>4 DEF Loaded, Idle
  <2> QED  BY <2>1, NotMergingSafe
<1>6. ASSUME IsMissed(w) PROVE MergeSafe(ToMerge(w), files) /\ ~Merging(ToMerge(w))
  <2>1. w.at \in Shards
    BY <1>6, ShardAssumption DEF IsMissed
  <2> QED  BY <2>1, ToMergeFresh DEF MergeSafe, Merging, ReadsItsShard
<1> QED  BY <1>1, <1>2, <1>3, <1>4, <1>5, <1>6 DEF Settled

LEMMA WithEntriesSafe ==
  ASSUME NEW ver, NEW w, Sound(w, ver), NEW files, MergeSafe(w, files),
         NEW entries \in Entries, Honest(entries, ver),
         w.task = "merge" /\ ~w.raced =>
           \A s \in Sessions : ShardOf[s] = w.at => entries[s] = files[w.at][s]
  PROVE  /\ MergeSafe(WithEntries(w, entries), files)
         /\ Merging(WithEntries(w, entries)) => w.task = "merge"
<1>1. CASE w.task = "merge"
  <2>1. PICK next : next = [w EXCEPT !.pc = "store", !.read = entries, !.carried = None]
    OBVIOUS
  <2>2. /\ next.pc = "store" /\ next.task = w.task /\ next.read = entries
        /\ next.at = w.at /\ next.raced = w.raced
    BY <2>1 DEF Sound, Thread
  <2>3. MergeSafe(next, files)
    BY <1>1, <2>2 DEF MergeSafe, ReadsItsShard
  <2> QED  BY <1>1, <2>1, <2>3 DEF WithEntries
<1>2. CASE w.task # "merge"
  <2> DEFINE hits == Hits(w, entries)
             rd == [s \in Sessions |->
               IF s \in hits /\ IsListed(entries[s]) THEN None ELSE entries[s]]
             cur == [s \in Sessions |->
               IF s \in hits \ Taken(w, entries) THEN entries[s] ELSE None]
  <2>1. PICK next : next = [w EXCEPT !.pc = "parse", !.carried = None, !.hits = hits,
                             !.unread = @ \ hits, !.read = rd, !.current = cur]
    OBVIOUS
  <2>2. hits \subseteq Sessions
    BY DEF Hits, Sound, Thread
  <2>3. rd \in Entries /\ cur \in Entries /\ Honest(rd, ver) /\ Honest(cur, ver)
    BY DEF Entries, Honest
  <2>4. WithEntries(w, entries) = Settled(next)
    BY <1>2, <2>1 DEF WithEntries
  <2> HIDE DEF hits, rd, cur
  <2>5. Sound(next, ver) /\ next.task = w.task /\ next.pc = "parse"
    BY <2>1, <2>2, <2>3 DEF Sound, Thread
  <2>6. MergeSafe(Settled(next), files) /\ ~Merging(Settled(next))
    BY <1>2, <2>5, SettledSafe
  <2> QED  BY <2>4, <2>6
<1> QED  BY <1>1, <1>2

LEMMA GoesKeepsMerges ==
  ASSUME HonestInv, MergeInv, NEW t \in Threads, NEW w, MergeSafe(w, shard),
         Goes(t, w), UNCHANGED shard,
         Merging(w) => turn'[ProcessOf[t]] = t,
         \A u \in Threads \ {t} : Merging(thread[u])
           => turn'[ProcessOf[u]] = turn[ProcessOf[u]]
  PROVE  MergeInv'
<1> SUFFICES ASSUME NEW u \in Threads
             PROVE  /\ Merging(thread'[u]) => turn'[ProcessOf[u]] = u
                    /\ MergeSafe(thread'[u], shard)
  BY DEF MergeInv, MergeSafe, Merging, ReadsItsShard
<1>1. thread'[u] = IF u = t THEN w ELSE thread[u]
  BY DEF Goes, HonestInv, TypeOK
<1> QED  BY <1>1 DEF MergeInv

(* What a write of a shard leaves in a thread's hands.                     *)
LEMMA MarkedThread ==
  ASSUME NEW w \in Thread, NEW q \in BOOLEAN, NEW r \in BOOLEAN
  PROVE  LET to == [w EXCEPT !.quiet = q, !.raced = r] IN
         /\ to.pc = w.pc /\ to.task = w.task /\ to.at = w.at /\ to.left = w.left
         /\ to.read = w.read /\ to.carried = w.carried /\ to.current = w.current
         /\ to.stamps = w.stamps /\ to.unread = w.unread /\ to.hits = w.hits
         /\ to.quiet = q /\ to.raced = r
BY DEF Thread

(* A thread of one's own that another's write does not touch, or marks.    *)
LEMMA MarkedSafe ==
  ASSUME NEW w \in Thread, NEW q \in BOOLEAN, NEW r \in BOOLEAN,
         NEW files, NEW after, MergeSafe(w, files), w.raced => r,
         ~r /\ w.task = "merge" => after[w.at] = files[w.at]
  PROVE  /\ MergeSafe([w EXCEPT !.quiet = q, !.raced = r], after)
         /\ Merging([w EXCEPT !.quiet = q, !.raced = r]) = Merging(w)
<1>1. PICK to : to = [w EXCEPT !.quiet = q, !.raced = r]
  OBVIOUS
<1>2. /\ to.pc = w.pc /\ to.task = w.task /\ to.at = w.at /\ to.left = w.left
      /\ to.read = w.read /\ to.carried = w.carried /\ to.raced = r
  BY <1>1, MarkedThread
<1>3. MergeSafe(to, after)
  BY <1>2 DEF MergeSafe, ReadsItsShard
<1>4. Merging(to) = Merging(w)
  BY <1>2 DEF Merging
<1> QED  BY <1>1, <1>3, <1>4

LEMMA WriteKeepsMerges ==
  ASSUME HonestInv, MergeInv, NEW t \in Threads, NEW i, NEW merging \in BOOLEAN,
         NEW entries \in Entries, NEW next \in Thread,
         write_shard(t, i, entries, merging, next),
         merging => turn[ProcessOf[t]] = t,
         MergeSafe(next, [shard EXCEPT ![i] = Within(entries, i)]),
         Merging(next) => turn'[ProcessOf[t]] = t,
         \A u \in Threads \ {t} : Merging(thread[u])
           => turn'[ProcessOf[u]] = turn[ProcessOf[u]]
  PROVE  MergeInv'
<1>1. PICK done \in Outcomes("write") :
        /\ shard' = IF done THEN [shard EXCEPT ![i] = Within(entries, i)] ELSE shard
        /\ thread' = [u \in Threads |->
             IF u = t THEN [next EXCEPT !.quiet = @ /\ done,
                                        !.raced = @ \/ (~done /\ next.task = "merge")]
             ELSE [thread[u] EXCEPT
                     !.quiet = FALSE,
                     !.raced = \/ @
                               \/ /\ turn[ProcessOf[u]] = u /\ thread[u].at = i
                                  /\ ~(merging /\ ProcessOf[u] = ProcessOf[t])]]
  BY DEF write_shard
<1> SUFFICES ASSUME NEW u \in Threads
             PROVE  /\ Merging(thread'[u]) => turn'[ProcessOf[u]] = u
                    /\ MergeSafe(thread'[u], shard')
  BY DEF MergeInv, MergeSafe, Merging, ReadsItsShard
<1>2. CASE u = t
  <2>1. PICK q \in BOOLEAN : q = (next.quiet /\ done)
    OBVIOUS
  <2>2. PICK r \in BOOLEAN : r = (next.raced \/ (~done /\ next.task = "merge"))
    OBVIOUS
  <2>3. thread'[u] = [next EXCEPT !.quiet = q, !.raced = r]
    BY <1>1, <1>2, <2>1, <2>2
  <2>4. PICK after : after = [shard EXCEPT ![i] = Within(entries, i)]
    OBVIOUS
  <2>5. ~r /\ next.task = "merge" => shard'[next.at] = after[next.at]
    BY <1>1, <2>2, <2>4
  <2>6. /\ MergeSafe([next EXCEPT !.quiet = q, !.raced = r], shard')
        /\ Merging([next EXCEPT !.quiet = q, !.raced = r]) = Merging(next)
    BY <2>2, <2>4, <2>5, MarkedSafe
  <2> QED  BY <1>2, <2>3, <2>6
<1>3. CASE u # t
  <2>1. PICK r \in BOOLEAN :
          r = \/ thread[u].raced
              \/ /\ turn[ProcessOf[u]] = u /\ thread[u].at = i
                 /\ ~(merging /\ ProcessOf[u] = ProcessOf[t])
    OBVIOUS
  <2>2. thread'[u] = [thread[u] EXCEPT !.quiet = FALSE, !.raced = r]
    BY <1>1, <1>3, <2>1
  <2>3. thread[u] \in Thread /\ MergeSafe(thread[u], shard)
    BY DEF HonestInv, TypeOK, MergeInv
  <2>4. Merging(thread[u]) /\ ~r => shard'[thread[u].at] = shard[thread[u].at]
    <3> SUFFICES ASSUME Merging(thread[u]), ~r
                 PROVE  shard'[thread[u].at] = shard[thread[u].at]
      OBVIOUS
    <3>1. turn[ProcessOf[u]] = u
      BY DEF MergeInv
    <3>2. thread[u].at # i
      BY <1>3, <2>1, <3>1
    <3>3. thread[u].at \in Shards
      BY <2>3 DEF MergeSafe, Merging
    <3> QED  BY <1>1, <3>2, <3>3 DEF HonestInv, TypeOK
  <2>5. CASE Merging(thread[u])
    <3>1. ~r /\ thread[u].task = "merge" => shard'[thread[u].at] = shard[thread[u].at]
      BY <2>4, <2>5
    <3>2. /\ MergeSafe([thread[u] EXCEPT !.quiet = FALSE, !.raced = r], shard')
          /\ Merging([thread[u] EXCEPT !.quiet = FALSE, !.raced = r])
               = Merging(thread[u])
      BY <2>1, <2>3, <3>1, MarkedSafe
    <3> QED  BY <1>3, <2>2, <2>5, <3>2 DEF MergeInv
  <2>6. CASE ~Merging(thread[u])
    <3>1. PICK to : to = [thread[u] EXCEPT !.quiet = FALSE, !.raced = r]
      OBVIOUS
    <3>2. /\ to.pc = thread[u].pc /\ to.task = thread[u].task /\ to.at = thread[u].at
      BY <2>3, <3>1, MarkedThread
    <3> QED  BY <2>2, <2>3, <2>6, <3>1, <3>2 DEF MergeSafe, Merging, ReadsItsShard
  <2> QED  BY <2>5, <2>6
<1> QED  BY <1>2, <1>3

LEMMA InitMerges ==
  Init => MergeInv
<1>1. Idle.task # "merge" /\ Idle.pc = "idle"
  BY DEF Idle
<1>2. MergeSafe(Idle, shard) /\ ~Merging(Idle)
  BY <1>1, NotMergingSafe
<1> QED  BY <1>2 DEF Init, MergeInv

LEMMA ChangesKeepMerges ==
  ASSUME HonestInv, MergeInv, NEW s \in Sessions, Change(s) \/ Delete(s)
  PROVE  MergeInv'
<1>1. UNCHANGED <<shard, turn>> /\ thread' = Unsettled
  BY DEF Change, Delete
<1> SUFFICES ASSUME NEW u \in Threads
             PROVE  /\ Merging(thread'[u]) => turn[ProcessOf[u]] = u
                    /\ MergeSafe(thread'[u], shard)
  BY <1>1 DEF MergeInv, MergeSafe, Merging, ReadsItsShard
<1>2. thread[u] \in Thread
  BY DEF HonestInv, TypeOK
<1>3. PICK to : to = [thread[u] EXCEPT !.quiet = FALSE]
  OBVIOUS
<1>4. /\ to.pc = thread[u].pc /\ to.task = thread[u].task /\ to.at = thread[u].at
      /\ to.left = thread[u].left /\ to.read = thread[u].read
      /\ to.carried = thread[u].carried /\ to.raced = thread[u].raced
  BY <1>2, <1>3 DEF Thread
<1>5. thread'[u] = to
  BY <1>1, <1>3 DEF Unsettled
<1> QED  BY <1>4, <1>5 DEF MergeInv, MergeSafe, Merging, ReadsItsShard

LEMMA CrashKeepsMerges ==
  ASSUME HonestInv, MergeInv, NEW p \in Processes, Crash(p)
  PROVE  MergeInv'
<1> SUFFICES ASSUME NEW u \in Threads
             PROVE  /\ Merging(thread'[u]) => turn'[ProcessOf[u]] = u
                    /\ MergeSafe(thread'[u], shard)
  BY DEF Crash, MergeInv, MergeSafe, Merging, ReadsItsShard
<1>1. CASE ProcessOf[u] = p
  <2>1. Idle.task # "merge" /\ Idle.pc = "idle"
    BY DEF Idle
  <2>2. MergeSafe(Idle, shard) /\ ~Merging(Idle)
    BY <2>1, NotMergingSafe
  <2> QED  BY <1>1, <2>2 DEF Crash
<1>2. CASE ProcessOf[u] # p
  <2>1. thread'[u] = thread[u]
    BY <1>2 DEF Crash
  <2>2. turn'[ProcessOf[u]] = turn[ProcessOf[u]]
    BY <1>2 DEF Crash, HonestInv, TypeOK, Processes
  <2> QED  BY <2>1, <2>2 DEF MergeInv
<1> QED  BY <1>1, <1>2

LEMMA StepKeepsMerges ==
  ASSUME HonestInv, MergeInv, NEW t \in Threads, Step(t)
  PROVE  MergeInv'
<1>1. PICK w : w = thread[t]
  OBVIOUS
<1>2. /\ Sound(w, version) /\ w \in Thread /\ MergeSafe(w, shard)
      /\ Merging(w) => turn[ProcessOf[t]] = t
  BY <1>1 DEF HonestInv, TypeOK, CacheHonest, MergeInv
<1>3. CASE StartLoad(t)
  <2>1. PICK next : next = [Idle EXCEPT !.pc = "look", !.stamps = Stamps(present),
                                        !.unread = present, !.quiet = TRUE]
    OBVIOUS
  <2>2. next.pc = "look" /\ next.task = "load" /\ next.carried = None
    BY <2>1 DEF Idle
  <2>3. Goes(t, next) /\ UNCHANGED <<shard, turn>>
    BY <1>3, <2>1 DEF StartLoad
  <2> QED  BY <2>2, <2>3, NotMergingSafe, GoesKeepsMerges
<1>4. CASE StartStubs(t)
  <2>1. PICK from : Goes(t, NextStubs(from))
    BY <1>4 DEF StartStubs
  <2>2. MergeSafe(NextStubs(from), shard) /\ ~Merging(NextStubs(from))
    BY NextStubsFresh, NotMergingSafe
  <2>3. UNCHANGED <<shard, turn>>
    BY <1>4 DEF StartStubs
  <2> QED  BY <2>1, <2>2, <2>3, GoesKeepsMerges
<1>5. CASE Look(t)
  <2>1. w.pc = "look" /\ UNCHANGED <<shard, turn>>
    BY <1>1, <1>5 DEF Look
  <2>2. w.task = "merge" => turn[ProcessOf[t]] = t
    BY <1>2, <2>1 DEF Merging
  <2>3. CASE bin = None
    <3> bin # Foreign
      BY <2>3, NoneAssumption
    <3>1. Goes(t, WithEntries(w, OnDisk(w)))
      BY <1>1, <1>5, <2>3 DEF Look
    <3>2. OnDisk(w) \in Entries /\ Honest(OnDisk(w), version)
      BY OnDiskSound
    <3>3. w.task = "merge" =>
            \A s \in Sessions : ShardOf[s] = w.at => OnDisk(w)[s] = shard[w.at][s]
      BY DEF OnDisk
    <3>4. /\ MergeSafe(WithEntries(w, OnDisk(w)), shard)
          /\ Merging(WithEntries(w, OnDisk(w))) => w.task = "merge"
      BY <1>2, <3>2, <3>3, WithEntriesSafe
    <3> QED  BY <2>1, <2>2, <3>1, <3>4, GoesKeepsMerges
  <2>4. CASE bin = Foreign
    <3> bin # None
      BY <2>4, NoneAssumption
    <3>1. PICK next : next = [w EXCEPT !.pc = "unlink"]
      OBVIOUS
    <3>2. Goes(t, next)
      BY <1>1, <1>5, <2>4, <3>1 DEF Look
    <3>3. /\ next.pc = "unlink" /\ next.task = w.task /\ next.at = w.at
          /\ next.carried = w.carried /\ next.left = w.left
      BY <1>2, <3>1 DEF Thread
    <3>4. MergeSafe(next, shard) /\ (Merging(next) => w.task = "merge")
      BY <1>2, <2>1, <3>3 DEF MergeSafe, Merging, ReadsItsShard
    <3> QED  BY <2>1, <2>2, <3>2, <3>4, GoesKeepsMerges
  <2>5. CASE bin \notin {None, Foreign}
    <3>1. PICK next : next = [w EXCEPT !.pc = "migrate", !.carried = bin,
                                       !.left = Shards]
      OBVIOUS
    <3>2. Goes(t, next)
      BY <1>1, <1>5, <2>5, <3>1 DEF Look
    <3>3. /\ next.pc = "migrate" /\ next.task = w.task /\ next.at = w.at
          /\ next.left = Shards
      BY <1>2, <3>1 DEF Thread
    <3>4. MergeSafe(next, shard) /\ (Merging(next) => w.task = "merge")
      BY <1>2, <3>3 DEF MergeSafe, Merging, ReadsItsShard
    <3> QED  BY <2>1, <2>2, <3>2, <3>4, GoesKeepsMerges
  <2> QED  BY <2>3, <2>4, <2>5
<1>6. CASE Unlink(t)
  <2>1. w.pc = "unlink" /\ UNCHANGED <<shard, turn>>
    BY <1>1, <1>6 DEF Unlink
  <2>2. w.task = "merge" => turn[ProcessOf[t]] = t
    BY <1>2, <2>1 DEF Merging
  <2>3. PICK done \in Outcomes("remove") :
          Goes(t, WithEntries([w EXCEPT !.quiet = @ /\ done],
                       IF w.carried = None THEN OnDisk(w) ELSE InShards(w, w.carried)))
    BY <1>1, <1>6 DEF Unlink
  <2>4. PICK entries :
          entries = IF w.carried = None THEN OnDisk(w) ELSE InShards(w, w.carried)
    OBVIOUS
  <2>5. PICK q \in BOOLEAN : q = (w.quiet /\ done)
    OBVIOUS
  <2>6. PICK from : from = [w EXCEPT !.quiet = q]
    OBVIOUS
  <2>7. /\ from \in Thread
        /\ from.pc = w.pc /\ from.task = w.task /\ from.at = w.at
        /\ from.carried = w.carried /\ from.left = w.left /\ from.read = w.read
        /\ from.current = w.current /\ from.stamps = w.stamps /\ from.raced = w.raced
    BY <1>2, <2>6 DEF Thread
  <2>8. Sound(from, version) /\ MergeSafe(from, shard)
    BY <1>2, <2>7 DEF Sound, MergeSafe, ReadsItsShard
  <2>9. entries \in Entries /\ Honest(entries, version)
    BY <1>2, <2>4, OnDiskSound, WithinType, WithinHonest DEF InShards, Sound, Thread
  <2>10. w.task = "merge" /\ ~w.raced =>
           \A s \in Sessions : ShardOf[s] = w.at => entries[s] = shard[w.at][s]
    <3> SUFFICES ASSUME w.task = "merge", ~w.raced, NEW s \in Sessions,
                        ShardOf[s] = w.at
                 PROVE  entries[s] = shard[w.at][s]
      OBVIOUS
    <3>1. CASE w.carried = None
      BY <2>4, <3>1 DEF OnDisk
    <3>2. CASE w.carried # None
      <4>1. shard[w.at] = Within(w.carried, w.at)
        BY <1>2, <2>1, <3>2 DEF MergeSafe, ReadsItsShard
      <4>2. entries = Within(w.carried, w.at)
        BY <2>4, <3>2 DEF InShards
      <4> QED  BY <4>1, <4>2
    <3> QED  BY <3>1, <3>2
  <2>11. /\ MergeSafe(WithEntries(from, entries), shard)
         /\ Merging(WithEntries(from, entries)) => w.task = "merge"
    BY <2>7, <2>8, <2>9, <2>10, WithEntriesSafe
  <2>12. Goes(t, WithEntries(from, entries))
    BY <2>3, <2>4, <2>5, <2>6
  <2> QED  BY <2>1, <2>2, <2>11, <2>12, GoesKeepsMerges
<1>7. CASE Migrate(t)
  <2>1. PICK i : i = First(w.left)
    OBVIOUS
  <2>2. PICK next : next = [w EXCEPT !.left = @ \ {i},
                              !.pc = IF w.left = {i} THEN "unlink" ELSE @]
    OBVIOUS
  <2>3. /\ w.pc = "migrate" /\ write_shard(t, i, w.carried, FALSE, next)
        /\ UNCHANGED turn
    BY <1>1, <1>7, <2>1, <2>2 DEF Migrate
  <2>4. w.carried # None /\ w.carried \in Entries
    BY <1>2, <2>3 DEF Sound, Thread
  <2>5. /\ next \in Thread
        /\ next.pc = IF w.left = {i} THEN "unlink" ELSE "migrate"
        /\ next.left = w.left \ {i}
        /\ next.task = w.task /\ next.at = w.at /\ next.carried = w.carried
        /\ next.raced = w.raced /\ next.read = w.read
    BY <1>2, <2>2, <2>3 DEF Thread
  <2>6. PICK after : after = [shard EXCEPT ![i] = Within(w.carried, i)]
    OBVIOUS
  <2>7. MergeSafe(next, after)
    <3>1. ASSUME w.task = "merge", ~w.raced, w.at \notin next.left
          PROVE  after[w.at] = Within(w.carried, w.at)
      <4>1. w.at \in Shards
        BY <1>2, <3>1 DEF MergeSafe
      <4>2. CASE w.at = i
        BY <2>6, <4>1, <4>2 DEF HonestInv, TypeOK
      <4>3. CASE w.at # i
        BY <1>2, <2>3, <2>5, <2>6, <3>1, <4>1, <4>3 DEF MergeSafe, ReadsItsShard
      <4> QED  BY <4>2, <4>3
    <3>2. next.pc \notin {"lock", "look", "store"}
      BY <2>5
    <3>3. next.pc = "unlink" => w.at \notin next.left
      BY <2>5
    <3> QED  BY <1>2, <2>5, <3>1, <3>2, <3>3 DEF MergeSafe, ReadsItsShard
  <2>8. Merging(next) => turn'[ProcessOf[t]] = t
    BY <1>2, <2>3, <2>5 DEF Merging
  <2> QED  BY <2>3, <2>4, <2>5, <2>6, <2>7, <2>8, WriteKeepsMerges
<1>8. CASE \E s \in Sessions : Parse(t, s)
  <2>1. PICK s \in Sessions : Parse(t, s)
    BY <1>8
  <2>2. /\ w.pc = "parse" /\ UNCHANGED <<present, version, shard, bin, turn>>
    BY <1>1, <2>1 DEF Parse
  <2>3. PICK next : next = [w EXCEPT !.unread = @ \ {s}]
    OBVIOUS
  <2>4. PICK read : read = [stamp |-> w.stamps[s], text |-> version[s]]
    OBVIOUS
  <2>5. /\ Sound(next, version) /\ next.pc = "parse" /\ next.task = w.task
    BY <1>2, <2>2, <2>3 DEF Sound, Thread
  <2>6. ASSUME NEW to, Sound(to, version), to.pc = "parse", to.task = w.task,
               Goes(t, Settled(to))
        PROVE  MergeInv'
    <3>1. CASE w.task # "merge"
      <4>1. MergeSafe(Settled(to), shard) /\ ~Merging(Settled(to))
        BY <2>6, <3>1, SettledSafe
      <4> QED  BY <2>2, <2>6, <4>1, GoesKeepsMerges
    <3>2. CASE w.task = "merge"
      BY <1>2, <2>2, <3>2 DEF MergeSafe
    <3> QED  BY <3>1, <3>2
  <2>7. CASE /\ w.stamps[s] # None
             /\ Goes(t, Settled([next EXCEPT !.current[s] = read]))
    <3>1. version[s] \in Version /\ w.stamps[s] \in Version
          /\ w.stamps[s] <= version[s]
      BY <1>2, <2>7 DEF HonestInv, TypeOK, Sound, Thread, Past
    <3>2. read \in Entry
      BY <2>4, <3>1 DEF Entry
    <3>3. [next.current EXCEPT ![s] = read] \in Entries
      BY <2>5, <3>2 DEF Sound, Thread, Entries
    <3>4. Honest([next.current EXCEPT ![s] = read], version)
      BY <2>4, <2>5, <3>1, NoneAssumption DEF Sound, Thread, Entries, Honest, Version
    <3>5. PICK to : to = [next EXCEPT !.current[s] = read]
      OBVIOUS
    <3>6. Sound(to, version) /\ to.pc = "parse" /\ to.task = w.task
      BY <2>5, <3>3, <3>4, <3>5 DEF Sound, Thread
    <3> QED  BY <2>6, <2>7, <3>5, <3>6
  <2>8. CASE Goes(t, Settled([next EXCEPT !.quiet = FALSE]))
    <3>1. PICK to : to = [next EXCEPT !.quiet = FALSE]
      OBVIOUS
    <3>2. Sound(to, version) /\ to.pc = "parse" /\ to.task = w.task
      BY <2>5, <3>1 DEF Sound, Thread
    <3> QED  BY <2>6, <2>8, <3>1, <3>2
  <2> QED  BY <1>1, <2>1, <2>3, <2>4, <2>7, <2>8 DEF Parse
<1>9. CASE Write(t)
  <2>1. PICK i : i = First(w.left)
    OBVIOUS
  <2>2. PICK next :
          next = IF w.left = {i} THEN Loaded(w) ELSE [w EXCEPT !.left = @ \ {i}]
    OBVIOUS
  <2>3. /\ w.pc = "write" /\ write_shard(t, i, w.current, FALSE, next)
        /\ UNCHANGED turn
    BY <1>1, <1>9, <2>1, <2>2 DEF Write
  <2>4. w.task # "merge" \/ w.task = "merge"
    OBVIOUS
  <2>5. next \in Thread
    BY <1>2, <2>2, LoadedSound DEF Sound, Thread
  <2>6. /\ next.pc \in {"idle", "write"} /\ next.task \in {"load", w.task}
        /\ next.task = "merge" => next.at = w.at
    BY <1>2, <2>2, <2>3, LoadedFresh DEF Thread
  <2>7. w.current \in Entries
    BY <1>2 DEF Thread
  <2>8. \A files : MergeSafe(next, files)
    BY <1>2, <2>6 DEF MergeSafe, ReadsItsShard
  <2>9. ~Merging(next)
    BY <2>6 DEF Merging
  <2> QED  BY <2>3, <2>5, <2>7, <2>8, <2>9, WriteKeepsMerges
<1>10. CASE Lock(t)
  <2>1. /\ w.pc = "lock" /\ turn[ProcessOf[t]] = None
        /\ turn' = [turn EXCEPT ![ProcessOf[t]] = t] /\ UNCHANGED shard
    BY <1>1, <1>10 DEF Lock
  <2>2. PICK next : next = [w EXCEPT !.pc = "look"]
    OBVIOUS
  <2>3. Goes(t, next)
    BY <1>1, <1>10, <2>2 DEF Lock
  <2>4. /\ next.pc = "look" /\ next.task = w.task /\ next.at = w.at
        /\ next.carried = w.carried
    BY <1>2, <2>2 DEF Thread
  <2>5. MergeSafe(next, shard)
    BY <1>2, <2>1, <2>4 DEF MergeSafe, ReadsItsShard
  <2>6. /\ turn \in [Processes -> Threads \cup {None}]
        /\ \A u \in Threads : ProcessOf[u] \in Processes
    BY DEF HonestInv, TypeOK, Processes
  <2>7. turn'[ProcessOf[t]] = t
    BY <2>1, <2>6
  <2>8. ASSUME NEW u \in Threads \ {t}, Merging(thread[u])
        PROVE  turn'[ProcessOf[u]] = turn[ProcessOf[u]]
    <3>1. turn[ProcessOf[u]] = u /\ u # None
      BY <2>8, NoneAssumption DEF MergeInv
    <3> QED  BY <2>1, <2>6, <3>1
  <2> QED  BY <2>1, <2>3, <2>5, <2>7, <2>8, GoesKeepsMerges
<1>11. CASE Store(t)
  <2>1. /\ w.pc = "store"
        /\ write_shard(t, w.at, Extend(w.read, w.current), TRUE, NextStubs(w))
        /\ turn' = [turn EXCEPT ![ProcessOf[t]] = None]
    BY <1>1, <1>11 DEF Store
  <2>2. Merging(w) /\ turn[ProcessOf[t]] = t
    BY <1>2, <2>1 DEF MergeSafe, Merging
  <2>3. Extend(w.read, w.current) \in Entries
    BY <1>2 DEF Extend, Thread, Entries
  <2>4. NextStubs(w) \in Thread
    BY <1>2, NextStubsSound DEF Sound
  <2>5. \A files : MergeSafe(NextStubs(w), files) /\ ~Merging(NextStubs(w))
    BY NextStubsFresh, NotMergingSafe
  <2>6. /\ turn \in [Processes -> Threads \cup {None}]
        /\ \A u \in Threads : ProcessOf[u] \in Processes
    BY DEF HonestInv, TypeOK, Processes
  <2>7. ASSUME NEW u \in Threads \ {t}, Merging(thread[u])
        PROVE  turn'[ProcessOf[u]] = turn[ProcessOf[u]]
    <3>1. turn[ProcessOf[u]] = u
      BY <2>7 DEF MergeInv
    <3> QED  BY <2>1, <2>2, <2>6, <3>1
  <2> QED  BY <2>1, <2>2, <2>3, <2>4, <2>5, <2>7, WriteKeepsMerges
<1> QED  BY <1>3, <1>4, <1>5, <1>6, <1>7, <1>8, <1>9, <1>10, <1>11 DEF Step

(* Between its lock and its store, a thread that merges holds its turn     *)
(* alone, and what it read is what its shard holds.                        *)
THEOREM MergesAreSafe == Spec => [](HonestInv /\ MergeInv)
<1>1. HonestInv /\ MergeInv /\ [Next]_vars => MergeInv'
  <2> SUFFICES ASSUME HonestInv, MergeInv, [Next]_vars PROVE MergeInv'
    OBVIOUS
  <2>1. CASE UNCHANGED vars
    BY <2>1 DEF vars, MergeInv, MergeSafe, Merging, ReadsItsShard
  <2> QED  BY <2>1, ChangesKeepMerges, StepKeepsMerges, CrashKeepsMerges DEF Next
<1> QED  BY <1>1, InitMerges, CacheIsHonest, PTL DEF Spec

(* Of one step: a merge that did not race drops no current entry.          *)
LEMMA StepKeepsOthers ==
  ASSUME HonestInv, MergeInv, Next, NEW t \in Threads,
         thread[t].pc = "store", thread'[t].pc # "store", ~thread[t].raced,
         NEW s \in Sessions \ Keys(thread[t].current), IsCurrent(s)
  PROVE  IsCurrent(s)'
<1>1. PICK w : w = thread[t]
  OBVIOUS
<1>2. /\ w \in Thread /\ w.pc = "store" /\ w.task = "merge" /\ w.at \in Shards
      /\ \A x \in Sessions : ShardOf[x] = w.at => w.read[x] = shard[w.at][x]
  BY <1>1 DEF HonestInv, TypeOK, MergeInv, MergeSafe, ReadsItsShard
<1>3. /\ w.current[s] = None /\ thread \in [Threads -> Thread]
      /\ shard \in [Shards -> Entries] /\ ShardOf[s] \in Shards
  BY <1>1, ShardAssumption DEF Keys, HonestInv, TypeOK
<1>4. ASSUME UNCHANGED <<version, shard, bin>> PROVE IsCurrent(s)'
  BY <1>4 DEF IsCurrent, Stored
<1>5. CASE Store(t)
  <2>1. PICK done \in Outcomes("write") :
          shard' = IF done
                   THEN [shard EXCEPT ![w.at] =
                           Within(Extend(w.read, w.current), w.at)]
                   ELSE shard
    BY <1>1, <1>5 DEF Store, write_shard
  <2>2. Within(Extend(w.read, w.current), w.at)[s]
          = IF ShardOf[s] = w.at THEN w.read[s] ELSE None
    BY <1>3 DEF Within, Extend
  <2>3. shard'[ShardOf[s]][s] = shard[ShardOf[s]][s]
    BY <1>2, <1>3, <2>1, <2>2
  <2>4. UNCHANGED <<version, bin>>
    BY <1>5 DEF Store
  <2> QED  BY <2>3, <2>4 DEF IsCurrent, Stored
<1>6. CASE \E p \in Processes : Crash(p)
  BY <1>4, <1>6 DEF Crash
<1>7. CASE \E x \in Sessions : Change(x) \/ Delete(x)
  <2>1. thread'[t] = [thread[t] EXCEPT !.quiet = FALSE]
    BY <1>7 DEF Change, Delete, Unsettled
  <2>2. thread'[t].pc = "store"
    BY <1>1, <1>2, <2>1 DEF Thread
  <2> QED  BY <2>2
<1>8. CASE \E u \in Threads : Step(u) /\ ~(u = t /\ Store(t))
  <2>1. PICK u \in Threads : Step(u) /\ ~(u = t /\ Store(t))
    BY <1>8
  <2>2. CASE u = t
    <3>1. w.pc \notin {"idle", "look", "migrate", "unlink", "parse", "write", "lock"}
      BY <1>2
    <3> QED  BY <1>1, <2>1, <2>2, <3>1
             DEF Step, StartLoad, StartStubs, Look, Migrate, Unlink, Parse, Write, Lock
  <2>3. CASE u # t
    <3>1. ASSUME NEW next, Goes(u, next) PROVE thread'[t] = w
      BY <1>1, <1>3, <2>3, <3>1 DEF Goes
    <3>2. ASSUME NEW i, NEW entries, NEW merging, NEW next,
                 write_shard(u, i, entries, merging, next)
          PROVE  thread'[t].pc = "store"
      <4>1. PICK r : thread'[t] = [thread[t] EXCEPT !.quiet = FALSE, !.raced = r]
        BY <2>3, <3>2 DEF write_shard
      <4> QED  BY <1>1, <1>2, <4>1 DEF Thread
    <3>3. CASE StartLoad(u) \/ StartStubs(u) \/ Look(u) \/ Unlink(u) \/ Lock(u)
               \/ \E x \in Sessions : Parse(u, x)
      BY <1>1, <1>2, <3>1, <3>3 DEF StartLoad, StartStubs, Look, Unlink, Lock, Parse
    <3>4. CASE Migrate(u) \/ Write(u) \/ Store(u)
      BY <3>2, <3>4 DEF Migrate, Write, Store
    <3> QED  BY <2>1, <3>3, <3>4 DEF Step
  <2> QED  BY <2>2, <2>3
<1> QED  BY <1>5, <1>6, <1>7, <1>8 DEF Next

(* Threads of one process that merge into a shard keep each other's        *)
(* entries: SHARD_MERGE is held from the read to the write.                *)
THEOREM MergesKeepOthers == Spec => MergeKeepsOthers
<1> DEFINE KeepsOthers ==
      \A t \in Threads :
        thread[t].pc = "store" /\ thread'[t].pc # "store" /\ ~thread[t].raced =>
          \A s \in Sessions \ Keys(thread[t].current) :
            IsCurrent(s) => IsCurrent(s)'
<1>1. (HonestInv /\ MergeInv) /\ [Next]_vars => [KeepsOthers]_vars
  BY StepKeepsOthers
<1> QED  BY <1>1, MergesAreSafe, PTL DEF Spec, MergeKeepsOthers

-----------------------------------------------------------------------------
(* Quiet loads *)

(* The shards hold an entry for this session with its fingerprint.         *)
UpToDate(files, ver, s) ==
  files[ShardOf[s]][s] # None /\ files[ShardOf[s]][s].stamp = ver[s]

Carries(w, ver, s) == w.current[s] # None /\ w.current[s].stamp = ver[s]

(* What a quiet load knows of a session it discovered or found an entry    *)
(* of: parsed, or restored from an entry it still has, or restored from an *)
(* entry it gave to its row, whose shard it will not write.                *)
Known(w, pres, ver, files, s) ==
  /\ s \in w.unread => s \in pres /\ s \notin w.hits /\ w.current[s] = None
  /\ s \in pres /\ s \notin w.unread /\ s \notin w.hits => Carries(w, ver, s)
  /\ s \notin pres => w.current[s] = None /\ s \notin w.hits
  /\ s \notin w.hits => w.read[s] = files[ShardOf[s]][s]
  /\ s \in w.hits =>
       /\ UpToDate(files, ver, s)
       /\ \/ Carries(w, ver, s)
          \/ /\ w.current[s] = None /\ w.read[s] = None
             /\ \A x \in Sessions : ShardOf[x] = ShardOf[s] =>
                  \/ x \in w.hits
                  \/ x \notin pres /\ files[ShardOf[x]][x] = None

QuietLoad(w, pres, ver, files, old) ==
  /\ w.pc = "idle" =>
       old = None /\ \A s \in pres : UpToDate(files, ver, s)
  /\ w.pc # "idle" => w.task = "load" /\ w.pc \notin {"lock", "store"}
  /\ w.pc \in {"look", "migrate", "unlink"} => w.unread = pres
  /\ w.pc \in {"look", "migrate", "unlink", "parse"} =>
       w.stamps = [s \in Sessions |-> IF s \in pres THEN ver[s] ELSE None]
  /\ w.pc = "migrate" =>
       \A i \in Shards \ w.left : files[i] = Within(w.carried, i)
  /\ w.pc = "unlink" /\ w.carried # None =>
       \A i \in Shards : files[i] = Within(w.carried, i)
  /\ w.pc = "parse" =>
       old = None /\ \A s \in Sessions : Known(w, pres, ver, files, s)
  /\ w.pc = "write" =>
       /\ old = None /\ w.left # {}
       /\ \A s \in pres : \/ ShardOf[s] \in w.left /\ Carries(w, ver, s)
                          \/ ShardOf[s] \notin w.left /\ UpToDate(files, ver, s)

QuietInv ==
  \A t \in Threads :
    thread[t].quiet => QuietLoad(thread[t], present, version, shard, bin)

LEMMA GoesKeepsQuiet ==
  ASSUME HonestInv, QuietInv, NEW t \in Threads, NEW w, Goes(t, w),
         w.quiet => QuietLoad(w, present, version, shard, bin'),
         bin' \in {bin, None}, UNCHANGED <<present, version, shard>>
  PROVE  QuietInv'
<1> SUFFICES ASSUME NEW u \in Threads, thread'[u].quiet
             PROVE  QuietLoad(thread'[u], present, version, shard, bin')
  BY DEF QuietInv, QuietLoad, Known, UpToDate, Carries
<1>1. thread'[u] = IF u = t THEN w ELSE thread[u]
  BY DEF Goes, HonestInv, TypeOK
<1>2. CASE u = t
  BY <1>1, <1>2
<1>3. CASE u # t
  <2>1. QuietLoad(thread[u], present, version, shard, bin)
    BY <1>1, <1>3 DEF QuietInv
  <2> QED  BY <1>1, <1>3, <2>1 DEF QuietLoad
<1> QED  BY <1>2, <1>3

(* A write of a shard leaves no load quiet but the one that wrote.         *)
LEMMA WriteKeepsQuiet ==
  ASSUME HonestInv, NEW t \in Threads, NEW i, NEW merging \in BOOLEAN,
         NEW entries, NEW next \in Thread,
         write_shard(t, i, entries, merging, next),
         next.quiet => QuietLoad(next, present, version,
                                 [shard EXCEPT ![i] = Within(entries, i)], bin),
         UNCHANGED <<present, version, bin>>
  PROVE  QuietInv'
<1>1. PICK done \in Outcomes("write") :
        /\ shard' = IF done THEN [shard EXCEPT ![i] = Within(entries, i)] ELSE shard
        /\ thread' = [u \in Threads |->
             IF u = t THEN [next EXCEPT !.quiet = @ /\ done,
                                        !.raced = @ \/ (~done /\ next.task = "merge")]
             ELSE [thread[u] EXCEPT
                     !.quiet = FALSE,
                     !.raced = \/ @
                               \/ /\ turn[ProcessOf[u]] = u /\ thread[u].at = i
                                  /\ ~(merging /\ ProcessOf[u] = ProcessOf[t])]]
  BY DEF write_shard
<1> SUFFICES ASSUME NEW u \in Threads, thread'[u].quiet
             PROVE  QuietLoad(thread'[u], present, version, shard', bin)
  BY DEF QuietInv, QuietLoad, Known, UpToDate, Carries
<1>2. u = t
  <2> SUFFICES ASSUME u # t PROVE FALSE
    OBVIOUS
  <2>1. PICK r : thread'[u] = [thread[u] EXCEPT !.quiet = FALSE, !.raced = r]
    BY <1>1
  <2>2. thread[u] \in Thread
    BY DEF HonestInv, TypeOK
  <2>3. thread'[u].quiet = FALSE
    BY <2>1, <2>2 DEF Thread
  <2> QED  BY <2>3
<1>3. PICK q \in BOOLEAN : q = (next.quiet /\ done)
  OBVIOUS
<1>4. PICK r \in BOOLEAN : r = (next.raced \/ (~done /\ next.task = "merge"))
  OBVIOUS
<1>5. PICK to : to = [next EXCEPT !.quiet = q, !.raced = r]
  OBVIOUS
<1>6. thread'[u] = to
  BY <1>1, <1>2, <1>3, <1>4, <1>5
<1>7. /\ to.pc = next.pc /\ to.task = next.task /\ to.left = next.left
      /\ to.read = next.read /\ to.carried = next.carried
      /\ to.current = next.current /\ to.stamps = next.stamps
      /\ to.unread = next.unread /\ to.hits = next.hits /\ to.quiet = q
  BY <1>5, MarkedThread
<1>8. QuietLoad(next, present, version, shard', bin)
  BY <1>1, <1>3, <1>6, <1>7
<1>9. QuietLoad(to, present, version, shard', bin)
  BY <1>7, <1>8 DEF QuietLoad, Known, Carries
<1> QED  BY <1>6, <1>9

(* When the last session is parsed, the shards that are not written hold   *)
(* a current entry of each of their sessions, and the load holds one for   *)
(* each session of the others.                                             *)
LEMMA SettledQuiet ==
  ASSUME NEW ver, NEW w, Sound(w, ver), w.pc = "parse", w.task = "load",
         NEW pres \in SUBSET Sessions, NEW files,
         QuietLoad(w, pres, ver, files, None)
  PROVE  QuietLoad(Settled(w), pres, ver, files, None)
<1>1. \A s \in Sessions : Known(w, pres, ver, files, s)
  BY DEF QuietLoad
<1>2. w.stamps = [s \in Sessions |-> IF s \in pres THEN ver[s] ELSE None]
  BY DEF QuietLoad
<1>3. CASE w.unread # {}
  BY <1>3 DEF Settled
<1>4. CASE w.unread = {}
  <2>1. ASSUME NEW s \in pres, ShardOf[s] \notin Changed(w)
        PROVE  UpToDate(files, ver, s)
    <3>1. s \in w.hits
      <4> SUFFICES ASSUME s \notin w.hits PROVE FALSE
        OBVIOUS
      <4>1. Carries(w, ver, s)
        BY <1>1, <1>4 DEF Known
      <4>2. ver[s] # None
        <5>1. w.current \in Entries
          BY DEF Sound, Thread
        <5>2. w.current[s].stamp \in Version
          BY <4>1, <5>1 DEF Entries, Entry, Carries
        <5> QED  BY <4>1, <5>2, NoneAssumption DEF Carries
      <4>3. s \in Sessions
        OBVIOUS
      <4> QED  BY <1>2, <2>1, <4>1, <4>2, <4>3 DEF Changed, Carries
    <3> QED  BY <1>1, <3>1 DEF Known
  <2>2. ASSUME NEW s \in pres, ShardOf[s] \in Changed(w)
        PROVE  Carries(w, ver, s)
    <3>1. PICK x \in Sessions :
            /\ ShardOf[x] = ShardOf[s]
            /\ IF w.current[x] = None THEN w.read[x] # None
               ELSE w.stamps[x] # None /\ x \notin w.hits
      BY <2>2 DEF Changed
    <3>2. s \in Sessions
      OBVIOUS
    <3> QED  BY <1>1, <1>2, <1>4, <3>1, <3>2 DEF Known, Carries
  <2>3. CASE Changed(w) = {}
    <3>1. Settled(w) = Loaded(w)
      BY <1>4, <2>3 DEF Settled
    <3> QED  BY <2>1, <2>3, <3>1, LoadedFresh DEF QuietLoad
  <2>4. CASE Changed(w) # {}
    <3>1. PICK next : next = [Loaded(w) EXCEPT !.pc = "write",
                                !.current = w.current, !.left = Changed(w)]
      OBVIOUS
    <3>2. Settled(w) = next
      BY <1>4, <2>4, <3>1 DEF Settled
    <3>3. /\ next.pc = "write" /\ next.current = w.current
          /\ next.left = Changed(w) /\ next.task = "load"
      BY <3>1 DEF Loaded, Idle
    <3> QED  BY <2>1, <2>2, <2>4, <3>2, <3>3 DEF QuietLoad, Carries
  <2> QED  BY <2>3, <2>4
<1> QED  BY <1>3, <1>4

(* What a load that read every shard knows of its sessions.                *)
LEMMA WithEntriesQuiet ==
  ASSUME NEW ver, NEW w, Sound(w, ver), w.task = "load",
         NEW pres \in SUBSET Sessions, NEW files, w.unread = pres,
         w.stamps = [s \in Sessions |-> IF s \in pres THEN ver[s] ELSE None],
         NEW entries \in Entries, Honest(entries, ver),
         \A s \in Sessions : entries[s] = files[ShardOf[s]][s]
  PROVE  QuietLoad(WithEntries(w, entries), pres, ver, files, None)
<1>1. PICK hits : hits = Hits(w, entries)
  OBVIOUS
<1>2. PICK taken : taken = Taken(w, entries)
  OBVIOUS
<1>3. PICK rd : rd = [s \in Sessions |->
                 IF s \in hits /\ IsListed(entries[s]) THEN None ELSE entries[s]]
  OBVIOUS
<1>4. PICK cur : cur = [s \in Sessions |->
                 IF s \in hits \ taken THEN entries[s] ELSE None]
  OBVIOUS
<1>5. PICK next : next = [w EXCEPT !.pc = "parse", !.carried = None, !.hits = hits,
                            !.unread = @ \ hits, !.read = rd, !.current = cur]
  OBVIOUS
<1>6. hits = {s \in pres : IsHit(entries, w.stamps, s)}
  BY <1>1 DEF Hits
<1>7. hits \subseteq pres /\ hits \subseteq Sessions
  BY <1>6
<1>8. rd \in Entries /\ cur \in Entries /\ Honest(rd, ver) /\ Honest(cur, ver)
  BY <1>3, <1>4 DEF Entries, Honest
<1>9. Sound(next, ver)
  BY <1>5, <1>7, <1>8 DEF Sound, Thread
<1>10. /\ next.pc = "parse" /\ next.task = "load" /\ next.hits = hits
       /\ next.unread = pres \ hits /\ next.read = rd /\ next.current = cur
       /\ next.stamps = w.stamps
  BY <1>5 DEF Sound, Thread
<1>11. WithEntries(w, entries) = Settled(next)
  BY <1>1, <1>2, <1>3, <1>4, <1>5 DEF WithEntries
<1>12. ASSUME NEW s \in Sessions PROVE Known(next, pres, ver, files, s)
  <2>1. s \in hits => UpToDate(files, ver, s)
    BY <1>6 DEF IsHit, UpToDate
  <2>2. s \in hits \ taken => Carries(next, ver, s)
    BY <1>4, <1>6, <1>10 DEF IsHit, Carries
  <2>3. s \notin hits => next.read[s] = files[ShardOf[s]][s] /\ next.current[s] = None
    BY <1>3, <1>4, <1>10
  <2>4. ASSUME s \in hits, s \in taken
        PROVE  /\ next.current[s] = None /\ next.read[s] = None
               /\ \A x \in Sessions : ShardOf[x] = ShardOf[s] =>
                    \/ x \in next.hits
                    \/ x \notin pres /\ files[ShardOf[x]][x] = None
    <3>1. IsListed(entries[s]) /\ ShardOf[s] \notin Writable(w, entries)
      BY <1>2, <2>4 DEF Taken
    <3>2. next.current[s] = None /\ next.read[s] = None
      BY <1>3, <1>4, <1>10, <2>4, <3>1
    <3>3. ASSUME NEW x \in Sessions, ShardOf[x] = ShardOf[s], x \notin hits
          PROVE  x \notin pres /\ files[ShardOf[x]][x] = None
      <4>1. x \notin w.unread \cup Keys(entries)
        BY <1>1, <3>1, <3>3 DEF Writable
      <4> QED  BY <4>1 DEF Keys
    <3> QED  BY <1>10, <3>2, <3>3
  <2>5. /\ s \in next.unread => s \in pres /\ s \notin next.hits
                                /\ next.current[s] = None
        /\ s \in pres /\ s \notin next.unread => s \in next.hits
        /\ s \notin pres => next.current[s] = None /\ s \notin next.hits
    BY <1>7, <1>10, <2>3
  <2> QED  BY <1>10, <2>1, <2>2, <2>3, <2>4, <2>5 DEF Known
<1>13. QuietLoad(next, pres, ver, files, None)
  BY <1>10, <1>12 DEF QuietLoad
<1>14. QuietLoad(Settled(next), pres, ver, files, None)
  BY <1>9, <1>10, <1>13, SettledQuiet
<1> QED  BY <1>11, <1>14

(* No step of a thread's own makes it quiet, but the start of a load.      *)
LEMMA SettledUnquiet ==
  ASSUME NEW w \in Thread, ~w.quiet
  PROVE  ~Settled(w).quiet
<1>1. PICK next : next = [Loaded(w) EXCEPT !.pc = "write", !.current = w.current,
                                           !.left = Changed(w)]
  OBVIOUS
<1>2. next.quiet = w.quiet
  BY <1>1 DEF Loaded, Idle
<1> QED  BY <1>1, <1>2, LoadedFresh, ToMergeFresh, NextStubsFresh DEF Settled

LEMMA WithEntriesUnquiet ==
  ASSUME NEW ver, NEW w, Sound(w, ver), ~w.quiet,
         NEW entries \in Entries, Honest(entries, ver)
  PROVE  ~WithEntries(w, entries).quiet
<1>1. CASE w.task = "merge"
  BY <1>1 DEF WithEntries, Sound, Thread
<1>2. CASE w.task # "merge"
  <2> DEFINE hits == Hits(w, entries)
             rd == [s \in Sessions |->
               IF s \in hits /\ IsListed(entries[s]) THEN None ELSE entries[s]]
             cur == [s \in Sessions |->
               IF s \in hits \ Taken(w, entries) THEN entries[s] ELSE None]
  <2>1. PICK next : next = [w EXCEPT !.pc = "parse", !.carried = None, !.hits = hits,
                             !.unread = @ \ hits, !.read = rd, !.current = cur]
    OBVIOUS
  <2>2. hits \subseteq Sessions /\ rd \in Entries /\ cur \in Entries
    BY DEF Hits, Sound, Thread, Entries
  <2>3. WithEntries(w, entries) = Settled(next)
    BY <1>2, <2>1 DEF WithEntries
  <2> HIDE DEF hits, rd, cur
  <2>4. next \in Thread /\ ~next.quiet
    BY <2>1, <2>2 DEF Sound, Thread
  <2> QED  BY <2>3, <2>4, SettledUnquiet
<1> QED  BY <1>1, <1>2

LEMMA InitQuiet ==
  Init => QuietInv
<1>1. ~Idle.quiet
  BY DEF Idle
<1> QED  BY <1>1 DEF Init, QuietInv

LEMMA ChangesKeepQuiet ==
  ASSUME HonestInv, NEW s \in Sessions, Change(s) \/ Delete(s)
  PROVE  QuietInv'
<1>1. ASSUME NEW u \in Threads PROVE ~thread'[u].quiet
  <2>1. thread'[u] = [thread[u] EXCEPT !.quiet = FALSE] /\ thread[u] \in Thread
    BY DEF Change, Delete, Unsettled, HonestInv, TypeOK
  <2> QED  BY <2>1 DEF Thread
<1> QED  BY <1>1 DEF QuietInv

LEMMA CrashKeepsQuiet ==
  ASSUME QuietInv, NEW p \in Processes, Crash(p)
  PROVE  QuietInv'
<1>1. UNCHANGED <<present, version, shard, bin>> /\ ~Idle.quiet
  BY DEF Crash, Idle
<1>2. \A u \in Threads : thread'[u] \in {thread[u], Idle}
  BY DEF Crash
<1> QED  BY <1>1, <1>2 DEF QuietInv, QuietLoad, Known, UpToDate, Carries

LEMMA StepKeepsQuiet ==
  ASSUME HonestInv, MergeInv, QuietInv, NEW t \in Threads, Step(t)
  PROVE  QuietInv'
<1>1. PICK w : w = thread[t]
  OBVIOUS
<1>2. /\ Sound(w, version) /\ w \in Thread /\ MergeSafe(w, shard)
      /\ w.quiet => QuietLoad(w, present, version, shard, bin)
      /\ present \in SUBSET Sessions
  BY <1>1 DEF HonestInv, TypeOK, CacheHonest, MergeInv, QuietInv
<1>3. CASE StartLoad(t)
  <2>1. PICK next : next = [Idle EXCEPT !.pc = "look", !.stamps = Stamps(present),
                                        !.unread = present, !.quiet = TRUE]
    OBVIOUS
  <2>2. /\ next.pc = "look" /\ next.task = "load" /\ next.unread = present
        /\ next.stamps = Stamps(present)
    BY <2>1 DEF Idle
  <2>3. Goes(t, next) /\ UNCHANGED <<present, version, shard, bin, turn>>
    BY <1>3, <2>1 DEF StartLoad
  <2>4. QuietLoad(next, present, version, shard, bin)
    BY <2>2 DEF QuietLoad, Stamps
  <2> QED  BY <2>3, <2>4, GoesKeepsQuiet
<1>4. CASE StartStubs(t)
  <2>1. PICK from : Goes(t, NextStubs(from))
    BY <1>4 DEF StartStubs
  <2>2. UNCHANGED <<present, version, shard, bin, turn>>
    BY <1>4 DEF StartStubs
  <2> QED  BY <2>1, <2>2, NextStubsFresh, GoesKeepsQuiet
<1>5. CASE Look(t)
  <2>1. w.pc = "look" /\ UNCHANGED <<present, version, shard, bin, turn>>
    BY <1>1, <1>5 DEF Look
  <2>2. CASE bin = None
    <3> bin # Foreign
      BY <2>2, NoneAssumption
    <3>1. Goes(t, WithEntries(w, OnDisk(w)))
      BY <1>1, <1>5, <2>2 DEF Look
    <3>2. OnDisk(w) \in Entries /\ Honest(OnDisk(w), version)
      BY OnDiskSound
    <3>3. ASSUME w.quiet
          PROVE  QuietLoad(WithEntries(w, OnDisk(w)), present, version, shard, None)
      <4>1. /\ w.task = "load" /\ w.unread = present
            /\ w.stamps = [s \in Sessions |-> IF s \in present THEN version[s] ELSE None]
        BY <1>2, <2>1, <3>3 DEF QuietLoad
      <4>2. \A s \in Sessions : OnDisk(w)[s] = shard[ShardOf[s]][s]
        BY <4>1 DEF OnDisk
      <4> QED  BY <1>2, <3>2, <4>1, <4>2, WithEntriesQuiet
    <3>4. WithEntries(w, OnDisk(w)).quiet => w.quiet
      BY <1>2, <3>2, WithEntriesUnquiet
    <3> QED  BY <2>1, <2>2, <3>1, <3>3, <3>4, GoesKeepsQuiet
  <2>3. CASE bin = Foreign
    <3> bin # None
      BY <2>3, NoneAssumption
    <3>1. PICK next : next = [w EXCEPT !.pc = "unlink"]
      OBVIOUS
    <3>2. Goes(t, next)
      BY <1>1, <1>5, <2>3, <3>1 DEF Look
    <3>3. /\ next.pc = "unlink" /\ next.task = w.task /\ next.unread = w.unread
          /\ next.carried = w.carried /\ next.stamps = w.stamps
          /\ next.quiet = w.quiet
      BY <1>2, <3>1 DEF Thread
    <3>4. w.carried = None
      BY <1>2, <2>1 DEF MergeSafe
    <3>5. next.quiet => QuietLoad(next, present, version, shard, bin)
      BY <1>2, <2>1, <3>3, <3>4 DEF QuietLoad
    <3> QED  BY <2>1, <3>2, <3>5, GoesKeepsQuiet
  <2>4. CASE bin \notin {None, Foreign}
    <3>1. PICK next : next = [w EXCEPT !.pc = "migrate", !.carried = bin,
                                       !.left = Shards]
      OBVIOUS
    <3>2. Goes(t, next)
      BY <1>1, <1>5, <2>4, <3>1 DEF Look
    <3>3. /\ next.pc = "migrate" /\ next.task = w.task /\ next.unread = w.unread
          /\ next.left = Shards /\ next.stamps = w.stamps /\ next.quiet = w.quiet
      BY <1>2, <3>1 DEF Thread
    <3>4. next.quiet => QuietLoad(next, present, version, shard, bin)
      BY <1>2, <2>1, <3>3 DEF QuietLoad
    <3> QED  BY <2>1, <3>2, <3>4, GoesKeepsQuiet
  <2> QED  BY <2>2, <2>3, <2>4
<1>6. CASE Unlink(t)
  <2>1. w.pc = "unlink" /\ UNCHANGED <<present, version, shard, turn>>
    BY <1>1, <1>6 DEF Unlink
  <2>2. PICK done \in Outcomes("remove") :
          /\ bin' = IF done THEN None ELSE bin
          /\ Goes(t, WithEntries([w EXCEPT !.quiet = @ /\ done],
                       IF w.carried = None THEN OnDisk(w) ELSE InShards(w, w.carried)))
    BY <1>1, <1>6 DEF Unlink
  <2>3. PICK entries :
          entries = IF w.carried = None THEN OnDisk(w) ELSE InShards(w, w.carried)
    OBVIOUS
  <2>4. PICK q \in BOOLEAN : q = (w.quiet /\ done)
    OBVIOUS
  <2>5. PICK from : from = [w EXCEPT !.quiet = q]
    OBVIOUS
  <2>6. /\ from \in Thread /\ from.quiet = q
        /\ from.pc = w.pc /\ from.task = w.task /\ from.unread = w.unread
        /\ from.carried = w.carried /\ from.read = w.read
        /\ from.current = w.current /\ from.stamps = w.stamps
    BY <1>2, <2>5 DEF Thread
  <2>7. Sound(from, version)
    BY <1>2, <2>6 DEF Sound
  <2>8. entries \in Entries /\ Honest(entries, version)
    BY <1>2, <2>3, OnDiskSound, WithinType, WithinHonest DEF InShards, Sound, Thread
  <2>9. ASSUME q
        PROVE  QuietLoad(WithEntries(from, entries), present, version, shard, bin')
    <3>1. /\ w.task = "load" /\ w.unread = present
          /\ w.stamps = [s \in Sessions |-> IF s \in present THEN version[s] ELSE None]
          /\ w.carried # None => \A i \in Shards : shard[i] = Within(w.carried, i)
      BY <1>2, <2>1, <2>4, <2>9 DEF QuietLoad
    <3>2. ASSUME NEW s \in Sessions PROVE entries[s] = shard[ShardOf[s]][s]
      <4>1. ShardOf[s] \in Shards
        BY ShardAssumption
      <4>2. CASE w.carried = None
        BY <2>3, <3>1, <4>2 DEF OnDisk
      <4>3. CASE w.carried # None
        <5>1. entries = w.carried
          BY <2>3, <3>1, <4>3 DEF InShards
        <5>2. shard[ShardOf[s]][s] = w.carried[s]
          BY <3>1, <4>1, <4>3 DEF Within
        <5> QED  BY <5>1, <5>2
      <4> QED  BY <4>2, <4>3
    <3>3. bin' = None
      BY <2>2, <2>4, <2>9
    <3> QED  BY <1>2, <2>6, <2>7, <2>8, <3>1, <3>2, <3>3, WithEntriesQuiet
  <2>10. WithEntries(from, entries).quiet => q
    BY <2>6, <2>7, <2>8, WithEntriesUnquiet
  <2>11. Goes(t, WithEntries(from, entries)) /\ bin' \in {bin, None}
    BY <2>2, <2>3, <2>4, <2>5
  <2> QED  BY <2>1, <2>9, <2>10, <2>11, GoesKeepsQuiet
<1>7. CASE Migrate(t)
  <2>1. PICK i : i = First(w.left)
    OBVIOUS
  <2>2. PICK next : next = [w EXCEPT !.left = @ \ {i},
                              !.pc = IF w.left = {i} THEN "unlink" ELSE @]
    OBVIOUS
  <2>3. /\ w.pc = "migrate" /\ write_shard(t, i, w.carried, FALSE, next)
        /\ UNCHANGED <<present, version, bin>>
    BY <1>1, <1>7, <2>1, <2>2 DEF Migrate
  <2>4. /\ next \in Thread
        /\ next.pc = IF w.left = {i} THEN "unlink" ELSE "migrate"
        /\ next.left = w.left \ {i} /\ next.task = w.task
        /\ next.carried = w.carried /\ next.unread = w.unread
        /\ next.stamps = w.stamps /\ next.quiet = w.quiet
    BY <1>2, <2>2, <2>3 DEF Thread
  <2>5. PICK after : after = [shard EXCEPT ![i] = Within(w.carried, i)]
    OBVIOUS
  <2>6. ASSUME next.quiet PROVE QuietLoad(next, present, version, after, bin)
    <3>1. QuietLoad(w, present, version, shard, bin)
      BY <1>2, <2>4, <2>6
    <3>2. ASSUME NEW j \in Shards \ next.left
          PROVE  after[j] = Within(w.carried, j)
      <4>1. shard[j] = Within(w.carried, j) \/ j = i
        BY <2>3, <2>4, <3>1, <3>2 DEF QuietLoad
      <4> QED  BY <2>5, <4>1 DEF HonestInv, TypeOK
    <3>3. next.pc = "unlink" => next.left = {}
      BY <2>4
    <3>4. next.pc \in {"migrate", "unlink"}
      BY <2>4
    <3> QED  BY <2>3, <2>4, <3>1, <3>2, <3>3, <3>4 DEF QuietLoad
  <2> QED  BY <2>3, <2>4, <2>5, <2>6, WriteKeepsQuiet
<1>8. CASE \E s \in Sessions : Parse(t, s)
  <2>1. PICK s \in Sessions : Parse(t, s)
    BY <1>8
  <2>2. /\ w.pc = "parse" /\ s \in w.unread
        /\ UNCHANGED <<present, version, shard, bin, turn>>
    BY <1>1, <2>1 DEF Parse
  <2>3. PICK next : next = [w EXCEPT !.unread = @ \ {s}]
    OBVIOUS
  <2>4. PICK read : read = [stamp |-> w.stamps[s], text |-> version[s]]
    OBVIOUS
  <2>5. /\ Sound(next, version) /\ next \in Thread /\ next.pc = "parse"
        /\ next.task = w.task /\ next.unread = w.unread \ {s}
        /\ next.quiet = w.quiet /\ next.current = w.current
        /\ next.read = w.read /\ next.hits = w.hits /\ next.stamps = w.stamps
    BY <1>2, <2>2, <2>3 DEF Sound, Thread
  <2>6. CASE /\ s \in present /\ w.stamps[s] # None
             /\ Goes(t, Settled([next EXCEPT !.current[s] = read]))
    <3>1. version[s] \in Version /\ w.stamps[s] \in Version
          /\ w.stamps[s] <= version[s]
      BY <1>2, <2>6 DEF HonestInv, TypeOK, Sound, Thread, Past
    <3>2. read \in Entry
      BY <2>4, <3>1 DEF Entry
    <3>3. [next.current EXCEPT ![s] = read] \in Entries
      BY <2>5, <3>2 DEF Sound, Thread, Entries
    <3>4. Honest([next.current EXCEPT ![s] = read], version)
      BY <2>4, <2>5, <3>1, NoneAssumption DEF Sound, Thread, Entries, Honest, Version
    <3>5. PICK to : to = [next EXCEPT !.current[s] = read]
      OBVIOUS
    <3>6. /\ Sound(to, version) /\ to \in Thread /\ to.pc = "parse"
          /\ to.task = w.task /\ to.unread = w.unread \ {s} /\ to.quiet = w.quiet
          /\ to.current = [w.current EXCEPT ![s] = read]
          /\ to.read = w.read /\ to.hits = w.hits /\ to.stamps = w.stamps
      BY <2>5, <3>3, <3>4, <3>5 DEF Sound, Thread
    <3>7. ASSUME w.quiet PROVE QuietLoad(to, present, version, shard, None)
      <4>1. QuietLoad(w, present, version, shard, bin) /\ w.current \in Entries
        BY <1>2, <3>7 DEF Thread
      <4>2. /\ bin = None /\ w.task = "load"
            /\ \A x \in Sessions : Known(w, present, version, shard, x)
            /\ w.stamps = [x \in Sessions |-> IF x \in present THEN version[x] ELSE None]
        BY <2>2, <4>1 DEF QuietLoad
      <4>3. ASSUME NEW x \in Sessions, x # s
            PROVE  Known(to, present, version, shard, x)
        <5>1. to.current[x] = w.current[x]
          BY <3>6, <4>1, <4>3 DEF Entries
        <5> QED  BY <3>6, <4>2, <4>3, <5>1 DEF Known, Carries
      <4>4. Known(to, present, version, shard, s)
        <5>1. s \in w.unread /\ s \notin w.hits /\ s \notin to.unread
          BY <2>2, <3>6, <4>2 DEF Known
        <5>2. to.current[s] = read /\ read # None /\ read.stamp = version[s]
          BY <2>4, <2>6, <3>2, <3>6, <4>1, <4>2, NoneAssumption DEF Entries
        <5>3. w.read[s] = shard[ShardOf[s]][s]
          BY <4>2, <5>1 DEF Known
        <5> QED  BY <2>6, <3>6, <5>1, <5>2, <5>3 DEF Known, Carries
      <4> QED  BY <3>6, <4>2, <4>3, <4>4 DEF QuietLoad
    <3>8. ASSUME w.quiet PROVE bin = None /\ w.task = "load"
      BY <1>2, <2>2, <3>8 DEF QuietLoad
    <3>9. w.quiet => QuietLoad(Settled(to), present, version, shard, bin)
      BY <1>2, <3>6, <3>7, <3>8, SettledQuiet
    <3>10. Settled(to).quiet => w.quiet
      BY <3>6, SettledUnquiet
    <3>11. Goes(t, Settled(to))
      BY <2>6, <3>5
    <3> QED  BY <2>2, <3>9, <3>10, <3>11, GoesKeepsQuiet
  <2>7. CASE Goes(t, Settled([next EXCEPT !.quiet = FALSE]))
    <3>1. PICK to : to = [next EXCEPT !.quiet = FALSE]
      OBVIOUS
    <3>2. to \in Thread /\ ~to.quiet
      BY <2>5, <3>1 DEF Thread
    <3>3. ~Settled(to).quiet
      BY <3>2, SettledUnquiet
    <3> QED  BY <2>2, <2>7, <3>1, <3>3, GoesKeepsQuiet
  <2> QED  BY <1>1, <2>1, <2>3, <2>4, <2>6, <2>7 DEF Parse
<1>9. CASE Write(t)
  <2>1. PICK i : i = First(w.left)
    OBVIOUS
  <2>2. PICK next :
          next = IF w.left = {i} THEN Loaded(w) ELSE [w EXCEPT !.left = @ \ {i}]
    OBVIOUS
  <2>3. /\ w.pc = "write" /\ write_shard(t, i, w.current, FALSE, next)
        /\ UNCHANGED <<present, version, bin>>
    BY <1>1, <1>9, <2>1, <2>2 DEF Write
  <2>4. next \in Thread
    BY <1>2, <2>2, LoadedSound DEF Sound, Thread
  <2>5. PICK after : after = [shard EXCEPT ![i] = Within(w.current, i)]
    OBVIOUS
  <2>6. ASSUME w.quiet PROVE QuietLoad(next, present, version, after, bin)
    <3>1. QuietLoad(w, present, version, shard, bin)
      BY <1>2, <2>6
    <3>2. /\ bin = None /\ w.left # {} /\ w.task = "load"
          /\ \A s \in present :
               \/ ShardOf[s] \in w.left /\ Carries(w, version, s)
               \/ ShardOf[s] \notin w.left /\ UpToDate(shard, version, s)
      BY <2>3, <3>1 DEF QuietLoad
    <3>3. i \in w.left /\ i \in Shards
      <4>1. w.left \in SUBSET Shards /\ w.left \in SUBSET Nat
        BY <1>2, ShardAssumption DEF Thread
      <4> QED  BY <2>1, <3>2, <4>1, FirstInSet
    <3>4. ASSUME NEW s \in present
          PROVE  \/ ShardOf[s] \in w.left \ {i} /\ Carries(w, version, s)
                 \/ ShardOf[s] \notin w.left \ {i} /\ UpToDate(after, version, s)
      <4>1. s \in Sessions /\ ShardOf[s] \in Shards
        BY <1>2, ShardAssumption
      <4>2. CASE ShardOf[s] = i
        <5>1. after[ShardOf[s]][s] = w.current[s]
          BY <2>5, <4>1, <4>2 DEF Within, HonestInv, TypeOK
        <5> QED  BY <3>2, <3>3, <4>2, <5>1 DEF UpToDate, Carries
      <4>3. CASE ShardOf[s] # i
        <5>1. after[ShardOf[s]] = shard[ShardOf[s]]
          BY <2>5, <4>1, <4>3 DEF HonestInv, TypeOK
        <5> QED  BY <3>2, <4>3, <5>1 DEF UpToDate
      <4> QED  BY <4>2, <4>3
    <3>5. CASE w.left = {i}
      <4>1. next.pc = "idle"
        BY <2>2, <3>5, LoadedFresh
      <4>2. \A s \in present : UpToDate(after, version, s)
        BY <3>4, <3>5
      <4> QED  BY <3>2, <4>1, <4>2 DEF QuietLoad
    <3>6. CASE w.left # {i}
      <4>1. /\ next.pc = "write" /\ next.left = w.left \ {i} /\ next.task = "load"
            /\ next.current = w.current
        BY <1>2, <2>2, <2>3, <3>2, <3>6 DEF Thread
      <4>2. next.left # {}
        BY <3>2, <3>6, <4>1
      <4> QED  BY <3>2, <3>4, <4>1, <4>2 DEF QuietLoad, Carries
    <3> QED  BY <3>5, <3>6
  <2>7. next.quiet = w.quiet
    BY <1>2, <2>2, LoadedFresh DEF Thread
  <2> QED  BY <2>3, <2>4, <2>5, <2>6, <2>7, WriteKeepsQuiet
<1>10. CASE Lock(t)
  <2>1. w.pc = "lock" /\ UNCHANGED <<present, version, shard, bin>>
    BY <1>1, <1>10 DEF Lock
  <2>2. PICK next : next = [w EXCEPT !.pc = "look"]
    OBVIOUS
  <2>3. Goes(t, next) /\ next.quiet = w.quiet
    BY <1>1, <1>2, <1>10, <2>2 DEF Lock, Thread
  <2>4. ~w.quiet
    BY <1>2, <2>1 DEF QuietLoad
  <2> QED  BY <2>1, <2>3, <2>4, GoesKeepsQuiet
<1>11. CASE Store(t)
  <2>1. /\ write_shard(t, w.at, Extend(w.read, w.current), TRUE, NextStubs(w))
        /\ UNCHANGED <<present, version, bin>>
    BY <1>1, <1>11 DEF Store
  <2>2. NextStubs(w) \in Thread
    BY <1>2, NextStubsSound DEF Sound
  <2> QED  BY <2>1, <2>2, NextStubsFresh, WriteKeepsQuiet
<1> QED  BY <1>3, <1>4, <1>5, <1>6, <1>7, <1>8, <1>9, <1>10, <1>11 DEF Step

(* What a load that nothing disturbed knows of each session, at each step. *)
THEOREM QuietLoadsAreKnown == Spec => []QuietInv
<1>1. QuietInv /\ (HonestInv /\ MergeInv) /\ [Next]_vars => QuietInv'
  <2> SUFFICES ASSUME QuietInv, HonestInv, MergeInv, [Next]_vars PROVE QuietInv'
    OBVIOUS
  <2>1. CASE UNCHANGED vars
    BY <2>1 DEF vars, QuietInv, QuietLoad, Known, UpToDate, Carries
  <2> QED  BY <2>1, ChangesKeepQuiet, StepKeepsQuiet, CrashKeepsQuiet DEF Next
<1> QED  BY <1>1, InitQuiet, MergesAreSafe, PTL DEF Spec

(* A load that nothing disturbed leaves a current entry for each session,  *)
(* so that the next launch parses nothing.                                 *)
THEOREM NextLaunchParsesNothing == Spec => []NextLoadParsesNothing
<1>1. QuietInv /\ HonestInv => NextLoadParsesNothing
  BY DEF QuietInv, HonestInv, TypeOK, QuietLoad, UpToDate, NextLoadParsesNothing,
         IsCurrent, Stored
<1> QED  BY <1>1, QuietLoadsAreKnown, CacheIsHonest, PTL
=============================================================================
