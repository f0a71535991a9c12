---------------------------- MODULE SessionCache ----------------------------
(***************************************************************************)
(* The session cache of one provider root: src/src/history/cache.rs, the   *)
(* files it keeps through src/src/cache_file.rs, and the loads of          *)
(* src/src/history/provider/load.rs that read and write it.                *)
(*                                                                         *)
(* The cache is one file per shard.  A process loads the root (load_root), *)
(* or reads some of its sessions (read_stubs: a refresh, a session asked   *)
(* for by id), on threads that share SHARD_MERGE; other processes share    *)
(* only the files.  sessions.bin is the one file of older releases, moved  *)
(* into the shards by the first thread that reads the root.                *)
(*                                                                         *)
(* A step is one file operation or the parse of one transcript.  A file    *)
(* is replaced whole by a rename, so that a write is seen or not, and a    *)
(* write may fail.  A shard that is absent, unreadable, or written for     *)
(* another schema, reads as one that holds nothing, and is modelled so.    *)
(* A transcript's n-th content is the number n; its fingerprint changes    *)
(* with each, and no content comes back.                                   *)
(***************************************************************************)
EXTENDS Integers, FiniteSets, Sequences, SequencesExt

CONSTANTS
  Sessions,     (* the cache keys under the root                           *)
  Shards,       (* SHARD_COUNT shards                                      *)
  ShardOf,      (* shard_index                                             *)
  Threads,      (* the threads that use the cache                          *)
  Loaders,      (* those of them that may load the root                    *)
  ProcessOf,    (* whose thread each is                                    *)
  Faults,       (* which file operations may fail                          *)
  EmptyTexts,   (* the contents that hold no conversation                  *)
  MaxVersion,   (* bounds how often a transcript changes                   *)
  None,         (* no entry, no file, no thread                            *)
  Foreign       (* a sessions.bin of another provider or schema            *)

ASSUME ShardAssumption == Shards \subseteq Nat /\ ShardOf \in [Sessions -> Shards]

ASSUME ThreadAssumption ==
  /\ Loaders \subseteq Threads /\ DOMAIN ProcessOf = Threads
  /\ Faults \subseteq {"write", "remove"} /\ MaxVersion \in Nat \ {0}

VARIABLES
  present,   (* the sessions whose transcripts exist                       *)
  version,   (* what each transcript holds, or held last                   *)
  shard,     (* the shards' files                                          *)
  bin,       (* sessions.bin: its entries, Foreign, or None                *)
  turn,      (* who holds each process's SHARD_MERGE                       *)
  thread

vars == <<present, version, shard, bin, turn, thread>>

Processes == {ProcessOf[t] : t \in Threads}

Version == 1 .. MaxVersion

(* SessionCacheEntry: the fingerprint found by discovery, and the content  *)
(* that was then parsed: Listed, or Empty.                                 *)
Entry == [stamp : Version, text : Version]
IsListed(entry) == entry.text \notin EmptyTexts

ASSUME NoneAssumption ==
  /\ None \notin Entry \cup Version \cup Threads /\ None # Foreign
  /\ None \notin [Sessions -> Entry \cup {None}]
  /\ Foreign \notin [Sessions -> Entry \cup {None}]

Entries == [Sessions -> Entry \cup {None}]
NoEntries == [s \in Sessions |-> None]
Keys(entries) == {s \in Sessions : entries[s] # None}
Within(entries, i) ==
  [s \in Sessions |-> IF ShardOf[s] = i THEN entries[s] ELSE None]
(* HashMap::extend                                                         *)
Extend(entries, more) ==
  [s \in Sessions |-> IF more[s] # None THEN more[s] ELSE entries[s]]

(* `raced`: while this thread merged into its shard, another than its      *)
(* process's merges wrote the shard, or its own migration of it failed.    *)
(* `quiet`: since the load that this thread is in, or did last, nothing    *)
(* changed, failed, or was written by another.                             *)
Thread ==
  [pc      : {"idle", "look", "migrate", "unlink", "parse", "write", "lock",
              "store"},
   task    : {"load", "stubs", "merge"},
   stamps  : [Sessions -> Version \cup {None}],
   pending : SUBSET Sessions,      (* picked, in shards not yet read       *)
   unread  : SUBSET Sessions,      (* of the shards read, not yet parsed   *)
   hits    : SUBSET Sessions,
   read    : Entries,              (* CacheEntries.read                    *)
   current : Entries,              (* CacheEntries.current                 *)
   at      : Shards \cup {None},   (* read_stubs: the shard it is at       *)
   left    : SUBSET Shards,        (* shards still to write                *)
   carried : Entries \cup {None},  (* what sessions.bin held               *)
   raced   : BOOLEAN,
   quiet   : BOOLEAN]

Idle ==
  [pc |-> "idle", task |-> "load", stamps |-> NoEntries, pending |-> {},
   unread |-> {}, hits |-> {}, read |-> NoEntries, current |-> NoEntries,
   at |-> None, left |-> {}, carried |-> None, raced |-> FALSE,
   quiet |-> FALSE]

(* No cache yet, or what a release before sharding left of it.             *)
Init ==
  /\ present = Sessions
  /\ version = [s \in Sessions |-> 1]
  /\ shard = [i \in Shards |-> NoEntries]
  /\ bin \in {None, Foreign, [s \in Sessions |-> [stamp |-> 1, text |-> 1]]}
  /\ turn = [p \in Processes |-> None]
  /\ thread = [t \in Threads |-> Idle]

-----------------------------------------------------------------------------
(* Transcripts.  An agent appends to one, or begins or deletes one.        *)

Unsettled == [t \in Threads |-> [thread[t] EXCEPT !.quiet = FALSE]]

Change(s) ==
  /\ version[s] < MaxVersion
  /\ version' = [version EXCEPT ![s] = @ + 1]
  /\ present' = present \cup {s}
  /\ thread' = Unsettled
  /\ UNCHANGED <<shard, bin, turn>>

Delete(s) ==
  /\ s \in present
  /\ present' = present \ {s}
  /\ thread' = Unsettled
  /\ UNCHANGED <<version, shard, bin, turn>>

-----------------------------------------------------------------------------
(* Files *)

Outcomes(operation) == {TRUE} \cup {operation \notin Faults}

(* `t` replaces shard `i`'s file, or fails to, and goes on as `next`.      *)
(* `merging` is a write under SHARD_MERGE of the shard that it guards.     *)
write_shard(t, i, entries, merging, next) ==
  \E done \in Outcomes("write") :
    /\ shard' = IF done THEN [shard EXCEPT ![i] = Within(entries, i)] ELSE shard
    /\ thread' = [u \in Threads |->
         IF u = t THEN [next EXCEPT !.quiet = @ /\ done,
                                    !.raced = @ \/ (~done /\ next.task = "merge")]
         ELSE [thread[u] EXCEPT
                 !.quiet = FALSE,
                 !.raced = \/ @
                           \/ /\ turn[ProcessOf[u]] = u /\ thread[u].at = i
                              /\ ~(merging /\ ProcessOf[u] = ProcessOf[t])]]

(* What a read of the shards gives the thread: all of them for a load, its *)
(* own for a read of stubs.                                                *)
OnDisk(w) ==
  [s \in Sessions |->
    IF w.task = "load" \/ ShardOf[s] = w.at THEN shard[ShardOf[s]][s] ELSE None]
InShards(w, entries) == IF w.task = "load" THEN entries ELSE Within(entries, w.at)

(* cached_entry                                                            *)
IsHit(entries, stamps, s) ==
  entries[s] # None /\ stamps[s] # None /\ entries[s].stamp = stamps[s]

Hits(w, entries) == {s \in w.unread : IsHit(entries, w.stamps, s)}

(* shards_a_load_may_write: those of a session that misses, or of an entry *)
(* that no session restores from.                                          *)
Writable(w, entries) ==
  {ShardOf[s] : s \in (w.unread \cup Keys(entries)) \ Hits(w, entries)}

(* For a mutant: an entry is taken whatever becomes of its shard.          *)
TakenAlways(w, entries) ==
  IF w.task # "load" THEN {} ELSE {s \in Hits(w, entries) : IsListed(entries[s])}

(* take_hits_outside_writable_shards: a load moves a listed entry into its *)
(* row when the shard that held it will not be written.                    *)
Taken(w, entries) ==
  IF w.task # "load" THEN {}
  ELSE {s \in Hits(w, entries) :
          IsListed(entries[s]) /\ ShardOf[s] \notin Writable(w, entries)}

(* dropped_keys, and the shards of the sessions reread or recorded empty.  *)
Changed(w) ==
  {ShardOf[s] : s \in {x \in Sessions :
     IF w.current[x] = None THEN w.read[x] # None
     ELSE w.stamps[x] # None /\ x \notin w.hits}}

Loaded(w) == [Idle EXCEPT !.quiet = w.quiet]

First(numbers) == CHOOSE i \in numbers : \A j \in numbers : i <= j

(* The thread turns to the next shard of the sessions picked.              *)
NextStubs(w) ==
  IF w.pending = {} THEN Idle
  ELSE LET i == First({ShardOf[s] : s \in w.pending})
           its == {s \in w.pending : ShardOf[s] = i}
       IN [Idle EXCEPT !.pc = "look", !.task = "stubs", !.at = i,
             !.stamps = w.stamps, !.pending = w.pending \ its, !.unread = its]

(* For a mutant: entries are stamped with what their transcripts are when  *)
(* they are handed over, not with what discovery found.                    *)
ToMergeRestamped(w) ==
  [Idle EXCEPT !.pc = "lock", !.task = "merge", !.at = w.at,
     !.current = [s \in Sessions |->
        IF w.current[s] = None THEN None
        ELSE [stamp |-> version[s], text |-> w.current[s].text]],
     !.pending = w.pending,
     !.stamps = [s \in Sessions |->
                   IF s \in w.pending THEN w.stamps[s] ELSE None]]

(* What a thread that missed takes to its merge.                           *)
ToMerge(w) ==
  [Idle EXCEPT !.pc = "lock", !.task = "merge", !.at = w.at,
     !.current = w.current, !.pending = w.pending,
     !.stamps = [s \in Sessions |->
                   IF s \in w.pending THEN w.stamps[s] ELSE None]]

IsMissed(w) ==
  \E s \in Sessions \ w.hits : w.stamps[s] # None /\ ShardOf[s] = w.at

(* Where the thread goes when every session of what it read is parsed.     *)
Settled(w) ==
  IF w.unread # {} THEN w
  ELSE IF w.task = "load" THEN
    IF Changed(w) = {} THEN Loaded(w)
    ELSE [Loaded(w) EXCEPT !.pc = "write", !.current = w.current,
                           !.left = Changed(w)]
  ELSE IF IsMissed(w) THEN ToMerge(w) ELSE NextStubs(w)

(* The thread goes on with `entries`, what it read for its task.  A hit    *)
(* reads no file: it is restored at once, and a listed one's entry moves   *)
(* from `read` to `current`, or to the row that took it.                   *)
WithEntries(w, entries) ==
  LET hits == Hits(w, entries) IN
  IF w.task = "merge"
  THEN [w EXCEPT !.pc = "store", !.read = entries, !.carried = None]
  ELSE Settled([w EXCEPT !.pc = "parse", !.carried = None, !.hits = hits,
    !.unread = @ \ hits,
    !.read = [s \in Sessions |->
      IF s \in hits /\ IsListed(entries[s]) THEN None ELSE entries[s]],
    !.current = [s \in Sessions |->
      IF s \in hits \ Taken(w, entries) THEN entries[s] ELSE None]])

-----------------------------------------------------------------------------
(* Threads *)

Goes(t, w) == thread' = [thread EXCEPT ![t] = w]

Stamps(picked) ==
  [s \in Sessions |-> IF s \in picked THEN version[s] ELSE None]

(* load_root: discovery stamps every transcript before any is read.        *)
StartLoad(t) ==
  /\ t \in Loaders /\ thread[t].pc = "idle"
  /\ Goes(t, [Idle EXCEPT !.pc = "look", !.stamps = Stamps(present),
                          !.unread = present, !.quiet = TRUE])
  /\ UNCHANGED <<present, version, shard, bin, turn>>

(* read_stubs, of the sessions that a refresh picks or an id names.        *)
StartStubs(t) ==
  /\ thread[t].pc = "idle"
  /\ \E picked \in SUBSET present \ {{}} :
       Goes(t, NextStubs([Idle EXCEPT !.stamps = Stamps(picked),
                                      !.pending = picked]))
  /\ UNCHANGED <<present, version, shard, bin, turn>>

(* read and read_shard, up to migrate_sessions_bin's first write.          *)
Look(t) ==
  LET w == thread[t] IN
  /\ w.pc = "look"
  /\ Goes(t, CASE bin = None -> WithEntries(w, OnDisk(w))
               [] bin = Foreign -> [w EXCEPT !.pc = "unlink"]
               [] OTHER -> [w EXCEPT !.pc = "migrate", !.carried = bin,
                                     !.left = Shards])
  /\ UNCHANGED <<present, version, shard, bin, turn>>

(* write_every_shard                                                       *)
Migrate(t) ==
  LET w == thread[t]  i == First(w.left) IN
  /\ w.pc = "migrate"
  /\ write_shard(t, i, w.carried, FALSE,
       [w EXCEPT !.left = @ \ {i},
                 !.pc = IF w.left = {i} THEN "unlink" ELSE @])
  /\ UNCHANGED <<present, version, bin, turn>>

(* remove_file, whose failure is ignored.                                  *)
Unlink(t) ==
  LET w == thread[t] IN
  /\ w.pc = "unlink"
  /\ \E done \in Outcomes("remove") :
       /\ bin' = IF done THEN None ELSE bin
       /\ Goes(t, WithEntries([w EXCEPT !.quiet = @ /\ done],
                    IF w.carried = None THEN OnDisk(w)
                    ELSE InShards(w, w.carried)))
  /\ UNCHANGED <<present, version, shard, turn>>

(* For a mutant: a session without a fingerprint gets an entry.            *)
ParseUnstamped(t, s) ==
  LET w == thread[t]  next == [w EXCEPT !.unread = @ \ {s}] IN
  /\ w.pc = "parse" /\ s \in w.unread
  /\ Goes(t, Settled([next EXCEPT !.current[s] =
                        [stamp |-> None, text |-> version[s]]]))
  /\ UNCHANGED <<present, version, shard, bin, turn>>

(* parse_session and record, for one session.  One that is gone, whose     *)
(* read fails, or whose fingerprint is unknown, gets no entry.             *)
Parse(t, s) ==
  LET w == thread[t]  next == [w EXCEPT !.unread = @ \ {s}] IN
  /\ w.pc = "parse" /\ s \in w.unread
  /\ \/ /\ s \in present /\ w.stamps[s] # None
        /\ Goes(t, Settled([next EXCEPT !.current[s] =
                              [stamp |-> w.stamps[s], text |-> version[s]]]))
     \/ Goes(t, Settled([next EXCEPT !.quiet = FALSE]))
  /\ UNCHANGED <<present, version, shard, bin, turn>>

(* load_root writes the shards that changed, whole and without the lock.   *)
Write(t) ==
  LET w == thread[t]  i == First(w.left) IN
  /\ w.pc = "write"
  /\ write_shard(t, i, w.current, FALSE,
       IF w.left = {i} THEN Loaded(w) ELSE [w EXCEPT !.left = @ \ {i}])
  /\ UNCHANGED <<present, version, bin, turn>>

(* For a mutant: the merge does not wait for its turn.                     *)
LockWithoutWaiting(t) ==
  /\ thread[t].pc = "lock"
  /\ turn' = [turn EXCEPT ![ProcessOf[t]] = t]
  /\ Goes(t, [thread[t] EXCEPT !.pc = "look"])
  /\ UNCHANGED <<present, version, shard, bin>>

(* merge_into_shard takes SHARD_MERGE, reads the shard again, and writes   *)
(* it back with the entries it was given.                                  *)
Lock(t) ==
  /\ thread[t].pc = "lock" /\ turn[ProcessOf[t]] = None
  /\ turn' = [turn EXCEPT ![ProcessOf[t]] = t]
  /\ Goes(t, [thread[t] EXCEPT !.pc = "look"])
  /\ UNCHANGED <<present, version, shard, bin>>

Store(t) ==
  LET w == thread[t] IN
  /\ w.pc = "store"
  /\ write_shard(t, w.at, Extend(w.read, w.current), TRUE, NextStubs(w))
  /\ turn' = [turn EXCEPT ![ProcessOf[t]] = None]
  /\ UNCHANGED <<present, version, bin>>

(* A process stops: what its threads held, and its lock, are gone.         *)
Crash(p) ==
  /\ \E t \in Threads : ProcessOf[t] = p /\ thread[t].pc # "idle"
  /\ thread' = [t \in Threads |-> IF ProcessOf[t] = p THEN Idle ELSE thread[t]]
  /\ turn' = [turn EXCEPT ![p] = None]
  /\ UNCHANGED <<present, version, shard, bin>>

Step(t) ==
  \/ StartLoad(t) \/ StartStubs(t) \/ Look(t) \/ Migrate(t) \/ Unlink(t)
  \/ \E s \in Sessions : Parse(t, s)
  \/ Write(t) \/ Lock(t) \/ Store(t)

Next ==
  \/ \E s \in Sessions : Change(s) \/ Delete(s)
  \/ \E t \in Threads : Step(t)
  \/ \E p \in Processes : Crash(p)

Spec == Init /\ [][Next]_vars

-----------------------------------------------------------------------------
(* Properties *)

TypeOK ==
  /\ present \subseteq Sessions
  /\ version \in [Sessions -> Version]
  /\ shard \in [Shards -> Entries]
  /\ bin \in Entries \cup {None, Foreign}
  /\ turn \in [Processes -> Threads \cup {None}]
  /\ thread \in [Threads -> Thread]

(* What a read of the root would find of a session.                        *)
Stored(s) == IF bin \in {None, Foreign} THEN shard[ShardOf[s]][s] ELSE bin[s]

IsCurrent(s) == Stored(s) # None /\ Stored(s).stamp = version[s]

(* A session whose transcript still has the fingerprint of its cache entry *)
(* is listed, from the cache, with what the transcript holds: an entry is  *)
(* stamped with a fingerprint taken before the transcript was read, and no *)
(* merge, migration, failed write or crash puts an entry in another's      *)
(* place.                                                                  *)
HitIsCurrent == \A s \in Sessions : IsCurrent(s) => Stored(s).text = version[s]

(* A load that nothing disturbed leaves a current entry for each session,  *)
(* wherever the entries it found came from and whichever shards it found   *)
(* no reason to write: the next launch parses nothing.                     *)
NextLoadParsesNothing ==
  \A t \in Threads :
    thread[t].pc = "idle" /\ thread[t].quiet => \A s \in present : IsCurrent(s)

(* Threads of one process that merge into a shard keep each other's        *)
(* entries: a merge drops no current entry of a session it did not read,   *)
(* unless a load, a migration or another process wrote the shard under it  *)
(* (SHARD_MERGE's comment).                                                *)
MergeKeepsOthers ==
  [][\A t \in Threads :
       thread[t].pc = "store" /\ thread'[t].pc # "store" /\ ~thread[t].raced =>
         \A s \in Sessions \ Keys(thread[t].current) :
           IsCurrent(s) => IsCurrent(s)']_vars
=============================================================================
