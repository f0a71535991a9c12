---------------------------- MODULE SemanticIndex ----------------------------
(***************************************************************************)
(* The passages of the semantic search: the embedding cache in memory and  *)
(* on disk (semantic/cache.rs), the resident passages of the last corpus   *)
(* and their signature (semantic/index.rs, semantic/index/resident.rs).    *)
(* A process is the list's worker, which serves one corpus after another   *)
(* and can be cancelled, an agent search, or --generate-semantic-cache;    *)
(* each reads the cache file once and writes it whole.  A passage is a     *)
(* number, in the order of the passages' hashes; an embedding is the       *)
(* passage it was made of.  A write that fails, and an entry on disk that  *)
(* is not of finite values, are left out.                                  *)
(***************************************************************************)
EXTENDS Integers, FiniteSets, Functions, Sequences

CONSTANTS
  Passages,      \* the distinct texts that sessions are cut into
  Corpora,       \* lists of sessions, each a path and its passages in order
  BatchSize,     \* DEFAULT_EMBEDDING_BATCH_SIZE
  SaveInterval,  \* SAVE_INTERVAL
  MaxEntries,    \* MAX_CACHE_ENTRIES
  MaxAccess,     \* bound: how far the access counter of a cache may count
  Process,
  None           \* no signature, no conversation built from

ASSUME PassagesAssumption == Passages \subseteq Nat /\ IsFiniteSet(Passages)

ASSUME CorporaAssumption ==
  \A corpus \in Corpora :
    /\ corpus \in Seq([path : STRING, content : Seq(Passages)])
    /\ corpus # None /\ \A slot \in DOMAIN corpus : corpus[slot].content # None

ASSUME LimitsAssumption ==
  /\ BatchSize \in Nat \ {0} /\ SaveInterval \in Nat \ {0}
  /\ MaxEntries \in Nat \ {0} /\ MaxAccess \in Nat

VARIABLES
  disk,     \* the embedding cache file
  index,    \* each process's SemanticIndexState
  run,      \* what each process is doing
  history   \* the passages on disk when each process started, and when it
            \* last read or wrote the file

vars == <<disk, index, run, history>>

(***************************************************************************)
(* The embedding cache.                                                    *)
(***************************************************************************)
EmptyCache == [access_counter |-> 0, entries |-> <<>>]

Cached(cache) == DOMAIN cache.entries
Protected(cache) == {key \in Cached(cache) : cache.entries[key].protected}

(* For a mutant: the eviction order forgets what is protected.             *)
UsedBefore(a, b, entries) ==
  \/ entries[a].last_used < entries[b].last_used
  \/ (entries[a].last_used = entries[b].last_used /\ a < b)

(* Whether entry a of a cache is evicted before entry b.                   *)
GoesBefore(a, b, entries) ==
  \/ ~entries[a].protected /\ entries[b].protected
  \/ /\ entries[a].protected = entries[b].protected
     /\ \/ entries[a].last_used < entries[b].last_used
        \/ (entries[a].last_used = entries[b].last_used /\ a < b)

Excess(cache) == Cardinality(Cached(cache)) - MaxEntries

prune_cache(cache) ==
  LET oldest(key) == {k \in Cached(cache) : GoesBefore(k, key, cache.entries)}
      stays == {key \in Cached(cache) : Cardinality(oldest(key)) >= Excess(cache)}
  IN  [cache EXCEPT !.entries = Restrict(cache.entries, stays)]

(* For a mutant: what a lookup finds keeps its age.                        *)
LookUpOnly(cache, keys) == [cache EXCEPT !.access_counter = @ + 1]

(* A lookup: the cache counts an access, and what it finds is marked with  *)
(* it.                                                                     *)
LookUp(cache, keys) ==
  [access_counter |-> cache.access_counter + 1,
   entries |-> [key \in Cached(cache) |->
      [cache.entries[key] EXCEPT
         !.last_used = IF key \in keys THEN cache.access_counter + 1 ELSE @]]]

Insert(cache, keys) ==
  [cache EXCEPT !.entries = [key \in Cached(cache) \cup keys |->
      IF key \in keys
      THEN [last_used |-> cache.access_counter, protected |-> FALSE]
      ELSE cache.entries[key]]]

(* The cache with these of its entries protected, and no others.           *)
WithProtected(cache, keys) ==
  [cache EXCEPT !.entries = [key \in Cached(cache) |->
      [cache.entries[key] EXCEPT !.protected = key \in keys]]]

(***************************************************************************)
(* The corpus and the resident passages.  A position in the corpus is a    *)
(* slot.                                                                   *)
(***************************************************************************)
(* A conversation's key: its path, and how many slots before have the same. *)
conversation_keys(corpus) ==
  [slot \in DOMAIN corpus |->
     <<corpus[slot].path,
       Cardinality({s \in 1 .. slot - 1 : corpus[s].path = corpus[slot].path})>>]

(* The chunks a conversation is cut into, each its index and its text.     *)
ChunksOf(content) == {<<i, content[i]>> : i \in DOMAIN content}

(* Where the chunks of some slots are, and the text that each holds.       *)
Places(corpus, slots) ==
  UNION {{slot} \X (DOMAIN corpus[slot].content) : slot \in slots}

AllPlaces(corpus) == Places(corpus, DOMAIN corpus)
Text(corpus, place) == corpus[place[1]].content[place[2]]
Texts(corpus, places) == {Text(corpus, place) : place \in places}

Before(x, y) == x[1] < y[1] \/ (x[1] = y[1] /\ x[2] < y[2])

(* The first of these texts, in the order in which the places hold them.   *)
FirstOf(corpus, places, texts, count) ==
  LET Holds(x, text) == Text(corpus, x) = text
      Earlier(a, b) == \E x \in places : /\ Holds(x, a)
                                        /\ \A y \in places : Holds(y, b) => Before(x, y)
  IN  {text \in texts : Cardinality({t \in texts : Earlier(t, text)}) < count}

(* How many chunks of these slots hold one of these texts.                 *)
CountIn(corpus, slots, texts) ==
  Cardinality({place \in Places(corpus, slots) : Text(corpus, place) \in texts})

(* How many resident chunks these conversations have.                      *)
CountOf(resident, keys) ==
  Cardinality(UNION {{key} \X resident[key].chunks : key \in keys})

NoPassages == [signature |-> None, resident |-> <<>>, corpus |-> <<>>, chunk_count |-> 0]

(* For a mutant: a refresh keeps the signature of the corpus before.       *)
still_signed(ix) == ix

(* A refresh begins by forgetting which corpus the passages are of.        *)
unsigned(ix) == [ix EXCEPT !.signature = None]

IsUnchanged(ix, corpus, slot) ==
  LET key == conversation_keys(corpus)[slot]
  IN  /\ key \in DOMAIN ix.resident
      /\ ix.resident[key].built_from = corpus[slot].content

(* What a refresh has done when it has planned the slots before `upto`:    *)
(* dropped what the corpus no longer lists, and moved what is unchanged.   *)
plan_refresh(ix, corpus, upto) ==
  LET keys == conversation_keys(corpus)
      live == DOMAIN ix.resident \cap Range(keys)
      moves(slot) == slot < upto /\ IsUnchanged(ix, corpus, slot)
      Moved(key, conversation) ==
        IF \E slot \in DOMAIN keys : keys[slot] = key /\ moves(slot)
        THEN [conversation EXCEPT !.position =
                CHOOSE slot \in DOMAIN keys : keys[slot] = key]
        ELSE conversation
  IN  [unsigned(ix) EXCEPT
         !.corpus = keys,
         !.resident = [key \in live |-> Moved(key, ix.resident[key])],
         !.chunk_count = @ - CountOf(ix.resident, DOMAIN ix.resident \ live)]

pending(ix, corpus) ==
  {slot \in DOMAIN corpus : ~IsUnchanged(ix, corpus, slot)}

is_complete(ix) ==
  \A slot \in DOMAIN ix.corpus :
    /\ ix.corpus[slot] \in DOMAIN ix.resident
    /\ ix.resident[ix.corpus[slot]].built_from # None

(* For a mutant: a conversation counts as built with part of its chunks.   *)
BuiltInPart(content, slot, embedded) ==
  [built_from |-> content, position |-> slot,
   chunks |-> {chunk \in ChunksOf(content) : chunk[2] \in embedded}]

(* A conversation with those of its chunks whose text is embedded.         *)
Built(content, slot, embedded) ==
  LET chunks == {chunk \in ChunksOf(content) : chunk[2] \in embedded}
  IN  [built_from |-> IF chunks = ChunksOf(content) THEN content ELSE None,
       position |-> slot, chunks |-> chunks]

(* Each pending slot's conversation takes the place of what it was.        *)
absorb(ix, corpus, slots, embedded) ==
  LET keys == {ix.corpus[slot] : slot \in slots}
      built == [key \in keys |->
                  LET slot == CHOOSE s \in slots : ix.corpus[s] = key
                  IN  Built(corpus[slot].content, slot, embedded)]
      absorbed == [ix EXCEPT
        !.resident = [key \in DOMAIN ix.resident \cup keys |->
                        IF key \in keys THEN built[key] ELSE ix.resident[key]],
        !.chunk_count = @ + CountOf(built, keys)
                          - CountOf(ix.resident, DOMAIN ix.resident \cap keys)]
  IN  [absorbed EXCEPT !.signature = IF is_complete(absorbed) THEN corpus ELSE None]

(***************************************************************************)
(* The processes.                                                          *)
(***************************************************************************)
Idle == [pc |-> "idle", kind |-> "list", request |-> <<>>, budget |-> "unbounded",
         pending |-> {}, misses |-> {}, embedded |-> {}, missing |-> 0,
         completed |-> 0, last_saved |-> 0]

Off == [Idle EXCEPT !.pc = "off"]

Unread == [known |-> {}, saved |-> {}]

Fresh == [cache |-> EmptyCache, passages |-> NoPassages]

(* A file that an older release left, over the limit, or none.             *)
OldFile == [access_counter |-> 1,
            entries |-> [key \in Passages |-> [last_used |-> 1, protected |-> FALSE]]]

Init ==
  /\ disk \in {EmptyCache, OldFile}
  /\ index = [p \in Process |-> Fresh]
  /\ run = [p \in Process |-> Off]
  /\ history = [p \in Process |-> Unread]

(* A process reads the file, and writes it back when it was over the limit. *)
Read == prune_cache(disk)

Start(p, started, cache) ==
  /\ run[p].pc = "off"
  /\ disk' = Read
  /\ index' = [index EXCEPT ![p].cache = cache]
  /\ run' = [run EXCEPT ![p] = started]
  /\ history' = [history EXCEPT ![p] = [known |-> Cached(Read), saved |-> Cached(Read)]]

Request(kind, corpus, budget) ==
  [Idle EXCEPT !.pc = "request", !.kind = kind, !.request = corpus, !.budget = budget]

StartList(p) == Start(p, Idle, Read)

StartAgent(p, corpus, budget) == Start(p, Request("agent", corpus, budget), Read)

(* The core that a generate protects; it refuses one over the limit.       *)
Core(corpus) == Texts(corpus, AllPlaces(corpus))

StartGenerate(p, corpus) ==
  /\ Core(corpus) # {} /\ Cardinality(Core(corpus)) <= MaxEntries
  /\ Start(p, Request("generate", corpus, "unbounded"),
           WithProtected(Read, Protected(Read) \cap Core(corpus)))

(* The list's worker takes up a search or a prewarm.                       *)
Search(p, corpus) ==
  /\ run[p].pc = "idle"
  /\ run' = [run EXCEPT ![p] = Request("list", corpus, "unbounded")]
  /\ UNCHANGED <<disk, index, history>>

(* What a process does when its search is cancelled or fails.              *)
Ended(p) == IF run[p].kind = "list" THEN Idle ELSE [run[p] EXCEPT !.pc = "failed"]

IsCancellable(p) == run[p].kind = "list"

signature_matches(p) ==
  /\ index[p].passages.signature # None
  /\ index[p].passages.signature = run[p].request

(* What only the list's worker asks before it refreshes.                   *)
has_chunks(p) ==
  IF signature_matches(p) THEN index[p].passages.chunk_count > 0
  ELSE AllPlaces(run[p].request) # {}

(* A corpus without passages has no resident ones.                         *)
clear_empty(p) ==
  /\ run[p].pc = "request" /\ run[p].kind = "list" /\ ~has_chunks(p)
  /\ index' = [index EXCEPT ![p].passages = [NoPassages EXCEPT !.signature = run[p].request]]
  /\ run' = [run EXCEPT ![p] = Idle]
  /\ UNCHANGED <<disk, history>>

IsRefreshing(p) == run[p].pc = "request" /\ (run[p].kind = "list" => has_chunks(p))

IsPlanning(p) == IsRefreshing(p) /\ ~signature_matches(p)

(* The request is for the corpus that the passages are of.                 *)
AlreadyFresh(p) ==
  /\ IsRefreshing(p) /\ signature_matches(p)
  /\ run' = [run EXCEPT ![p].pc = "rank"]
  /\ UNCHANGED <<disk, index, history>>

(* Cancelled before anything is changed.                                   *)
CancelRequest(p) ==
  /\ run[p].pc = "request" /\ IsCancellable(p)
  /\ run' = [run EXCEPT ![p] = Idle]
  /\ UNCHANGED <<disk, index, history>>

(* The whole plan, and the lookup of its chunks; the budget cuts what is   *)
(* to be embedded.                                                         *)
Refresh(p) ==
  LET old == index[p]
      corpus == run[p].request
      slots == pending(old.passages, corpus)
      places == Places(corpus, slots)
      hits == Texts(corpus, places) \cap Cached(old.cache)
      cut == IF run[p].budget = "none" THEN Texts(corpus, places) \ hits ELSE {}
      misses == Texts(corpus, places) \ (hits \cup cut)
      planned == plan_refresh(old.passages, corpus, Len(corpus) + 1)
  IN  /\ IsPlanning(p)
      /\ old.cache.access_counter < MaxAccess
      /\ index' = [index EXCEPT ![p] =
           [cache |-> LookUp(old.cache, hits),
            passages |-> IF misses # {} THEN planned
                         ELSE absorb(planned, corpus, slots, hits)]]
      /\ run' = [run EXCEPT ![p] =
           IF misses # {}
           THEN [@ EXCEPT !.pc = "embed", !.pending = slots, !.misses = misses,
                          !.embedded = hits]
           ELSE [@ EXCEPT !.pc = "rank", !.missing = CountIn(corpus, slots, cut)]]
      /\ UNCHANGED <<disk, history>>

(* Cancelled after a part of the plan, or of the lookup.                   *)
CancelPlan(p, upto) ==
  /\ IsPlanning(p) /\ IsCancellable(p)
  /\ index' = [index EXCEPT ![p].passages = plan_refresh(@, run[p].request, upto)]
  /\ run' = [run EXCEPT ![p] = Idle]
  /\ UNCHANGED <<disk, history>>

CancelLookUp(p, place) ==
  LET old == index[p]
      corpus == run[p].request
      places == Places(corpus, pending(old.passages, corpus))
      seen == Texts(corpus, {x \in places : Before(x, place)})
  IN  /\ IsPlanning(p) /\ IsCancellable(p)
      /\ place \in places
      /\ old.cache.access_counter < MaxAccess
      /\ index' = [index EXCEPT ![p] =
           [cache |-> LookUp(old.cache, seen),
            passages |-> plan_refresh(old.passages, corpus, Len(corpus) + 1)]]
      /\ run' = [run EXCEPT ![p] = Idle]
      /\ UNCHANGED <<disk, history>>

(* The file is written with the whole cache.                               *)
Write(p, cache) ==
  /\ disk' = cache
  /\ history' = [history EXCEPT ![p].saved = Cached(cache)]

Keep == UNCHANGED <<disk, history>>

(* For a mutant: a search that runs out of time saves nothing more.        *)
IsSaveDueUnlessStopped(p, completed, stops) ==
  \/ completed = run[p].completed + Cardinality(run[p].misses)
  \/ completed - run[p].last_saved >= SaveInterval

(* Whether a batch that ends with `completed` passages done saves the file. *)
IsSaveDue(p, completed, stops) ==
  \/ completed = run[p].completed + Cardinality(run[p].misses)
  \/ completed - run[p].last_saved >= SaveInterval
  \/ stops

(* The next batch of the misses is embedded; it `stops` when the time is    *)
(* up and passages are left.                                               *)
Batch(p, stops) ==
  LET now == run[p]
      batch == FirstOf(now.request, Places(now.request, now.pending), now.misses, BatchSize)
      completed == now.completed + Cardinality(batch)
      rest == now.misses \ batch
      saves == IsSaveDue(p, completed, stops)
      inserted == Insert(index[p].cache, batch)
      cache == IF saves THEN prune_cache(inserted) ELSE inserted
      embedded == now.embedded \cup batch
  IN  /\ now.pc = "embed"
      /\ stops => now.budget = "time" /\ rest # {}
      /\ IF saves THEN Write(p, cache) ELSE Keep
      /\ index' = [index EXCEPT ![p] =
           [cache |-> cache,
            passages |-> IF stops \/ rest = {}
                         THEN absorb(@.passages, now.request, now.pending, embedded)
                         ELSE @.passages]]
      /\ run' = [run EXCEPT ![p] =
           IF stops \/ rest = {}
           THEN [Request(now.kind, now.request, now.budget) EXCEPT
                   !.pc = "rank", !.embedded = embedded,
                   !.missing = CountIn(now.request, now.pending, rest)]
           ELSE [now EXCEPT !.misses = rest, !.embedded = embedded, !.completed = completed,
                            !.last_saved = IF saves THEN completed ELSE @]]

(* For a mutant: what no save covered yet is dropped.                      *)
save_nothing(p) == Keep /\ UNCHANGED index

(* The search is cancelled before a batch, or the batch fails: what        *)
(* earlier batches did is saved.                                           *)
save_pending_cache(p) ==
  LET cache == prune_cache(index[p].cache)
  IN  IF run[p].completed > run[p].last_saved
      THEN Write(p, cache) /\ index' = [index EXCEPT ![p].cache = cache]
      ELSE Keep /\ UNCHANGED index

StopBatch(p) ==
  /\ run[p].pc = "embed"
  /\ save_pending_cache(p)
  /\ run' = [run EXCEPT ![p] = Ended(p)]

(* The ranking reads the resident passages.                                *)
Rank(p) ==
  /\ run[p].pc = "rank" /\ run[p].kind \in {"list", "agent"}
  /\ run' = [run EXCEPT ![p] = IF run[p].kind = "list" THEN Idle ELSE [@ EXCEPT !.pc = "done"]]
  /\ UNCHANGED <<disk, index, history>>

(* The generate protects its core and writes the file.                     *)
ProtectCore(p) ==
  LET cache == index[p].cache
      protected == WithProtected(cache, Protected(cache) \cup Core(run[p].request))
  IN  /\ run[p].pc = "rank" /\ run[p].kind = "generate"
      /\ index' = [index EXCEPT ![p].cache = protected]
      /\ Write(p, protected)
      /\ run' = [run EXCEPT ![p].pc = "done"]

(* A process ends, whatever it was doing.                                  *)
Exit(p) ==
  /\ run[p].pc # "off"
  /\ index' = [index EXCEPT ![p] = Fresh]
  /\ run' = [run EXCEPT ![p] = Off]
  /\ history' = [history EXCEPT ![p] = Unread]
  /\ UNCHANGED disk

(* --clear-semantic-cache removes the file, whoever is running.            *)
clear_cache ==
  /\ disk' = EmptyCache
  /\ UNCHANGED <<index, run, history>>

Next ==
  \/ clear_cache
  \/ \E p \in Process :
      \/ StartList(p)
      \/ \E corpus \in Corpora :
           \/ \E budget \in {"none", "time"} : StartAgent(p, corpus, budget)
           \/ StartGenerate(p, corpus)
           \/ Search(p, corpus)
      \/ clear_empty(p)
      \/ AlreadyFresh(p)
      \/ CancelRequest(p)
      \/ Refresh(p)
      \/ \E upto \in 1 .. Len(run[p].request) + 1 : CancelPlan(p, upto)
      \/ \E place \in AllPlaces(run[p].request) : CancelLookUp(p, place)
      \/ \E stops \in BOOLEAN : Batch(p, stops)
      \/ StopBatch(p)
      \/ Rank(p)
      \/ ProtectCore(p)
      \/ Exit(p)

Spec == Init /\ [][Next]_vars

(***************************************************************************)
(* Properties.                                                             *)
(***************************************************************************)
Entry == [last_used : Nat, protected : BOOLEAN]

IsCache(cache) ==
  /\ DOMAIN cache = {"access_counter", "entries"} /\ cache.access_counter \in Nat
  /\ Cached(cache) \subseteq Passages /\ cache.entries \in [Cached(cache) -> Entry]

IsResident(conversation) ==
  /\ conversation.position \in Nat
  /\ conversation.chunks \subseteq Nat \X Passages
  /\ \/ conversation.built_from = None
     \/ conversation.chunks = ChunksOf(conversation.built_from)

(* Cache, resident passages and run hold what their types allow; a         *)
(* conversation that counts as built has all its chunks.                   *)
TypeOK ==
  /\ IsCache(disk)
  /\ \A p \in Process :
       /\ IsCache(index[p].cache)
       /\ index[p].passages.signature \in Corpora \cup {None}
       /\ index[p].passages.chunk_count \in Nat
       /\ \A key \in DOMAIN index[p].passages.resident :
            IsResident(index[p].passages.resident[key])
       /\ run[p].pc \in {"off", "idle", "request", "embed", "rank", "failed", "done"}
       /\ run[p].kind \in {"list", "agent", "generate"}
       /\ run[p].request \in Corpora \cup {<<>>}
       /\ run[p].budget \in {"unbounded", "none", "time"}
       /\ run[p].pending \subseteq DOMAIN run[p].request
       /\ run[p].misses \subseteq Passages /\ run[p].embedded \subseteq Passages
       /\ run[p].missing \in Nat /\ run[p].last_saved \in 0 .. run[p].completed
       /\ run[p].completed \in Nat
       /\ history[p].known \subseteq Passages /\ history[p].saved \subseteq Passages

(* What a ranking reads is true: for each session of the corpus it was     *)
(* asked for, the resident chunks are that session's own as it is now, at  *)
(* its place in the corpus; their count, kept by adding and subtracting as *)
(* conversations come and go, is right; and with the ones reported missing *)
(* they are all of them.  A cancelled refresh may have left a plan of      *)
(* another corpus half done before it.                                     *)
RankedIsTrue ==
  \A p \in Process : run[p].pc = "rank" =>
    LET ix == index[p].passages
        corpus == run[p].request
    IN  /\ DOMAIN ix.corpus = DOMAIN corpus
        /\ \A slot \in DOMAIN corpus :
             /\ ix.corpus[slot] \in DOMAIN ix.resident
             /\ ix.resident[ix.corpus[slot]].position = slot
             /\ ix.resident[ix.corpus[slot]].chunks \subseteq ChunksOf(corpus[slot].content)
        /\ ix.chunk_count = CountOf(ix.resident, DOMAIN ix.resident)
        /\ ix.chunk_count + run[p].missing = Cardinality(AllPlaces(corpus))

(* Whenever a process is not embedding, it has saved what it embedded:     *)
(* also when it was cancelled, failed or ran out of time between batches.  *)
SavedWhenStopped ==
  \A p \in Process :
    run[p].pc \notin {"off", "embed"} => history[p].saved = Cached(index[p].cache)

(* A search that the cache can hold never evicts what it uses itself: its  *)
(* hits and what it embedded stay cached while its saves prune the rest.   *)
FitsCache(p) ==
  Cardinality(Core(run[p].request) \cup Protected(index[p].cache)) <= MaxEntries

OwnPassagesStay ==
  \A p \in Process : run[p].pc \in {"embed", "rank"} /\ FitsCache(p) =>
    run[p].embedded \subseteq Cached(index[p].cache)

(* "rerun this search to index more": an agent search with time to embed   *)
(* that reports passages missing leaves more of its corpus saved than it   *)
(* found.                                                                  *)
RerunIndexesMore ==
  \A p \in Process :
    /\ run[p].pc = "rank" /\ run[p].kind = "agent" /\ run[p].budget = "time"
    /\ run[p].missing > 0 /\ FitsCache(p)
    => LET core == Core(run[p].request)
       IN  /\ history[p].known \cap core \subseteq history[p].saved
           /\ ~(history[p].saved \cap core \subseteq history[p].known)

(* What --generate-semantic-cache protects stays: it writes its whole core *)
(* protected and nothing else, and no search unprotects or evicts what was *)
(* protected when it read the file.                                        *)
CoreIsKept ==
  [][\A p \in Process :
       /\ run[p].kind = "generate" /\ run[p].pc = "rank" /\ run'[p].pc = "done"
          => Protected(disk') = Core(run[p].request)
       /\ run[p].kind # "generate" /\ run[p].pc # "off" /\ run'[p].pc # "off"
          => Protected(index[p].cache) \subseteq Protected(index'[p].cache)]_vars
=============================================================================
