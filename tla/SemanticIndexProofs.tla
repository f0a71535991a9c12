------------------------ MODULE SemanticIndexProofs ------------------------
(***************************************************************************)
(* Proofs about SemanticIndex, for every set of corpora, batch size, save  *)
(* interval, cache limit and number of processes: its embedding cache, and *)
(* then what a ranking reads of the resident passages.                     *)
(*                                                                         *)
(* Eviction: what a search has used is marked with the cache's last        *)
(* access, so it and the protected entries are the last to be evicted, and *)
(* stay when together they fit.  Saving: a process has saved its whole     *)
(* cache whenever as many passages are saved as completed.                 *)
(*                                                                         *)
(* Ranking: the count of chunks is always that of the resident             *)
(* conversations, a signed corpus is resident whole, and while a refresh   *)
(* embeds, whatever is not pending is as the corpus has it and at its      *)
(* place, whatever refreshes were cancelled before it.                     *)
(***************************************************************************)
EXTENDS SemanticIndex, FiniteSetTheorems, WellFoundedInduction, TLAPS

CacheInv(c) ==
  /\ IsCache(c)
  /\ Cardinality(Protected(c)) <= MaxEntries
  /\ \A key \in Cached(c) : c.entries[key].last_used <= c.access_counter

Corpus == Seq([path : STRING, content : Seq(Passages)])

Requests == Corpora \cup {<<>>}

Run ==
  [pc : {"off", "idle", "request", "embed", "rank", "failed", "done"},
   kind : {"list", "agent", "generate"},
   request : Requests,
   budget : {"unbounded", "none", "time"},
   pending : SUBSET Nat,
   misses : SUBSET Passages,
   embedded : SUBSET Passages,
   missing : Nat,
   completed : Nat,
   last_saved : Nat]

Typed(x, r, h) ==
  /\ DOMAIN x = {"cache", "passages"}
  /\ CacheInv(x.cache)
  /\ r \in Run
  /\ h \in [known : SUBSET Passages, saved : SUBSET Passages]
  /\ r.pending \subseteq DOMAIN r.request
  /\ r.embedded \subseteq Core(r.request)
  /\ r.last_saved <= r.completed
  /\ r.pc = "off" => x.passages = NoPassages
  /\ r.pc = "request" => r.embedded = {}

(* As many passages are saved as completed: the whole cache is saved.      *)
Saved(x, r, h) ==
  /\ r.pc \notin {"off", "embed"} => h.saved = Cached(x.cache)
  /\ r.pc = "embed" /\ r.completed = r.last_saved => h.saved = Cached(x.cache)

(* What is still to be embedded.                                           *)
Missed(x, r) ==
  r.pc = "embed" =>
    /\ r.misses # {}
    /\ r.misses \subseteq Texts(r.request, Places(r.request, r.pending))
    /\ r.misses \cap Cached(x.cache) = {}
    /\ r.misses \cap r.embedded = {}

Fits(x, r) == Cardinality(Core(r.request) \cup Protected(x.cache)) <= MaxEntries

(* What a search uses carries the last access, and stays when it fits.     *)
Owned(x, r) ==
  r.pc \in {"embed", "rank"} =>
    /\ \A key \in r.embedded \cap Cached(x.cache) :
         x.cache.entries[key].last_used = x.cache.access_counter
    /\ r.pc = "embed" => \A key \in Cached(x.cache) \ r.embedded :
         x.cache.entries[key].last_used < x.cache.access_counter
    /\ Fits(x, r) => r.embedded \subseteq Cached(x.cache)

Generating(x, r) ==
  r.kind = "generate" /\ r.pc \in {"request", "embed", "rank"} =>
    /\ r.budget = "unbounded"
    /\ Protected(x.cache) \subseteq Core(r.request)
    /\ Cardinality(Core(r.request)) <= MaxEntries
    /\ r.pc = "request" => x.passages = NoPassages
    /\ r.pc = "embed" => Core(r.request) = r.embedded \cup r.misses
    /\ r.pc = "rank" => Core(r.request) \subseteq Cached(x.cache)

Answering(x, r, h) ==
  r.kind = "agent" =>
    /\ r.pc = "request" => x.passages = NoPassages /\ h.known = Cached(x.cache)
    /\ r.pc = "embed" =>
         /\ h.known \cap Core(r.request) \subseteq r.embedded
         /\ r.misses \cap h.known = {}
    /\ r.pc = "rank" /\ r.budget = "time" /\ r.missing > 0 =>
         /\ h.known \cap Core(r.request) \subseteq r.embedded
         /\ ~(r.embedded \subseteq h.known)

Local(x, r, h) ==
  /\ Typed(x, r, h) /\ Saved(x, r, h) /\ Missed(x, r)
  /\ Owned(x, r) /\ Generating(x, r) /\ Answering(x, r, h)

Inv ==
  /\ CacheInv(disk)
  /\ DOMAIN index = Process /\ DOMAIN run = Process /\ DOMAIN history = Process
  /\ \A p \in Process : Local(index[p], run[p], history[p])

-----------------------------------------------------------------------------
(* The cache *)

LEMMA FinitePassages ==
  ASSUME NEW S \in SUBSET Passages
  PROVE  IsFiniteSet(S) /\ Cardinality(S) \in Nat
BY PassagesAssumption, FS_Subset, FS_CardinalityType

LEMMA PruneFacts ==
  ASSUME NEW c, IsCache(c)
  PROVE  /\ IsCache(prune_cache(c))
         /\ Cached(prune_cache(c)) \subseteq Cached(c)
         /\ prune_cache(c).access_counter = c.access_counter
         /\ \A key \in Cached(prune_cache(c)) : prune_cache(c).entries[key] = c.entries[key]
<1> DEFINE oldest(key) == {k \in Cached(c) : GoesBefore(k, key, c.entries)}
           stays == {key \in Cached(c) : Cardinality(oldest(key)) >= Excess(c)}
           entries == [key \in stays |-> c.entries[key]]
<1>1. prune_cache(c) = [c EXCEPT !.entries = entries]
  BY DEF prune_cache, Restrict
<1>2. stays \subseteq Cached(c)
  OBVIOUS
<1> HIDE DEF stays
<1>3. /\ DOMAIN entries = stays
      /\ \A key \in stays : entries[key] = c.entries[key]
  OBVIOUS
<1>4. entries \in [stays -> Entry]
  BY <1>2 DEF IsCache
<1> HIDE DEF entries
<1>5. /\ prune_cache(c).entries = entries
      /\ prune_cache(c).access_counter = c.access_counter
      /\ DOMAIN prune_cache(c) = DOMAIN c
  BY <1>1 DEF IsCache
<1> QED  BY <1>2, <1>3, <1>4, <1>5 DEF IsCache, Cached

LEMMA PruneKeeps ==
  ASSUME NEW c, IsCache(c), NEW S \in SUBSET Cached(c), Cardinality(S) <= MaxEntries,
         \A key \in S : \A k \in Cached(c) \ S : GoesBefore(k, key, c.entries)
  PROVE  S \subseteq Cached(prune_cache(c))
<1> SUFFICES ASSUME NEW key \in S PROVE key \in Cached(prune_cache(c))
  OBVIOUS
<1> DEFINE oldest(j) == {k \in Cached(c) : GoesBefore(k, j, c.entries)}
           stays == {j \in Cached(c) : Cardinality(oldest(j)) >= Excess(c)}
<1>1. Cached(c) \subseteq Passages
  BY DEF IsCache
<1>2. /\ IsFiniteSet(Cached(c)) /\ IsFiniteSet(oldest(key)) /\ IsFiniteSet(S)
      /\ Cardinality(Cached(c)) \in Nat /\ Cardinality(oldest(key)) \in Nat
      /\ Cardinality(S) \in Nat
  BY <1>1, FinitePassages
<1>3. Cached(c) \ S \subseteq oldest(key)
  OBVIOUS
<1>4. Cardinality(Cached(c) \ S) = Cardinality(Cached(c)) - Cardinality(S)
  <2>1. Cached(c) \cap S = S
    OBVIOUS
  <2> HIDE DEF oldest, stays
  <2>2. Cardinality(Cached(c) \ S) =
          Cardinality(Cached(c)) - Cardinality(Cached(c) \cap S)
    BY <1>2, FS_Difference
  <2> QED  BY <2>1, <2>2
<1>5. Cardinality(Cached(c) \ S) <= Cardinality(oldest(key))
  BY <1>2, <1>3, FS_Subset
<1>6. Cardinality(oldest(key)) >= Excess(c)
  BY <1>2, <1>4, <1>5, LimitsAssumption DEF Excess
<1>7. key \in stays
  BY <1>6
<1>8. Cached(prune_cache(c)) = stays
  <2> HIDE DEF stays
  <2>1. prune_cache(c) = [c EXCEPT !.entries = [j \in stays |-> c.entries[j]]]
    BY DEF prune_cache, Restrict, stays
  <2> QED  BY <2>1 DEF Cached, IsCache
<1> QED  BY <1>7, <1>8

(* The protected entries stay, and with them what carries the last access. *)
LEMMA PruneKeepsUsed ==
  ASSUME NEW c, IsCache(c),
         \A key \in Cached(c) : c.entries[key].last_used <= c.access_counter,
         NEW used \in SUBSET Cached(c),
         \A key \in used : c.entries[key].last_used = c.access_counter,
         \A key \in Cached(c) \ used :
           c.entries[key].protected \/ c.entries[key].last_used < c.access_counter,
         Cardinality(used \cup Protected(c)) <= MaxEntries
  PROVE  used \cup Protected(c) \subseteq Cached(prune_cache(c))
<1> DEFINE S == used \cup Protected(c)
<1>1. \A key \in S : \A k \in Cached(c) \ S : GoesBefore(k, key, c.entries)
  BY DEF Protected, GoesBefore, IsCache, Entry
<1>2. S \in SUBSET Cached(c)
  BY DEF Protected
<1> QED  BY <1>1, <1>2, PruneKeeps

LEMMA PruneKeepsProtected ==
  ASSUME NEW c, IsCache(c), Cardinality(Protected(c)) <= MaxEntries
  PROVE  Protected(prune_cache(c)) = Protected(c)
<1>1. \A key \in Protected(c) : \A k \in Cached(c) \ Protected(c) :
        GoesBefore(k, key, c.entries)
  BY DEF Protected, GoesBefore, IsCache, Entry
<1>2. Protected(c) \subseteq Cached(prune_cache(c))
  BY <1>1, PruneKeeps DEF Protected
<1> QED  BY <1>2, PruneFacts DEF Protected

LEMMA PruneInv ==
  ASSUME NEW c, CacheInv(c)
  PROVE  /\ CacheInv(prune_cache(c))
         /\ Protected(prune_cache(c)) = Protected(c)
BY PruneFacts, PruneKeepsProtected DEF CacheInv

LEMMA LookUpFacts ==
  ASSUME NEW c, CacheInv(c), NEW keys
  PROVE  /\ CacheInv(LookUp(c, keys))
         /\ Cached(LookUp(c, keys)) = Cached(c)
         /\ Protected(LookUp(c, keys)) = Protected(c)
         /\ \A key \in Cached(c) \cap keys :
              LookUp(c, keys).entries[key].last_used = LookUp(c, keys).access_counter
         /\ \A key \in Cached(c) \ keys :
              LookUp(c, keys).entries[key].last_used < LookUp(c, keys).access_counter
<1> DEFINE d == LookUp(c, keys)
<1>1. /\ DOMAIN d = {"access_counter", "entries"}
      /\ d.access_counter = c.access_counter + 1
      /\ d.entries = [key \in Cached(c) |->
           [c.entries[key] EXCEPT
              !.last_used = IF key \in keys THEN c.access_counter + 1 ELSE @]]
  BY DEF LookUp
<1>2. /\ c.access_counter \in Nat /\ Cached(c) \subseteq Passages
      /\ \A key \in Cached(c) : c.entries[key] \in Entry
      /\ \A key \in Cached(c) : c.entries[key].last_used <= c.access_counter
  BY DEF CacheInv, IsCache
<1> HIDE DEF d
<1>3. Cached(d) = Cached(c)
  BY <1>1 DEF Cached
<1>4. \A key \in Cached(c) :
        /\ d.entries[key] \in Entry
        /\ d.entries[key].protected = c.entries[key].protected
        /\ d.entries[key].last_used =
             IF key \in keys THEN c.access_counter + 1 ELSE c.entries[key].last_used
  BY <1>1, <1>2 DEF Entry
<1>5. Protected(d) = Protected(c)
  BY <1>3, <1>4 DEF Protected
<1>6. d.entries \in [Cached(d) -> Entry]
  BY <1>1, <1>3, <1>4
<1>7. IsCache(d)
  BY <1>1, <1>2, <1>3, <1>6 DEF IsCache
<1>8. \A key \in Cached(c) : d.entries[key].last_used <= d.access_counter
  BY <1>1, <1>2, <1>4 DEF Entry
<1>9. CacheInv(d)
  BY <1>3, <1>5, <1>7, <1>8 DEF CacheInv
<1>10. \A key \in Cached(c) \ keys : d.entries[key].last_used < d.access_counter
  BY <1>1, <1>2, <1>4 DEF Entry
<1> QED  BY <1>1, <1>3, <1>4, <1>5, <1>9, <1>10 DEF d

LEMMA InsertFacts ==
  ASSUME NEW c, CacheInv(c), NEW keys \in SUBSET Passages, keys \cap Cached(c) = {}
  PROVE  /\ CacheInv(Insert(c, keys))
         /\ Cached(Insert(c, keys)) = Cached(c) \cup keys
         /\ Protected(Insert(c, keys)) = Protected(c)
         /\ Insert(c, keys).access_counter = c.access_counter
         /\ \A key \in keys : Insert(c, keys).entries[key].last_used = c.access_counter
         /\ \A key \in Cached(c) : Insert(c, keys).entries[key] = c.entries[key]
<1> DEFINE d == Insert(c, keys)
<1>1. /\ DOMAIN d = {"access_counter", "entries"}
      /\ d.access_counter = c.access_counter
      /\ d.entries = [key \in Cached(c) \cup keys |->
           IF key \in keys THEN [last_used |-> c.access_counter, protected |-> FALSE]
           ELSE c.entries[key]]
  BY DEF Insert, CacheInv, IsCache
<1>2. /\ c.access_counter \in Nat /\ Cached(c) \subseteq Passages
      /\ \A key \in Cached(c) : c.entries[key] \in Entry
      /\ \A key \in Cached(c) : c.entries[key].last_used <= c.access_counter
  BY DEF CacheInv, IsCache
<1> HIDE DEF d
<1>3. Cached(d) = Cached(c) \cup keys
  BY <1>1 DEF Cached
<1>4. \A key \in keys : d.entries[key] = [last_used |-> c.access_counter, protected |-> FALSE]
  BY <1>1
<1>5. \A key \in Cached(c) : d.entries[key] = c.entries[key]
  BY <1>1
<1>6. Protected(d) = Protected(c)
  BY <1>3, <1>4, <1>5 DEF Protected
<1>7. \A key \in Cached(d) : d.entries[key] \in Entry
  <2>1. [last_used |-> c.access_counter, protected |-> FALSE] \in Entry
    BY <1>2 DEF Entry
  <2> QED  BY <1>2, <1>3, <1>4, <1>5, <2>1
<1>8. d.entries \in [Cached(d) -> Entry]
  BY <1>1, <1>3, <1>7
<1>9. IsCache(d)
  BY <1>1, <1>2, <1>3, <1>8 DEF IsCache
<1>10. \A key \in Cached(d) : d.entries[key].last_used <= d.access_counter
  BY <1>1, <1>2, <1>3, <1>4, <1>5
<1>11. CacheInv(d)
  BY <1>6, <1>9, <1>10 DEF CacheInv
<1> QED  BY <1>1, <1>3, <1>4, <1>5, <1>6, <1>11 DEF d

LEMMA WithProtectedFacts ==
  ASSUME NEW c, CacheInv(c), NEW keys \in SUBSET Passages, Cardinality(keys) <= MaxEntries
  PROVE  /\ CacheInv(WithProtected(c, keys))
         /\ Cached(WithProtected(c, keys)) = Cached(c)
         /\ Protected(WithProtected(c, keys)) = Cached(c) \cap keys
<1> DEFINE d == WithProtected(c, keys)
<1>1. /\ DOMAIN d = {"access_counter", "entries"}
      /\ d.access_counter = c.access_counter
      /\ d.entries = [key \in Cached(c) |->
           [c.entries[key] EXCEPT !.protected = key \in keys]]
  BY DEF WithProtected, CacheInv, IsCache
<1>2. /\ c.access_counter \in Nat /\ Cached(c) \subseteq Passages
      /\ \A key \in Cached(c) : c.entries[key] \in Entry
      /\ \A key \in Cached(c) : c.entries[key].last_used <= c.access_counter
  BY DEF CacheInv, IsCache
<1> HIDE DEF d
<1>3. Cached(d) = Cached(c)
  BY <1>1 DEF Cached
<1>4. \A key \in Cached(c) :
        /\ d.entries[key] \in Entry
        /\ d.entries[key].protected = (key \in keys)
        /\ d.entries[key].last_used = c.entries[key].last_used
  <2> TAKE key \in Cached(c)
  <2>1. d.entries[key] = [c.entries[key] EXCEPT !.protected = key \in keys]
    BY <1>1
  <2>2. c.entries[key] = [last_used |-> c.entries[key].last_used,
                          protected |-> c.entries[key].protected]
        /\ c.entries[key].last_used \in Nat
    BY <1>2 DEF Entry
  <2>3. d.entries[key] = [last_used |-> c.entries[key].last_used, protected |-> key \in keys]
    BY <2>1, <2>2
  <2>4. (key \in keys) \in BOOLEAN
    OBVIOUS
  <2>5. d.entries[key] \in Entry
    BY <2>2, <2>3, <2>4 DEF Entry
  <2>6. /\ d.entries[key].protected = (key \in keys)
        /\ d.entries[key].last_used = c.entries[key].last_used
    BY <2>3
  <2> QED  BY <2>5, <2>6
<1>5. Protected(d) = Cached(c) \cap keys
  BY <1>3, <1>4 DEF Protected
<1>6. d.entries \in [Cached(d) -> Entry]
  BY <1>1, <1>3, <1>4
<1>7. IsCache(d)
  BY <1>1, <1>2, <1>3, <1>6 DEF IsCache
<1>8. Cardinality(Protected(d)) <= MaxEntries
  <2>1. Protected(d) \in SUBSET keys
    BY <1>5
  <2>2. /\ IsFiniteSet(keys) /\ Cardinality(keys) \in Nat
        /\ Cardinality(Protected(d)) \in Nat
    BY <2>1, FinitePassages
  <2>3. Cardinality(Protected(d)) <= Cardinality(keys)
    BY <2>1, <2>2, FS_Subset
  <2> QED  BY <2>2, <2>3, LimitsAssumption
<1>9. CacheInv(d)
  BY <1>1, <1>2, <1>3, <1>4, <1>7, <1>8 DEF CacheInv
<1> QED  BY <1>3, <1>5, <1>9 DEF d

-----------------------------------------------------------------------------
(* The corpus *)

LEMMA Least ==
  ASSUME NEW S \in SUBSET Nat, S # {}
  PROVE  \E n \in S : \A m \in S : n <= m
<1>1. PICK n \in S : \A m \in S : <<m, n>> \notin OpToRel(<, Nat)
  BY NatLessThanWellFounded, WFMin
<1>2. \A m \in S : ~(m < n)
  BY <1>1 DEF OpToRel
<1>3. \A m \in S : n <= m
  BY <1>2
<1> QED  BY <1>3

LEMMA RequestIsCorpus ==
  ASSUME NEW corpus \in Requests
  PROVE  corpus \in Corpus
<1>1. <<>> \in Corpus
  BY DEF Corpus
<1> QED  BY <1>1, CorporaAssumption DEF Corpus, Requests

LEMMA CorpusContents ==
  ASSUME NEW corpus \in Requests, NEW slot \in DOMAIN corpus
  PROVE  slot \in Nat /\ corpus[slot].content \in Seq(Passages)
<1> DEFINE Session == [path : STRING, content : Seq(Passages)]
<1>1. corpus \in Seq(Session)
  BY RequestIsCorpus DEF Corpus
<1> HIDE DEF Session
<1>2. corpus[slot] \in Session /\ slot \in Nat
  BY <1>1
<1> QED  BY <1>2 DEF Session

LEMMA PlaceFacts ==
  ASSUME NEW corpus \in Requests, NEW slots \in SUBSET DOMAIN corpus,
         NEW place \in Places(corpus, slots)
  PROVE  /\ place[1] \in slots /\ place[1] \in Nat
         /\ place[2] \in DOMAIN corpus[place[1]].content /\ place[2] \in Nat
         /\ place = <<place[1], place[2]>>
         /\ Text(corpus, place) \in Passages
<1>1. PICK slot \in slots : place \in {slot} \X (DOMAIN corpus[slot].content)
  BY DEF Places
<1>2. slot \in Nat /\ corpus[slot].content \in Seq(Passages)
  BY CorpusContents
<1>3. /\ place[1] = slot /\ place[2] \in DOMAIN corpus[slot].content
      /\ place = <<place[1], place[2]>>
  BY <1>1
<1>4. place[2] \in Nat /\ corpus[slot].content[place[2]] \in Passages
  BY <1>2, <1>3
<1> QED  BY <1>2, <1>3, <1>4 DEF Text

LEMMA CoreFacts ==
  ASSUME NEW corpus \in Requests, NEW slots \in SUBSET DOMAIN corpus
  PROVE  /\ Core(corpus) \subseteq Passages
         /\ Texts(corpus, Places(corpus, slots)) \subseteq Core(corpus)
<1>1. Places(corpus, slots) \subseteq AllPlaces(corpus)
  BY DEF Places, AllPlaces
<1>2. \A place \in AllPlaces(corpus) : Text(corpus, place) \in Passages
  BY PlaceFacts DEF AllPlaces
<1> QED  BY <1>1, <1>2 DEF Core, Texts

LEMMA PlacesFinite ==
  ASSUME NEW corpus \in Requests, NEW slots \in SUBSET DOMAIN corpus
  PROVE  IsFiniteSet(Places(corpus, slots))
<1>1. corpus \in Corpus
  BY RequestIsCorpus
<1>2. IsFiniteSet(slots)
  <2>1. DOMAIN corpus = 1 .. Len(corpus) /\ Len(corpus) \in Nat
    BY <1>1 DEF Corpus
  <2>2. IsFiniteSet(1 .. Len(corpus)) /\ slots \in SUBSET (1 .. Len(corpus))
    BY <2>1, FS_Interval
  <2> QED  BY <2>2, FS_Subset
<1> DEFINE f == [slot \in slots |-> {slot} \X (DOMAIN corpus[slot].content)]
           T == {{slot} \X (DOMAIN corpus[slot].content) : slot \in slots}
<1>3. f \in Surjection(slots, T)
  BY DEF Surjection
<1>4. IsFiniteSet(T)
  BY <1>2, <1>3, FS_Surjection
<1>5. \A slot \in slots : IsFiniteSet({slot} \X (DOMAIN corpus[slot].content))
  <2> TAKE slot \in slots
  <2>1. corpus[slot].content \in Seq(Passages)
    BY CorpusContents
  <2>2. DOMAIN corpus[slot].content = 1 .. Len(corpus[slot].content)
        /\ Len(corpus[slot].content) \in Nat
    BY <2>1
  <2>3. IsFiniteSet(DOMAIN corpus[slot].content)
    BY <2>2, FS_Interval
  <2>4. IsFiniteSet({slot})
    BY FS_Singleton
  <2> QED  BY <2>3, <2>4, FS_Product
<1> QED  BY <1>4, <1>5, FS_UNION DEF Places

(* A batch of misses is of the misses, and there is one.                   *)
LEMMA FirstOfFacts ==
  ASSUME NEW corpus \in Requests, NEW slots \in SUBSET DOMAIN corpus,
         NEW texts \in SUBSET Texts(corpus, Places(corpus, slots)), texts # {},
         NEW count \in Nat \ {0}
  PROVE  /\ FirstOf(corpus, Places(corpus, slots), texts, count) \subseteq texts
         /\ FirstOf(corpus, Places(corpus, slots), texts, count) # {}
<1> DEFINE places == Places(corpus, slots)
           held == {x \in places : Text(corpus, x) \in texts}
           Earlier(a, b) == \E x \in places :
             /\ Text(corpus, x) = a
             /\ \A y \in places : Text(corpus, y) = b => Before(x, y)
           none(z) == {t \in texts : Earlier(t, Text(corpus, z))}
           first == {text \in texts : Cardinality({t \in texts : Earlier(t, text)}) < count}
<1>1. FirstOf(corpus, places, texts, count) = first
  BY DEF FirstOf
<1>2. \A x \in places : x[1] \in Nat /\ x[2] \in Nat
  BY PlaceFacts
<1>3. held # {}
  BY DEF Texts
<1> HIDE DEF places
<1>4. PICK i \in {x[1] : x \in held} : \A m \in {x[1] : x \in held} : i <= m
  <2>1. {x[1] : x \in held} \in SUBSET Nat /\ {x[1] : x \in held} # {}
    BY <1>2, <1>3
  <2> QED  BY <2>1, Least
<1>5. PICK j \in {x[2] : x \in {y \in held : y[1] = i}} :
        \A m \in {x[2] : x \in {y \in held : y[1] = i}} : j <= m
  <2>1. {x[2] : x \in {y \in held : y[1] = i}} \in SUBSET Nat
    BY <1>2
  <2>2. {x[2] : x \in {y \in held : y[1] = i}} # {}
    BY <1>4
  <2> QED  BY <2>1, <2>2, Least
<1>6. PICK z \in held : z[1] = i /\ z[2] = j
  BY <1>5
<1>7. \A x \in held : ~Before(x, z)
  <2> TAKE x \in held
  <2>1. i <= x[1] /\ (x[1] = i => j <= x[2])
    BY <1>4, <1>5
  <2> QED  BY <1>2, <1>6, <2>1 DEF Before
<1>8. none(z) = {}
  BY <1>6, <1>7
<1>9. Cardinality(none(z)) < count
  <2> HIDE DEF none
  <2> QED  BY <1>8, FS_EmptySet
<1>10. Text(corpus, z) \in first
  <2> HIDE DEF Earlier
  <2> QED  BY <1>6, <1>9
<1>11. first \subseteq texts
  OBVIOUS
<1> HIDE DEF first
<1> QED  BY <1>1, <1>10, <1>11 DEF places

-----------------------------------------------------------------------------
(* Steps: each changes the disk and one process.                           *)

Frame(p) ==
  /\ DOMAIN index' = Process /\ DOMAIN run' = Process /\ DOMAIN history' = Process
  /\ \A q \in Process \ {p} :
       index'[q] = index[q] /\ run'[q] = run[q] /\ history'[q] = history[q]

LEMMA StepKeeps ==
  ASSUME Inv, NEW p \in Process, Frame(p), CacheInv(disk'),
         Local(index'[p], run'[p], history'[p])
  PROVE  Inv'
<1>1. \A q \in Process : Local(index'[q], run'[q], history'[q])
  <2> TAKE q \in Process
  <2>1. CASE q = p
    BY <2>1
  <2>2. CASE q # p
    BY <2>2 DEF Frame, Inv
  <2> QED  BY <2>1, <2>2
<1> QED  BY <1>1 DEF Frame, Inv

(* A process that neither embeds nor ranks nor runs for someone else.      *)
LEMMA AtRest ==
  ASSUME NEW x, NEW r, NEW h, Typed(x, r, h), h.saved = Cached(x.cache),
         r.pc \notin {"embed", "rank"},
         r.pc = "request" => r.kind = "list"
  PROVE  Local(x, r, h)
BY DEF Local, Typed, Run, Saved, Missed, Owned, Generating, Answering

LEMMA IdleFacts ==
  /\ Idle \in Run /\ Off \in Run
  /\ Idle.pc = "idle" /\ Off.pc = "off"
  /\ Idle.embedded = {} /\ Off.embedded = {}
  /\ Idle.pending = {} /\ Off.pending = {}
  /\ Idle.last_saved = 0 /\ Idle.completed = 0
  /\ Off.last_saved = 0 /\ Off.completed = 0
BY DEF Idle, Off, Run, Requests

LEMMA RequestFacts ==
  ASSUME NEW kind \in {"list", "agent", "generate"}, NEW corpus \in Requests,
         NEW budget \in {"unbounded", "none", "time"}
  PROVE  LET r == Request(kind, corpus, budget)
         IN  /\ r \in Run
             /\ r.pc = "request" /\ r.kind = kind /\ r.request = corpus
             /\ r.budget = budget /\ r.embedded = {} /\ r.pending = {}
             /\ r.last_saved = 0 /\ r.completed = 0
BY DEF Request, Idle, Run, Requests

LEMMA TypedAt ==
  ASSUME Inv, NEW p \in Process
  PROVE  /\ Local(index[p], run[p], history[p]) /\ Typed(index[p], run[p], history[p])
         /\ DOMAIN index[p] = {"cache", "passages"}
         /\ CacheInv(index[p].cache)
         /\ run[p] \in Run
         /\ history[p] \in [known : SUBSET Passages, saved : SUBSET Passages]
BY DEF Inv, Local, Typed

LEMMA CachedPassages ==
  ASSUME NEW c, CacheInv(c)
  PROVE  Cached(c) \subseteq Passages /\ Protected(c) \subseteq Cached(c)
BY DEF CacheInv, IsCache, Protected

(* Becoming idle, with the index as it is saved.                           *)
LEMMA IdleKeeps ==
  ASSUME NEW x, NEW h, DOMAIN x = {"cache", "passages"}, CacheInv(x.cache),
         h \in [known : SUBSET Passages, saved : SUBSET Passages],
         h.saved = Cached(x.cache)
  PROVE  Local(x, Idle, h)
<1>1. Typed(x, Idle, h)
  BY IdleFacts DEF Typed
<1> QED  BY <1>1, IdleFacts, AtRest

LEMMA EmptyCacheFacts == CacheInv(EmptyCache) /\ Cached(EmptyCache) = {}
<1>1. /\ EmptyCache.entries = <<>> /\ EmptyCache.access_counter = 0
      /\ DOMAIN EmptyCache = {"access_counter", "entries"}
  BY DEF EmptyCache
<1>2. Cached(EmptyCache) = {} /\ Protected(EmptyCache) = {}
  BY <1>1 DEF Cached, Protected
<1>3. EmptyCache.entries \in [{} -> Entry]
  BY <1>1
<1> QED  BY <1>1, <1>2, <1>3, FS_EmptySet, LimitsAssumption DEF CacheInv, IsCache

LEMMA OffIsLocal == Local(Fresh, Off, Unread)
<1>1. /\ DOMAIN Fresh = {"cache", "passages"} /\ Fresh.cache = EmptyCache
      /\ Fresh.passages = NoPassages
  BY DEF Fresh
<1>2. /\ Unread \in [known : SUBSET Passages, saved : SUBSET Passages]
      /\ Unread.saved = {}
  BY DEF Unread
<1>3. Typed(Fresh, Off, Unread)
  BY <1>1, <1>2, EmptyCacheFacts, IdleFacts DEF Typed
<1> QED  BY <1>1, <1>2, <1>3, EmptyCacheFacts, IdleFacts, AtRest

LEMMA InitHolds ==
  ASSUME Init
  PROVE  Inv
<1>1. CacheInv(OldFile)
  <2>1. /\ OldFile.entries = [key \in Passages |-> [last_used |-> 1, protected |-> FALSE]]
        /\ OldFile.access_counter = 1
        /\ DOMAIN OldFile = {"access_counter", "entries"}
    BY DEF OldFile
  <2>2. Cached(OldFile) = Passages /\ Protected(OldFile) = {}
    BY <2>1 DEF Cached, Protected
  <2>3. [last_used |-> 1, protected |-> FALSE] \in Entry
    BY DEF Entry
  <2>4. OldFile.entries \in [Passages -> Entry]
    BY <2>1, <2>3
  <2> QED  BY <2>1, <2>2, <2>4, FS_EmptySet, LimitsAssumption DEF CacheInv, IsCache
<1> QED  BY <1>1, EmptyCacheFacts, OffIsLocal DEF Init, Inv

LEMMA ReadFacts ==
  ASSUME Inv
  PROVE  /\ CacheInv(Read) /\ Protected(Read) = Protected(disk)
         /\ Cached(Read) \subseteq Passages
BY PruneInv, CachedPassages DEF Inv, Read

LEMMA StartKeeps ==
  ASSUME Inv, NEW p \in Process, NEW started, NEW cache, Start(p, started, cache),
         CacheInv(cache), Cached(cache) = Cached(Read),
         started \in Run, started.pc \in {"idle", "request"},
         started.embedded = {}, started.pending = {},
         started.last_saved = 0, started.completed = 0,
         started.pc = "request" /\ started.kind = "generate" =>
           /\ started.budget = "unbounded"
           /\ Protected(cache) \subseteq Core(started.request)
           /\ Cardinality(Core(started.request)) <= MaxEntries
  PROVE  Inv'
<1> DEFINE x == [cache |-> cache, passages |-> NoPassages]
           h == [known |-> Cached(Read), saved |-> Cached(Read)]
<1>1. index[p].passages = NoPassages /\ DOMAIN index[p] = {"cache", "passages"}
  BY DEF Inv, Local, Typed, Start
<1>2. index'[p] = x
  BY <1>1 DEF Start, Inv
<1>3. run'[p] = started /\ history'[p] = h
  BY DEF Start, Inv
<1>4. Frame(p)
  BY DEF Start, Inv, Frame
<1>5. CacheInv(disk')
  BY ReadFacts DEF Start
<1>6. /\ DOMAIN x = {"cache", "passages"} /\ x.cache = cache /\ x.passages = NoPassages
      /\ h.known = Cached(Read) /\ h.saved = Cached(Read)
      /\ h \in [known : SUBSET Passages, saved : SUBSET Passages]
  BY ReadFacts
<1> HIDE DEF x, h
<1>7. Typed(x, started, h)
  BY <1>6 DEF Typed
<1>8. Local(x, started, h)
  BY <1>6, <1>7 DEF Local, Typed, Saved, Missed, Owned, Generating, Answering
<1> QED  BY <1>2, <1>3, <1>4, <1>5, <1>8, StepKeeps

LEMMA StartListKeeps ==
  ASSUME Inv, NEW p \in Process, StartList(p)
  PROVE  Inv'
<1>1. Start(p, Idle, Read)
  BY DEF StartList
<1> QED  BY <1>1, ReadFacts, IdleFacts, StartKeeps

LEMMA StartAgentKeeps ==
  ASSUME Inv, NEW p \in Process, NEW corpus \in Corpora, NEW budget \in {"none", "time"},
         StartAgent(p, corpus, budget)
  PROVE  Inv'
<1> DEFINE r == Request("agent", corpus, budget)
<1>1. Start(p, r, Read)
  BY DEF StartAgent
<1>2. corpus \in Requests
  BY DEF Requests
<1>3. /\ r \in Run /\ r.pc = "request" /\ r.kind = "agent" /\ r.embedded = {}
      /\ r.pending = {} /\ r.last_saved = 0 /\ r.completed = 0
  BY <1>2, RequestFacts
<1> HIDE DEF r
<1> QED  BY <1>1, <1>3, ReadFacts, StartKeeps

LEMMA StartGenerateKeeps ==
  ASSUME Inv, NEW p \in Process, NEW corpus \in Corpora, StartGenerate(p, corpus)
  PROVE  Inv'
<1> DEFINE r == Request("generate", corpus, "unbounded")
           keys == Protected(Read) \cap Core(corpus)
           cache == WithProtected(Read, keys)
<1>1. Start(p, r, cache) /\ Cardinality(Core(corpus)) <= MaxEntries
  BY DEF StartGenerate
<1>2. corpus \in Requests
  BY DEF Requests
<1>3. /\ r \in Run /\ r.pc = "request" /\ r.kind = "generate" /\ r.request = corpus
      /\ r.budget = "unbounded" /\ r.embedded = {} /\ r.pending = {}
      /\ r.last_saved = 0 /\ r.completed = 0
  BY <1>2, RequestFacts
<1>4. Core(corpus) \in SUBSET Passages
  BY <1>2, CoreFacts
<1>5. keys \in SUBSET Core(corpus)
  OBVIOUS
<1>6. Cardinality(keys) <= MaxEntries
  <2>1. /\ IsFiniteSet(Core(corpus)) /\ Cardinality(Core(corpus)) \in Nat
        /\ Cardinality(keys) \in Nat
    BY <1>4, <1>5, FinitePassages
  <2> HIDE DEF keys
  <2>2. Cardinality(keys) <= Cardinality(Core(corpus))
    BY <1>5, <2>1, FS_Subset
  <2> QED  BY <1>1, <2>1, <2>2, LimitsAssumption
<1> HIDE DEF keys, r
<1>7. /\ CacheInv(cache) /\ Cached(cache) = Cached(Read)
      /\ Protected(cache) = Cached(Read) \cap keys
  BY <1>4, <1>5, <1>6, ReadFacts, WithProtectedFacts
<1> HIDE DEF cache
<1> QED  BY <1>1, <1>3, <1>5, <1>7, StartKeeps

LEMMA SearchKeeps ==
  ASSUME Inv, NEW p \in Process, NEW corpus \in Corpora, Search(p, corpus)
  PROVE  Inv'
<1> DEFINE r == Request("list", corpus, "unbounded")
<1>1. corpus \in Requests
  BY DEF Requests
<1>2. /\ r \in Run /\ r.pc = "request" /\ r.kind = "list" /\ r.embedded = {}
      /\ r.pending = {} /\ r.last_saved = 0 /\ r.completed = 0
  BY <1>1, RequestFacts
<1>3. /\ run'[p] = r /\ index'[p] = index[p] /\ history'[p] = history[p]
      /\ Frame(p) /\ CacheInv(disk')
  BY DEF Search, Inv, Frame
<1> HIDE DEF r
<1>4. history[p].saved = Cached(index[p].cache)
  BY TypedAt DEF Search, Local, Saved
<1>5. Typed(index[p], r, history[p])
  BY <1>2, TypedAt DEF Typed
<1>6. Local(index[p], r, history[p])
  BY <1>2, <1>4, <1>5, AtRest
<1> QED  BY <1>3, <1>6, StepKeeps

(* A request that the list's worker gives up, with what it has changed.    *)
LEMMA GiveUpKeeps ==
  ASSUME Inv, NEW p \in Process, run[p].pc = "request", Frame(p), run'[p] = Idle,
         disk' = disk, history'[p] = history[p],
         DOMAIN index'[p] = {"cache", "passages"}, CacheInv(index'[p].cache),
         Cached(index'[p].cache) = Cached(index[p].cache)
  PROVE  Inv'
<1>1. history[p].saved = Cached(index'[p].cache)
  BY TypedAt DEF Local, Saved
<1>2. Local(index'[p], Idle, history[p])
  BY <1>1, TypedAt, IdleKeeps
<1> QED  BY <1>2, StepKeeps DEF Inv

LEMMA ClearEmptyKeeps ==
  ASSUME Inv, NEW p \in Process, clear_empty(p)
  PROVE  Inv'
<1>1. /\ Frame(p) /\ run'[p] = Idle /\ disk' = disk /\ history'[p] = history[p]
      /\ run[p].pc = "request"
  BY DEF clear_empty, Inv, Frame
<1>2. /\ DOMAIN index'[p] = DOMAIN index[p] /\ index'[p].cache = index[p].cache
  BY TypedAt DEF clear_empty, Inv
<1> QED  BY <1>1, <1>2, TypedAt, GiveUpKeeps

LEMMA CancelRequestKeeps ==
  ASSUME Inv, NEW p \in Process, CancelRequest(p)
  PROVE  Inv'
<1>1. /\ Frame(p) /\ run'[p] = Idle /\ disk' = disk /\ history'[p] = history[p]
      /\ run[p].pc = "request" /\ index'[p] = index[p]
  BY DEF CancelRequest, Inv, Frame
<1> QED  BY <1>1, TypedAt, GiveUpKeeps

LEMMA CancelPlanKeeps ==
  ASSUME Inv, NEW p \in Process, NEW upto, CancelPlan(p, upto)
  PROVE  Inv'
<1>1. /\ Frame(p) /\ run'[p] = Idle /\ disk' = disk /\ history'[p] = history[p]
      /\ run[p].pc = "request"
  BY DEF CancelPlan, IsPlanning, IsRefreshing, Inv, Frame
<1>2. /\ DOMAIN index'[p] = DOMAIN index[p] /\ index'[p].cache = index[p].cache
  BY TypedAt DEF CancelPlan, Inv
<1> QED  BY <1>1, <1>2, TypedAt, GiveUpKeeps

LEMMA CancelLookUpKeeps ==
  ASSUME Inv, NEW p \in Process, NEW place, CancelLookUp(p, place)
  PROVE  Inv'
<1>1. /\ Frame(p) /\ run'[p] = Idle /\ disk' = disk /\ history'[p] = history[p]
      /\ run[p].pc = "request"
  BY DEF CancelLookUp, IsPlanning, IsRefreshing, Inv, Frame
<1>2. PICK seen : index'[p] =
        [cache |-> LookUp(index[p].cache, seen),
         passages |-> plan_refresh(index[p].passages, run[p].request,
                                   Len(run[p].request) + 1)]
  BY DEF CancelLookUp, Inv
<1>3. /\ DOMAIN index'[p] = {"cache", "passages"}
      /\ index'[p].cache = LookUp(index[p].cache, seen)
  BY <1>2
<1>4. /\ CacheInv(LookUp(index[p].cache, seen))
      /\ Cached(LookUp(index[p].cache, seen)) = Cached(index[p].cache)
  BY TypedAt, LookUpFacts
<1> QED  BY <1>1, <1>3, <1>4, GiveUpKeeps

LEMMA AlreadyFreshKeeps ==
  ASSUME Inv, NEW p \in Process, AlreadyFresh(p)
  PROVE  Inv'
<1> DEFINE r == [run[p] EXCEPT !.pc = "rank"]
<1>1. /\ Frame(p) /\ run'[p] = r /\ index'[p] = index[p] /\ history'[p] = history[p]
      /\ disk' = disk /\ run[p].pc = "request"
      /\ index[p].passages.signature # None
  BY DEF AlreadyFresh, IsRefreshing, signature_matches, Inv, Frame
<1>2. /\ r \in Run /\ r.pc = "rank" /\ r.kind = run[p].kind /\ r.request = run[p].request
      /\ r.embedded = run[p].embedded /\ r.pending = run[p].pending
      /\ r.last_saved = run[p].last_saved /\ r.completed = run[p].completed
  BY TypedAt DEF Run
<1>3. index[p].passages # NoPassages
  BY <1>1 DEF NoPassages
<1>4. run[p].kind = "list"
  BY <1>1, <1>3, TypedAt DEF Local, Generating, Answering, Run
<1>5. /\ r.pc = "rank" /\ r.kind = "list" /\ r.embedded = {}
      /\ history[p].saved = Cached(index[p].cache)
  BY <1>1, <1>2, <1>4, TypedAt DEF Local, Typed, Saved
<1>6. Typed(index[p], r, history[p])
  BY <1>2, <1>5, TypedAt DEF Typed
<1> HIDE DEF r
<1>7. Local(index[p], r, history[p])
  BY <1>5, <1>6 DEF Local, Saved, Missed, Owned, Generating, Answering
<1> QED  BY <1>1, <1>7, StepKeeps DEF Inv

LEMMA RefreshKeeps ==
  ASSUME Inv, NEW p \in Process, Refresh(p)
  PROVE  Inv'
<1> DEFINE old == index[p]
           now == run[p]
           h == history[p]
           corpus == now.request
           slots == pending(old.passages, corpus)
           texts == Texts(corpus, Places(corpus, slots))
           hits == texts \cap Cached(old.cache)
           cut == IF now.budget = "none" THEN texts \ hits ELSE {}
           misses == texts \ (hits \cup cut)
           cache == LookUp(old.cache, hits)
           x == index'[p]
           embeds == [now EXCEPT !.pc = "embed", !.pending = slots, !.misses = misses,
                                 !.embedded = hits]
           ranks == [now EXCEPT !.pc = "rank", !.missing = CountIn(corpus, slots, cut)]
<1>1. /\ Frame(p) /\ disk' = disk /\ history'[p] = h /\ now.pc = "request"
      /\ ~signature_matches(p)
      /\ run'[p] = IF misses # {} THEN embeds ELSE ranks
  BY DEF Refresh, IsPlanning, IsRefreshing, Inv, Frame
<1>2. DOMAIN x = {"cache", "passages"} /\ x.cache = cache
  <2>1. PICK passages : x = [cache |-> cache, passages |-> passages]
    BY DEF Refresh, Inv
  <2> QED  BY <2>1
<1>3. corpus \in Requests /\ now.budget \in {"unbounded", "none", "time"}
      /\ now.kind \in {"list", "agent", "generate"}
  BY TypedAt DEF Run
<1>4. slots \in SUBSET DOMAIN corpus
  BY DEF pending
<1>5. Core(corpus) \subseteq Passages /\ texts \subseteq Core(corpus)
  BY <1>3, <1>4, CoreFacts
<1>6. slots \in SUBSET Nat
  <2>1. corpus \in Corpus
    BY <1>3, RequestIsCorpus
  <2> QED  BY <1>4, <2>1 DEF Corpus
<1>7. old.passages = NoPassages => texts = Core(corpus)
  <2>1. old.passages = NoPassages => slots = DOMAIN corpus
    BY DEF pending, IsUnchanged, NoPassages
  <2> QED  BY <2>1 DEF Core, AllPlaces
<1>8. CountIn(corpus, slots, cut) \in Nat /\ (cut = {} => CountIn(corpus, slots, cut) = 0)
  <2>1. IsFiniteSet({place \in Places(corpus, slots) : Text(corpus, place) \in cut})
    <3>1. IsFiniteSet(Places(corpus, slots))
      BY <1>3, <1>4, PlacesFinite
    <3> QED  BY <3>1, FS_Subset
  <2>2. cut = {} => {place \in Places(corpus, slots) : Text(corpus, place) \in cut} = {}
    OBVIOUS
  <2> QED  BY <2>1, <2>2, FS_CardinalityType, FS_EmptySet DEF CountIn
<1>9. /\ CacheInv(cache)
      /\ Cached(cache) = Cached(old.cache) /\ Protected(cache) = Protected(old.cache)
      /\ \A key \in Cached(old.cache) \cap hits :
           cache.entries[key].last_used = cache.access_counter
      /\ \A key \in Cached(old.cache) \ hits :
           cache.entries[key].last_used < cache.access_counter
  BY TypedAt, LookUpFacts
<1>10. /\ hits \subseteq Core(corpus) /\ hits = texts \cap Cached(old.cache)
       /\ misses \subseteq texts /\ misses \cap hits = {}
       /\ misses \cap Cached(old.cache) = {}
       /\ now.budget # "none" => cut = {} /\ texts = hits \cup misses
       /\ misses = {} /\ now.budget # "none" => texts \subseteq Cached(old.cache)
  BY <1>5
<1>11. /\ h.saved = Cached(old.cache)
       /\ now.kind = "generate" =>
            /\ now.budget = "unbounded" /\ Protected(old.cache) \subseteq Core(corpus)
            /\ Cardinality(Core(corpus)) <= MaxEntries /\ old.passages = NoPassages
       /\ now.kind = "agent" => old.passages = NoPassages /\ h.known = Cached(old.cache)
       /\ now.embedded = {} /\ now.last_saved <= now.completed
       /\ now.pending \subseteq DOMAIN corpus
  BY <1>1, TypedAt DEF Local, Typed, Saved, Generating, Answering
<1>12. /\ now \in Run /\ h \in [known : SUBSET Passages, saved : SUBSET Passages]
  BY TypedAt
<1> HIDE DEF texts, hits, cut, misses, slots, cache, x
<1>13. CASE misses # {}
  <2>1. /\ embeds \in Run /\ embeds.pc = "embed" /\ embeds.kind = now.kind
        /\ embeds.request = corpus /\ embeds.budget = now.budget
        /\ embeds.pending = slots /\ embeds.misses = misses /\ embeds.embedded = hits
        /\ embeds.last_saved = now.last_saved /\ embeds.completed = now.completed
    BY <1>5, <1>6, <1>10, <1>12 DEF Run
  <2> HIDE DEF embeds, corpus
  <2>2. Typed(x, embeds, h)
    BY <1>2, <1>4, <1>9, <1>10, <1>11, <1>12, <2>1 DEF Typed
  <2>3. Saved(x, embeds, h) /\ Missed(x, embeds) /\ Owned(x, embeds)
    BY <1>2, <1>9, <1>10, <1>11, <1>13, <2>1 DEF Saved, Missed, Owned, texts
  <2>4. Generating(x, embeds)
    BY <1>2, <1>7, <1>9, <1>10, <1>11, <2>1 DEF Generating
  <2>5. Answering(x, embeds, h)
    BY <1>2, <1>7, <1>9, <1>10, <1>11, <2>1 DEF Answering
  <2>6. Local(x, embeds, h)
    BY <2>2, <2>3, <2>4, <2>5 DEF Local
  <2> QED  BY <1>1, <1>13, <2>6, StepKeeps DEF Inv, x
<1>14. CASE misses = {}
  <2>1. /\ ranks \in Run /\ ranks.pc = "rank" /\ ranks.kind = now.kind
        /\ ranks.request = corpus /\ ranks.budget = now.budget
        /\ ranks.pending = now.pending /\ ranks.embedded = {}
        /\ ranks.missing = CountIn(corpus, slots, cut)
        /\ ranks.last_saved = now.last_saved /\ ranks.completed = now.completed
    BY <1>8, <1>11, <1>12 DEF Run
  <2> HIDE DEF ranks, corpus
  <2>2. Typed(x, ranks, h)
    BY <1>2, <1>4, <1>9, <1>10, <1>11, <1>12, <2>1 DEF Typed
  <2>3. Saved(x, ranks, h) /\ Missed(x, ranks) /\ Owned(x, ranks)
    BY <1>2, <1>9, <1>11, <2>1 DEF Saved, Missed, Owned
  <2>4. Generating(x, ranks)
    BY <1>2, <1>7, <1>9, <1>10, <1>11, <1>14, <2>1 DEF Generating
  <2>5. Answering(x, ranks, h)
    BY <1>8, <1>10, <2>1 DEF Answering
  <2>6. Local(x, ranks, h)
    BY <2>2, <2>3, <2>4, <2>5 DEF Local
  <2> QED  BY <1>1, <1>14, <2>6, StepKeeps DEF Inv, x
<1> QED  BY <1>13, <1>14

(* A save of the whole cache, pruned: what the search used stays if it can. *)
LEMMA SaveKeepsUsed ==
  ASSUME NEW x, NEW r, CacheInv(x.cache), r.request \in Requests,
         r.embedded \subseteq Core(r.request),
         Fits(x, r), r.embedded \subseteq Cached(x.cache),
         \A key \in r.embedded : x.cache.entries[key].last_used = x.cache.access_counter,
         \A key \in Cached(x.cache) \ r.embedded :
           x.cache.entries[key].last_used < x.cache.access_counter
  PROVE  r.embedded \subseteq Cached(prune_cache(x.cache))
<1> DEFINE c == x.cache
           mine == r.embedded \cup Protected(c)
           all == Core(r.request) \cup Protected(c)
<1>1. IsCache(c) /\ \A key \in Cached(c) : c.entries[key].last_used <= c.access_counter
  BY DEF CacheInv
<1>2. all \in SUBSET Passages
  <2>1. Core(r.request) \subseteq Passages
    BY CoreFacts
  <2> QED  BY <2>1, CachedPassages
<1>3. Cardinality(mine) <= MaxEntries
  <2>1. mine \in SUBSET all
    OBVIOUS
  <2> HIDE DEF mine
  <2>2. /\ IsFiniteSet(all) /\ Cardinality(all) \in Nat /\ Cardinality(mine) \in Nat
    BY <1>2, <2>1, FinitePassages
  <2>3. Cardinality(mine) <= Cardinality(all)
    BY <2>1, <2>2, FS_Subset
  <2>4. Cardinality(all) <= MaxEntries
    BY DEF Fits
  <2> QED  BY <2>2, <2>3, <2>4, LimitsAssumption
<1>4. mine \subseteq Cached(prune_cache(c))
  BY <1>1, <1>3, PruneKeepsUsed
<1> QED  BY <1>4

LEMMA BatchKeeps ==
  ASSUME Inv, NEW p \in Process, NEW stops \in BOOLEAN, Batch(p, stops)
  PROVE  Inv'
<1> DEFINE old == index[p]
           now == run[p]
           h == history[p]
           x == index'[p]
           g == history'[p]
           batch == FirstOf(now.request, Places(now.request, now.pending), now.misses,
                            BatchSize)
           completed == now.completed + Cardinality(batch)
           rest == now.misses \ batch
           saves == IsSaveDue(p, completed, stops)
           inserted == Insert(old.cache, batch)
           cache == IF saves THEN prune_cache(inserted) ELSE inserted
           embedded == now.embedded \cup batch
           missing == CountIn(now.request, now.pending, rest)
           ends == [Request(now.kind, now.request, now.budget) EXCEPT
                      !.pc = "rank", !.embedded = embedded, !.missing = missing]
           goes_on == [now EXCEPT !.misses = rest, !.embedded = embedded,
                         !.completed = completed,
                         !.last_saved = IF saves THEN completed ELSE @]
<1>1. /\ Frame(p) /\ now.pc = "embed" /\ (stops => now.budget = "time" /\ rest # {})
      /\ run'[p] = IF stops \/ rest = {} THEN ends ELSE goes_on
  BY DEF Batch, Write, Keep, Inv, Frame
<1>2. DOMAIN x = {"cache", "passages"} /\ x.cache = cache
  <2>1. PICK passages : x = [cache |-> cache, passages |-> passages]
    BY DEF Batch, Inv
  <2> QED  BY <2>1
<1>3. /\ g \in [known : SUBSET Passages, saved : {Cached(cache), h.saved}]
      /\ g.known = h.known
      /\ (saves => g.saved = Cached(cache) /\ disk' = cache)
      /\ (~saves => g.saved = h.saved /\ disk' = disk)
  <2>1. h \in [known : SUBSET Passages, saved : SUBSET Passages]
    BY TypedAt
  <2>2. CASE saves
    <3>1. history' = [history EXCEPT ![p].saved = Cached(cache)] /\ disk' = cache
      BY <2>2 DEF Batch, Write
    <3>2. g = [h EXCEPT !.saved = Cached(cache)]
      BY <3>1 DEF Inv
    <3> HIDE DEF cache
    <3> QED  BY <2>1, <2>2, <3>1, <3>2
  <2>3. CASE ~saves
    <3>1. history' = history /\ disk' = disk
      BY <2>3 DEF Batch, Keep
    <3> QED  BY <2>1, <2>3, <3>1
  <2> QED  BY <2>2, <2>3
<1>4. /\ now \in Run /\ now.request \in Requests /\ now.pending \in SUBSET DOMAIN now.request
      /\ now.pending \in SUBSET Nat
      /\ now.completed \in Nat /\ now.last_saved \in Nat /\ now.last_saved <= now.completed
      /\ now.embedded \subseteq Core(now.request) /\ now.misses \in SUBSET Passages
      /\ now.kind \in {"list", "agent", "generate"}
      /\ now.budget \in {"unbounded", "none", "time"}
      /\ h.saved \subseteq Passages /\ h.known \subseteq Passages
  BY TypedAt DEF Typed, Run
<1>5. /\ now.misses # {} /\ now.misses \cap Cached(old.cache) = {}
      /\ now.misses \cap now.embedded = {}
      /\ now.misses \in SUBSET Texts(now.request, Places(now.request, now.pending))
  BY <1>1, TypedAt DEF Local, Missed
<1>6. Core(now.request) \subseteq Passages /\ now.misses \subseteq Core(now.request)
  BY <1>4, <1>5, CoreFacts
<1>7. batch \subseteq now.misses /\ batch # {}
  BY <1>4, <1>5, FirstOfFacts, LimitsAssumption
<1>8. /\ Cardinality(batch) \in Nat /\ Cardinality(batch) > 0
      /\ (rest = {} => Cardinality(batch) = Cardinality(now.misses))
  <2> HIDE DEF batch
  <2>1. IsFiniteSet(batch) /\ Cardinality(batch) \in Nat
    BY <1>4, <1>7, FinitePassages
  <2>2. Cardinality(batch) # 0
    BY <1>7, <2>1, FS_EmptySet
  <2>3. rest = {} => batch = now.misses
    BY <1>7
  <2> QED  BY <2>1, <2>2, <2>3
<1>9. missing \in Nat /\ (rest = {} => missing = 0)
  <2> HIDE DEF rest
  <2>1. IsFiniteSet({place \in Places(now.request, now.pending) :
                       Text(now.request, place) \in rest})
    <3>1. IsFiniteSet(Places(now.request, now.pending))
      BY <1>4, PlacesFinite
    <3> QED  BY <3>1, FS_Subset
  <2>2. rest = {} => {place \in Places(now.request, now.pending) :
                       Text(now.request, place) \in rest} = {}
    OBVIOUS
  <2> QED  BY <2>1, <2>2, FS_CardinalityType, FS_EmptySet DEF CountIn
<1>10. /\ completed \in Nat /\ completed > now.last_saved
       /\ (stops \/ rest = {} => saves)
  <2> HIDE DEF batch, rest
  <2> QED  BY <1>4, <1>8 DEF IsSaveDue
<1> HIDE DEF batch, missing, saves
<1>11. /\ CacheInv(inserted)
       /\ Cached(inserted) = Cached(old.cache) \cup batch
       /\ Protected(inserted) = Protected(old.cache)
       /\ inserted.access_counter = old.cache.access_counter
       /\ \A key \in batch : inserted.entries[key].last_used = old.cache.access_counter
       /\ \A key \in Cached(old.cache) : inserted.entries[key] = old.cache.entries[key]
  <2>1. batch \in SUBSET Passages /\ batch \cap Cached(old.cache) = {}
    BY <1>4, <1>5, <1>7
  <2> QED  BY <2>1, TypedAt, InsertFacts
<1>12. /\ \A key \in embedded \cap Cached(inserted) :
            inserted.entries[key].last_used = inserted.access_counter
       /\ \A key \in Cached(inserted) \ embedded :
            inserted.entries[key].last_used < inserted.access_counter
       /\ Fits(old, now) => embedded \subseteq Cached(inserted)
  <2>1. /\ \A key \in now.embedded \cap Cached(old.cache) :
             old.cache.entries[key].last_used = old.cache.access_counter
        /\ \A key \in Cached(old.cache) \ now.embedded :
             old.cache.entries[key].last_used < old.cache.access_counter
        /\ Fits(old, now) => now.embedded \subseteq Cached(old.cache)
    BY <1>1, TypedAt DEF Local, Owned
  <2> QED  BY <1>11, <2>1
<1> HIDE DEF inserted
<1>13. /\ CacheInv(prune_cache(inserted))
       /\ Protected(prune_cache(inserted)) = Protected(inserted)
       /\ Cached(prune_cache(inserted)) \subseteq Cached(inserted)
       /\ prune_cache(inserted).access_counter = inserted.access_counter
       /\ \A key \in Cached(prune_cache(inserted)) :
            prune_cache(inserted).entries[key] = inserted.entries[key]
       /\ Fits(old, now) => embedded \subseteq Cached(prune_cache(inserted))
  <2>1. IsCache(inserted)
    BY <1>11 DEF CacheInv
  <2>2. ASSUME Fits(old, now)
        PROVE  embedded \subseteq Cached(prune_cache(inserted))
    <3> DEFINE y == [cache |-> inserted]
               r == [request |-> now.request, embedded |-> embedded]
    <3>1. /\ y.cache = inserted /\ r.request = now.request /\ r.embedded = embedded
      OBVIOUS
    <3>2. Fits(y, r)
      BY <1>11, <2>2 DEF Fits
    <3>3. embedded \subseteq Core(now.request) /\ embedded \subseteq Cached(inserted)
      BY <1>4, <1>6, <1>7, <1>12, <2>2
    <3> HIDE DEF y, r, embedded
    <3> QED  BY <1>4, <1>11, <1>12, <3>1, <3>2, <3>3, SaveKeepsUsed
  <2> QED  BY <1>11, <2>1, <2>2, PruneInv, PruneFacts
<1>14. /\ CacheInv(cache) /\ Protected(cache) = Protected(old.cache)
       /\ Cached(cache) \subseteq Cached(old.cache) \cup batch
       /\ \A key \in embedded \cap Cached(cache) :
            cache.entries[key].last_used = cache.access_counter
       /\ \A key \in Cached(cache) \ embedded :
            cache.entries[key].last_used < cache.access_counter
       /\ Fits(old, now) => embedded \subseteq Cached(cache)
  <2>1. CASE saves
    BY <1>11, <1>12, <1>13, <2>1
  <2>2. CASE ~saves
    BY <1>11, <1>12, <2>2
  <2> QED  BY <2>1, <2>2
<1>15. CacheInv(disk')
  BY <1>3, <1>14 DEF Inv
<1> HIDE DEF cache, x, g
<1>16. /\ embedded \subseteq Core(now.request) /\ rest \subseteq now.misses
       /\ rest \in SUBSET Passages /\ embedded \in SUBSET Passages
       /\ rest \cap embedded = {} /\ rest \cap Cached(cache) = {}
       /\ embedded \cup rest = now.embedded \cup now.misses
       /\ now.embedded \subseteq embedded
  BY <1>4, <1>5, <1>6, <1>7, <1>14
<1>17. /\ now.kind = "generate" =>
            /\ now.budget = "unbounded" /\ Protected(old.cache) \subseteq Core(now.request)
            /\ Cardinality(Core(now.request)) <= MaxEntries
            /\ Core(now.request) = now.embedded \cup now.misses
       /\ now.kind = "agent" =>
            /\ h.known \cap Core(now.request) \subseteq now.embedded
            /\ now.misses \cap h.known = {}
  BY <1>1, TypedAt DEF Local, Generating, Answering
<1>18. ~(embedded \subseteq h.known) \/ now.kind # "agent"
  BY <1>7, <1>17
<1>19. g \in [known : SUBSET Passages, saved : SUBSET Passages]
  BY <1>3, <1>4, <1>14, CachedPassages
<1>20. CASE stops \/ rest = {}
  <2> DEFINE asked == Request(now.kind, now.request, now.budget)
  <2>1. /\ asked \in Run /\ asked.kind = now.kind /\ asked.request = now.request
        /\ asked.budget = now.budget /\ asked.pending = {}
        /\ asked.last_saved = 0 /\ asked.completed = 0
    BY <1>4, RequestFacts
  <2> HIDE DEF asked, embedded
  <2>2. /\ ends \in Run /\ ends.pc = "rank" /\ ends.kind = now.kind
        /\ ends.request = now.request /\ ends.budget = now.budget
        /\ ends.pending = {} /\ ends.embedded = embedded /\ ends.missing = missing
        /\ ends.last_saved = 0 /\ ends.completed = 0
    BY <1>9, <1>16, <2>1 DEF Run, asked
  <2> HIDE DEF ends
  <2>3. Typed(x, ends, g)
    BY <1>2, <1>14, <1>16, <1>19, <2>2 DEF Typed
  <2>4. Saved(x, ends, g) /\ Missed(x, ends)
    BY <1>2, <1>3, <1>10, <1>20, <2>2 DEF Saved, Missed
  <2>5. Fits(x, ends) => Fits(old, now)
    BY <1>2, <1>14, <2>2 DEF Fits
  <2>6. Owned(x, ends)
    BY <1>2, <1>14, <2>2, <2>5 DEF Owned
  <2>7. Generating(x, ends)
    <3> SUFFICES ASSUME now.kind = "generate" PROVE Generating(x, ends)
      BY <2>2 DEF Generating
    <3>1. rest = {}
      BY <1>1, <1>17, <1>20
    <3>2. embedded = Core(now.request)
      BY <1>16, <1>17, <3>1
    <3>3. Core(now.request) \cup Protected(old.cache) = Core(now.request)
      BY <1>17
    <3>4. Fits(old, now)
      BY <1>17, <3>3 DEF Fits
    <3> QED  BY <1>2, <1>14, <1>17, <2>2, <3>2, <3>4 DEF Generating
  <2>8. Answering(x, ends, g)
    BY <1>3, <1>9, <1>16, <1>17, <1>18, <2>2 DEF Answering
  <2>9. Local(x, ends, g)
    BY <2>3, <2>4, <2>6, <2>7, <2>8 DEF Local
  <2> QED  BY <1>1, <1>15, <1>20, <2>9, StepKeeps DEF x, g
<1>21. CASE ~stops /\ rest # {}
  <2> HIDE DEF embedded, rest, completed
  <2>1. /\ goes_on \in Run /\ goes_on.pc = "embed" /\ goes_on.kind = now.kind
        /\ goes_on.request = now.request /\ goes_on.budget = now.budget
        /\ goes_on.pending = now.pending /\ goes_on.embedded = embedded
        /\ goes_on.misses = rest /\ goes_on.completed = completed
        /\ goes_on.last_saved = IF saves THEN completed ELSE now.last_saved
    BY <1>1, <1>4, <1>10, <1>16 DEF Run
  <2> HIDE DEF goes_on
  <2>2. Typed(x, goes_on, g)
    BY <1>2, <1>4, <1>10, <1>14, <1>16, <1>19, <2>1 DEF Typed
  <2>3. Saved(x, goes_on, g)
    BY <1>2, <1>3, <1>4, <1>10, <2>1 DEF Saved
  <2>4. Missed(x, goes_on)
    BY <1>2, <1>5, <1>16, <1>21, <2>1 DEF Missed
  <2>5. Fits(x, goes_on) => Fits(old, now)
    BY <1>2, <1>14, <2>1 DEF Fits
  <2>6. Owned(x, goes_on)
    BY <1>2, <1>14, <2>1, <2>5 DEF Owned
  <2>7. Generating(x, goes_on)
    BY <1>2, <1>14, <1>16, <1>17, <2>1 DEF Generating
  <2>8. Answering(x, goes_on, g)
    BY <1>3, <1>16, <1>17, <2>1 DEF Answering
  <2>9. Local(x, goes_on, g)
    BY <2>2, <2>3, <2>4, <2>6, <2>7, <2>8 DEF Local
  <2> QED  BY <1>1, <1>15, <1>21, <2>9, StepKeeps DEF x, g
<1> QED  BY <1>20, <1>21

LEMMA StopBatchKeeps ==
  ASSUME Inv, NEW p \in Process, StopBatch(p)
  PROVE  Inv'
<1> DEFINE old == index[p]
           now == run[p]
           h == history[p]
           cache == prune_cache(old.cache)
           saves == now.completed > now.last_saved
           x == index'[p]
           g == history'[p]
<1>1. /\ Frame(p) /\ now.pc = "embed" /\ run'[p] = Ended(p)
  BY DEF StopBatch, save_pending_cache, Write, Keep, Inv, Frame
<1>2. /\ CacheInv(cache) /\ Cached(cache) \subseteq Passages
      /\ DOMAIN old = {"cache", "passages"} /\ CacheInv(old.cache)
      /\ now \in Run /\ h \in [known : SUBSET Passages, saved : SUBSET Passages]
      /\ now.last_saved <= now.completed /\ now.last_saved \in Nat /\ now.completed \in Nat
      /\ now.pending \subseteq DOMAIN now.request /\ now.embedded \subseteq Core(now.request)
      /\ now.completed = now.last_saved => h.saved = Cached(old.cache)
  BY <1>1, TypedAt, PruneInv, CachedPassages DEF Local, Typed, Saved, Run
<1>3. /\ DOMAIN x = {"cache", "passages"} /\ CacheInv(x.cache)
      /\ g \in [known : SUBSET Passages, saved : SUBSET Passages]
      /\ g.saved = Cached(x.cache) /\ CacheInv(disk')
  <2> HIDE DEF cache
  <2>1. CASE saves
    <3>1. /\ x = [old EXCEPT !.cache = cache] /\ g = [h EXCEPT !.saved = Cached(cache)]
          /\ disk' = cache
      BY <2>1 DEF StopBatch, save_pending_cache, Write, Inv, cache
    <3>2. DOMAIN x = DOMAIN old /\ x.cache = cache
      BY <1>2, <3>1
    <3> QED  BY <1>2, <3>1, <3>2
  <2>2. CASE ~saves
    <3>1. x = old /\ g = h /\ disk' = disk
      BY <2>2 DEF StopBatch, save_pending_cache, Keep
    <3> QED  BY <1>2, <2>2, <3>1 DEF Inv
  <2> QED  BY <2>1, <2>2
<1> HIDE DEF x, g
<1>4. Local(x, Ended(p), g)
  <2>1. CASE now.kind = "list"
    BY <1>3, <2>1, IdleKeeps DEF Ended
  <2>2. CASE now.kind # "list"
    <3> DEFINE r == [now EXCEPT !.pc = "failed"]
    <3>1. /\ r \in Run /\ r.pc = "failed" /\ r.request = now.request
          /\ r.pending = now.pending /\ r.embedded = now.embedded
          /\ r.last_saved = now.last_saved /\ r.completed = now.completed
      BY <1>2 DEF Run
    <3>2. Ended(p) = r
      BY <2>2 DEF Ended
    <3> HIDE DEF r
    <3>3. Typed(x, r, g)
      BY <1>2, <1>3, <3>1 DEF Typed
    <3> QED  BY <1>3, <3>1, <3>2, <3>3, AtRest
  <2> QED  BY <2>1, <2>2
<1> QED  BY <1>1, <1>3, <1>4, StepKeeps DEF x, g

(* A process that has ranked, with its index as it is saved.               *)
LEMMA DoneKeeps ==
  ASSUME NEW now \in Run, NEW x, NEW h, now.pending \subseteq DOMAIN now.request,
         now.embedded \subseteq Core(now.request), now.last_saved <= now.completed,
         DOMAIN x = {"cache", "passages"}, CacheInv(x.cache),
         h \in [known : SUBSET Passages, saved : SUBSET Passages],
         h.saved = Cached(x.cache)
  PROVE  Local(x, [now EXCEPT !.pc = "done"], h)
<1> DEFINE r == [now EXCEPT !.pc = "done"]
<1>1. /\ r \in Run /\ r.pc = "done" /\ r.request = now.request
      /\ r.pending = now.pending /\ r.embedded = now.embedded
      /\ r.last_saved = now.last_saved /\ r.completed = now.completed
  BY DEF Run
<1> HIDE DEF r
<1>2. Typed(x, r, h)
  BY <1>1 DEF Typed
<1>3. Local(x, r, h)
  BY <1>1, <1>2, AtRest
<1> QED  BY <1>3 DEF r

LEMMA RankKeeps ==
  ASSUME Inv, NEW p \in Process, Rank(p)
  PROVE  Inv'
<1>1. /\ Frame(p) /\ index'[p] = index[p] /\ history'[p] = history[p] /\ disk' = disk
      /\ run[p].pc = "rank"
      /\ run'[p] = IF run[p].kind = "list" THEN Idle ELSE [run[p] EXCEPT !.pc = "done"]
  BY DEF Rank, Inv, Frame
<1>2. /\ history[p].saved = Cached(index[p].cache)
      /\ run[p].pending \subseteq DOMAIN run[p].request
      /\ run[p].embedded \subseteq Core(run[p].request)
      /\ run[p].last_saved <= run[p].completed
  BY <1>1, TypedAt DEF Local, Typed, Saved
<1>3. /\ Local(index[p], Idle, history[p])
      /\ Local(index[p], [run[p] EXCEPT !.pc = "done"], history[p])
  BY <1>2, TypedAt, IdleKeeps, DoneKeeps
<1> QED  BY <1>1, <1>3, StepKeeps DEF Inv

(* The core of a generate that has embedded it is protected whole.         *)
LEMMA ProtectCoreFacts ==
  ASSUME Inv, NEW p \in Process, ProtectCore(p)
  PROVE  LET cache == WithProtected(index[p].cache,
                        Protected(index[p].cache) \cup Core(run[p].request))
         IN  /\ CacheInv(cache) /\ Cached(cache) = Cached(index[p].cache)
             /\ Protected(cache) = Core(run[p].request)
<1> DEFINE c == index[p].cache
           core == Core(run[p].request)
<1>1. run[p].pc = "rank" /\ run[p].kind = "generate"
  BY DEF ProtectCore
<1>2. /\ Protected(c) \subseteq core /\ Cardinality(core) <= MaxEntries
      /\ core \subseteq Cached(c) /\ CacheInv(c)
  BY <1>1, TypedAt DEF Local, Generating
<1>3. core \in SUBSET Passages /\ Protected(c) \cup core = core
  BY <1>2, CachedPassages
<1>4. /\ CacheInv(WithProtected(c, core)) /\ Cached(WithProtected(c, core)) = Cached(c)
      /\ Protected(WithProtected(c, core)) = Cached(c) \cap core
  BY <1>2, <1>3, WithProtectedFacts
<1>5. Cached(c) \cap core = core
  BY <1>2
<1> QED  BY <1>3, <1>4, <1>5

LEMMA ProtectCoreKeeps ==
  ASSUME Inv, NEW p \in Process, ProtectCore(p)
  PROVE  Inv'
<1> DEFINE old == index[p]
           h == history[p]
           cache == WithProtected(old.cache, Protected(old.cache) \cup Core(run[p].request))
<1>1. /\ Frame(p) /\ index'[p] = [old EXCEPT !.cache = cache] /\ disk' = cache
      /\ history'[p] = [h EXCEPT !.saved = Cached(cache)]
      /\ run'[p] = [run[p] EXCEPT !.pc = "done"]
  BY DEF ProtectCore, Write, Inv, Frame
<1>2. CacheInv(cache) /\ Cached(cache) \subseteq Passages
  BY ProtectCoreFacts, CachedPassages
<1> HIDE DEF cache
<1>3. /\ DOMAIN index'[p] = {"cache", "passages"} /\ index'[p].cache = cache
      /\ history'[p] \in [known : SUBSET Passages, saved : SUBSET Passages]
      /\ history'[p].saved = Cached(cache)
  BY <1>1, <1>2, TypedAt
<1>4. /\ run[p].pending \subseteq DOMAIN run[p].request
      /\ run[p].embedded \subseteq Core(run[p].request)
      /\ run[p].last_saved <= run[p].completed /\ run[p] \in Run
  BY TypedAt DEF Typed
<1>5. CacheInv(index'[p].cache) /\ history'[p].saved = Cached(index'[p].cache)
  BY <1>2, <1>3
<1>6. Local(index'[p], [run[p] EXCEPT !.pc = "done"], history'[p])
  BY <1>3, <1>4, <1>5, DoneKeeps
<1>7. Local(index'[p], run'[p], history'[p])
  BY <1>1, <1>6
<1> QED  BY <1>1, <1>2, <1>7, StepKeeps

LEMMA ExitKeeps ==
  ASSUME Inv, NEW p \in Process, Exit(p)
  PROVE  Inv'
<1>1. /\ Frame(p) /\ index'[p] = Fresh /\ run'[p] = Off /\ history'[p] = Unread
      /\ disk' = disk
  BY DEF Exit, Inv, Frame
<1> QED  BY <1>1, OffIsLocal, StepKeeps DEF Inv

LEMMA ClearCacheKeeps ==
  ASSUME Inv, clear_cache
  PROVE  Inv'
BY EmptyCacheFacts DEF clear_cache, Inv

-----------------------------------------------------------------------------
(* The theorems *)

LEMMA NextKeeps ==
  ASSUME Inv, [Next]_vars
  PROVE  Inv'
<1>1. CASE clear_cache
  BY <1>1, ClearCacheKeeps
<1>2. ASSUME NEW p \in Process, StartList(p) PROVE Inv'
  BY <1>2, StartListKeeps
<1>3. ASSUME NEW p \in Process, NEW corpus \in Corpora, NEW budget \in {"none", "time"},
             StartAgent(p, corpus, budget)
      PROVE  Inv'
  BY <1>3, StartAgentKeeps
<1>4. ASSUME NEW p \in Process, NEW corpus \in Corpora, StartGenerate(p, corpus)
      PROVE  Inv'
  BY <1>4, StartGenerateKeeps
<1>5. ASSUME NEW p \in Process, NEW corpus \in Corpora, Search(p, corpus) PROVE Inv'
  BY <1>5, SearchKeeps
<1>6. ASSUME NEW p \in Process, clear_empty(p) PROVE Inv'
  BY <1>6, ClearEmptyKeeps
<1>7. ASSUME NEW p \in Process, AlreadyFresh(p) PROVE Inv'
  BY <1>7, AlreadyFreshKeeps
<1>8. ASSUME NEW p \in Process, CancelRequest(p) PROVE Inv'
  BY <1>8, CancelRequestKeeps
<1>9. ASSUME NEW p \in Process, Refresh(p) PROVE Inv'
  BY <1>9, RefreshKeeps
<1>10. ASSUME NEW p \in Process, NEW upto, CancelPlan(p, upto) PROVE Inv'
  BY <1>10, CancelPlanKeeps
<1>11. ASSUME NEW p \in Process, NEW place, CancelLookUp(p, place) PROVE Inv'
  BY <1>11, CancelLookUpKeeps
<1>12. ASSUME NEW p \in Process, NEW stops \in BOOLEAN, Batch(p, stops) PROVE Inv'
  BY <1>12, BatchKeeps
<1>13. ASSUME NEW p \in Process, StopBatch(p) PROVE Inv'
  BY <1>13, StopBatchKeeps
<1>14. ASSUME NEW p \in Process, Rank(p) PROVE Inv'
  BY <1>14, RankKeeps
<1>15. ASSUME NEW p \in Process, ProtectCore(p) PROVE Inv'
  BY <1>15, ProtectCoreKeeps
<1>16. ASSUME NEW p \in Process, Exit(p) PROVE Inv'
  BY <1>16, ExitKeeps
<1>17. CASE UNCHANGED vars
  BY <1>17 DEF Inv, vars
<1> QED
  BY <1>1, <1>2, <1>3, <1>4, <1>5, <1>6, <1>7, <1>8, <1>9, <1>10, <1>11, <1>12, <1>13,
     <1>14, <1>15, <1>16, <1>17 DEF Next

(* The inductive invariant.                                                *)
THEOREM SpecInv == Spec => []Inv
<1>1. Init => Inv
  BY InitHolds
<1>2. Inv /\ [Next]_vars => Inv'
  BY NextKeeps
<1> QED  BY <1>1, <1>2, PTL DEF Spec

(* A process that is not embedding has saved what it embedded, however its *)
(* search ended (save_pending_cache, IsSaveDue of semantic/cache.rs).      *)
THEOREM StoppedIsSaved == Spec => []SavedWhenStopped
<1>1. Inv => SavedWhenStopped
  BY DEF Inv, Local, Saved, SavedWhenStopped
<1> QED  BY <1>1, SpecInv, PTL

(* A search that the cache can hold never evicts what it uses itself       *)
(* (prune_cache and the marking of a lookup in semantic/cache.rs).         *)
THEOREM OwnPassagesAreKept == Spec => []OwnPassagesStay
<1>1. Inv => OwnPassagesStay
  BY DEF Inv, Local, Owned, Fits, FitsCache, OwnPassagesStay
<1> QED  BY <1>1, SpecInv, PTL

(* An agent search that reports passages missing has saved more of its     *)
(* corpus than it found, so rerunning it makes progress.                   *)
THEOREM RerunMakesProgress == Spec => []RerunIndexesMore
<1>1. Inv => RerunIndexesMore
  <2> SUFFICES ASSUME Inv, NEW p \in Process,
                      run[p].pc = "rank", run[p].kind = "agent", run[p].budget = "time",
                      run[p].missing > 0, FitsCache(p)
               PROVE  /\ history[p].known \cap Core(run[p].request) \subseteq history[p].saved
                      /\ ~(history[p].saved \cap Core(run[p].request)
                             \subseteq history[p].known)
    BY DEF RerunIndexesMore
  <2>1. /\ history[p].saved = Cached(index[p].cache)
        /\ run[p].embedded \subseteq Cached(index[p].cache)
        /\ run[p].embedded \subseteq Core(run[p].request)
        /\ history[p].known \cap Core(run[p].request) \subseteq run[p].embedded
        /\ ~(run[p].embedded \subseteq history[p].known)
    BY TypedAt DEF Local, Typed, Saved, Owned, Answering, Fits, FitsCache
  <2> QED  BY <2>1
<1> QED  BY <1>1, SpecInv, PTL

(* What a step does to the protected core of one process.                  *)
KeepsCore(p) ==
  /\ run[p].kind = "generate" /\ run[p].pc = "rank" /\ run'[p].pc = "done"
     => Protected(disk') = Core(run[p].request)
  /\ run[p].kind # "generate" /\ run[p].pc # "off" /\ run'[p].pc # "off"
     => Protected(index[p].cache) \subseteq Protected(index'[p].cache)

LEMMA CoreOfOthers ==
  ASSUME Inv, NEW p \in Process, KeepsCore(p),
         \A q \in Process \ {p} : index'[q] = index[q] /\ run'[q] = run[q]
  PROVE  \A q \in Process : KeepsCore(q)
BY DEF KeepsCore

LEMMA CoreOfOne ==
  ASSUME Inv, NEW p \in Process, run[p].pc \notin {"off", "rank"},
         Protected(index[p].cache) = Protected(index'[p].cache)
  PROVE  KeepsCore(p)
BY DEF KeepsCore

LEMMA CoreAtStart ==
  ASSUME Inv, NEW p \in Process, NEW started, NEW cache, Start(p, started, cache)
  PROVE  \A q \in Process : KeepsCore(q)
<1>1. KeepsCore(p)
  BY DEF Start, KeepsCore
<1> QED  BY <1>1, CoreOfOthers DEF Start, Inv

LEMMA CoreAtBatch ==
  ASSUME Inv, NEW p \in Process, NEW stops \in BOOLEAN, Batch(p, stops)
  PROVE  \A q \in Process : KeepsCore(q)
<1> DEFINE batch == FirstOf(run[p].request, Places(run[p].request, run[p].pending),
                            run[p].misses, BatchSize)
           inserted == Insert(index[p].cache, batch)
<1>1. /\ run[p].pc = "embed"
      /\ \A q \in Process \ {p} : index'[q] = index[q] /\ run'[q] = run[q]
  BY DEF Batch, Inv
<1>2. index'[p].cache \in {prune_cache(inserted), inserted}
  BY DEF Batch, Inv
<1>3. batch \in SUBSET Passages /\ batch \cap Cached(index[p].cache) = {}
  <2>1. batch \subseteq run[p].misses
    BY DEF FirstOf
  <2>2. run[p].misses \in SUBSET Passages /\ run[p].misses \cap Cached(index[p].cache) = {}
    BY <1>1, TypedAt DEF Local, Missed, Run
  <2> QED  BY <2>1, <2>2
<1>4. CacheInv(inserted) /\ Protected(inserted) = Protected(index[p].cache)
  BY <1>3, TypedAt, InsertFacts
<1> HIDE DEF inserted
<1>5. Protected(index'[p].cache) = Protected(index[p].cache)
  BY <1>2, <1>4, PruneInv
<1> QED  BY <1>1, <1>5, CoreOfOne, CoreOfOthers

LEMMA CoreInSearch ==
  ASSUME Inv, NEW p \in Process,
         \/ \E corpus \in Corpora : Search(p, corpus)
         \/ clear_empty(p) \/ AlreadyFresh(p) \/ CancelRequest(p) \/ Refresh(p)
         \/ \E upto : CancelPlan(p, upto)
         \/ \E place : CancelLookUp(p, place)
         \/ StopBatch(p)
  PROVE  \A q \in Process : KeepsCore(q)
<1>1. /\ run[p].pc \in {"idle", "request", "embed"}
      /\ \A q \in Process \ {p} : index'[q] = index[q] /\ run'[q] = run[q]
  BY DEF Search, clear_empty, AlreadyFresh, CancelRequest, Refresh, CancelPlan, CancelLookUp,
         StopBatch, save_pending_cache, Write, Keep, IsPlanning, IsRefreshing, Inv
<1>2. \/ index'[p].cache = index[p].cache
      \/ index'[p].cache = prune_cache(index[p].cache)
      \/ \E keys : index'[p].cache = LookUp(index[p].cache, keys)
  <2>1. CASE \/ \E corpus \in Corpora : Search(p, corpus)
             \/ clear_empty(p) \/ AlreadyFresh(p) \/ CancelRequest(p)
             \/ \E upto : CancelPlan(p, upto)
    BY <2>1, TypedAt DEF Search, clear_empty, AlreadyFresh, CancelRequest, CancelPlan, Inv
  <2>2. CASE Refresh(p)
    <3>1. PICK keys, passages :
            index'[p] = [cache |-> LookUp(index[p].cache, keys), passages |-> passages]
      BY <2>2 DEF Refresh, Inv
    <3>2. index'[p].cache = LookUp(index[p].cache, keys)
      BY <3>1
    <3> QED  BY <3>2
  <2>3. CASE \E place : CancelLookUp(p, place)
    <3>1. PICK keys, passages :
            index'[p] = [cache |-> LookUp(index[p].cache, keys), passages |-> passages]
      BY <2>3 DEF CancelLookUp, Inv
    <3>2. index'[p].cache = LookUp(index[p].cache, keys)
      BY <3>1
    <3> QED  BY <3>2
  <2>4. CASE StopBatch(p)
    BY <2>4, TypedAt DEF StopBatch, save_pending_cache, Keep, Inv
  <2> QED  BY <2>1, <2>2, <2>3, <2>4
<1>3. Protected(index'[p].cache) = Protected(index[p].cache)
  BY <1>2, TypedAt, PruneInv, LookUpFacts
<1> QED  BY <1>1, <1>3, CoreOfOne, CoreOfOthers

LEMMA CoreAtEnd ==
  ASSUME Inv, NEW p \in Process, Rank(p) \/ ProtectCore(p) \/ Exit(p)
  PROVE  \A q \in Process : KeepsCore(q)
<1>1. \A q \in Process \ {p} : index'[q] = index[q] /\ run'[q] = run[q]
  BY DEF Rank, ProtectCore, Exit, Write, Inv
<1>2. KeepsCore(p)
  <2>1. CASE Rank(p)
    BY <2>1 DEF Rank, KeepsCore
  <2>2. CASE ProtectCore(p)
    <3>1. Protected(disk') = Core(run[p].request) /\ run[p].kind = "generate"
      BY <2>2, ProtectCoreFacts DEF ProtectCore, Write
    <3> QED  BY <3>1 DEF KeepsCore
  <2>3. CASE Exit(p)
    <3>1. run'[p].pc = "off"
      BY <2>3, IdleFacts DEF Exit, Inv
    <3> QED  BY <3>1 DEF KeepsCore
  <2> QED  BY <2>1, <2>2, <2>3
<1> QED  BY <1>1, <1>2, CoreOfOthers

(* --generate-semantic-cache writes exactly its core protected, and no     *)
(* search unprotects or evicts a protected passage (protect_core,          *)
(* prune_cache of semantic/cache.rs).                                      *)
THEOREM ProtectedCoreIsKept == Spec => CoreIsKept
<1>1. Inv /\ [Next]_vars => [\A p \in Process : KeepsCore(p)]_vars
  <2> SUFFICES ASSUME Inv, Next
               PROVE  \A p \in Process : KeepsCore(p)
    OBVIOUS
  <2>1. CASE clear_cache
    BY <2>1 DEF clear_cache, KeepsCore
  <2>2. ASSUME NEW p \in Process, StartList(p) PROVE \A q \in Process : KeepsCore(q)
    BY <2>2, CoreAtStart DEF StartList
  <2>3. ASSUME NEW p \in Process, NEW corpus \in Corpora, NEW budget \in {"none", "time"},
               StartAgent(p, corpus, budget)
        PROVE  \A q \in Process : KeepsCore(q)
    BY <2>3, CoreAtStart DEF StartAgent
  <2>4. ASSUME NEW p \in Process, NEW corpus \in Corpora, StartGenerate(p, corpus)
        PROVE  \A q \in Process : KeepsCore(q)
    BY <2>4, CoreAtStart DEF StartGenerate
  <2>5. ASSUME NEW p \in Process, NEW stops \in BOOLEAN, Batch(p, stops)
        PROVE  \A q \in Process : KeepsCore(q)
    BY <2>5, CoreAtBatch
  <2>6. ASSUME NEW p \in Process,
               \/ \E corpus \in Corpora : Search(p, corpus)
               \/ clear_empty(p) \/ AlreadyFresh(p) \/ CancelRequest(p) \/ Refresh(p)
               \/ \E upto : CancelPlan(p, upto)
               \/ \E place : CancelLookUp(p, place)
               \/ StopBatch(p)
        PROVE  \A q \in Process : KeepsCore(q)
    BY <2>6, CoreInSearch
  <2>7. ASSUME NEW p \in Process, Rank(p) \/ ProtectCore(p) \/ Exit(p)
        PROVE  \A q \in Process : KeepsCore(q)
    BY <2>7, CoreAtEnd
  <2> QED  BY <2>1, <2>2, <2>3, <2>4, <2>5, <2>6, <2>7 DEF Next
<1> QED  BY <1>1, SpecInv, PTL DEF Spec, CoreIsKept, KeepsCore

-----------------------------------------------------------------------------
(* The resident passages *)

Resident(ix) ==
  /\ DOMAIN ix = {"signature", "resident", "corpus", "chunk_count"}
  /\ IsFiniteSet(DOMAIN ix.resident)
  /\ \A key \in DOMAIN ix.resident :
       /\ DOMAIN ix.resident[key] = {"built_from", "position", "chunks"}
       /\ IsResident(ix.resident[key]) /\ IsFiniteSet(ix.resident[key].chunks)
  /\ ix.chunk_count = CountOf(ix.resident, DOMAIN ix.resident)

(* The conversation of a slot is built from the slot's whole content.      *)
IsBuilt(ix, corpus, slot) ==
  LET key == conversation_keys(corpus)[slot]
  IN  /\ key \in DOMAIN ix.resident
      /\ ix.resident[key].position = slot
      /\ ix.resident[key].built_from # None
      /\ ix.resident[key].chunks = ChunksOf(corpus[slot].content)

(* The resident conversations are of the corpus's, built but for slots.    *)
Planned(ix, corpus, slots) ==
  /\ ix.corpus = conversation_keys(corpus)
  /\ DOMAIN ix.resident \subseteq Range(ix.corpus)
  /\ \A slot \in DOMAIN corpus \ slots : IsBuilt(ix, corpus, slot)

Signed(ix) ==
  ix.signature # None =>
    /\ ix.signature \in Corpora
    /\ ix.chunk_count > 0 => Planned(ix, ix.signature, {})

Ranked(ix, corpus, missing) ==
  /\ DOMAIN ix.corpus = DOMAIN corpus
  /\ \A slot \in DOMAIN corpus :
       /\ ix.corpus[slot] \in DOMAIN ix.resident
       /\ ix.resident[ix.corpus[slot]].position = slot
       /\ ix.resident[ix.corpus[slot]].chunks \subseteq ChunksOf(corpus[slot].content)
  /\ ix.chunk_count = CountOf(ix.resident, DOMAIN ix.resident)
  /\ ix.chunk_count + missing = Cardinality(AllPlaces(corpus))

Readable(x, r) ==
  /\ Resident(x.passages) /\ Signed(x.passages)
  /\ r.pc \in {"request", "embed", "rank"} => r.request \in Corpora
  /\ r.pc = "request" => r.missing = 0
  /\ r.pc = "embed" =>
       /\ Planned(x.passages, r.request, r.pending)
       /\ x.passages.signature = None
       /\ Texts(r.request, Places(r.request, r.pending)) \subseteq r.embedded \cup r.misses
  /\ r.pc = "rank" => Ranked(x.passages, r.request, r.missing)

ReadInv == \A p \in Process : Readable(index[p], run[p])

-----------------------------------------------------------------------------
(* Keys and counts *)

LEMMA KeysInjective ==
  ASSUME NEW corpus \in Requests, NEW s \in DOMAIN corpus, NEW t \in DOMAIN corpus,
         conversation_keys(corpus)[s] = conversation_keys(corpus)[t]
  PROVE  s = t
<1> DEFINE before(slot) == {u \in 1 .. slot - 1 : corpus[u].path = corpus[slot].path}
<1>1. s \in Nat /\ t \in Nat /\ s >= 1 /\ t >= 1
  <2>1. corpus \in Corpus
    BY RequestIsCorpus
  <2> QED  BY <2>1 DEF Corpus
<1>2. /\ corpus[s].path = corpus[t].path
      /\ Cardinality(before(s)) = Cardinality(before(t))
  BY DEF conversation_keys
<1>3. ASSUME NEW a \in {s, t}, NEW b \in {s, t}, a < b PROVE FALSE
  <2>1. before(a) \subseteq before(b) /\ a \in before(b) /\ a \notin before(a)
    BY <1>1, <1>2, <1>3
  <2>2. IsFiniteSet(before(b))
    <3>1. 1 \in Int /\ b - 1 \in Int
      BY <1>1
    <3>2. IsFiniteSet(1 .. b - 1)
      BY <3>1, FS_Interval
    <3>3. before(b) \subseteq 1 .. b - 1
      OBVIOUS
    <3> HIDE DEF before
    <3> QED  BY <3>2, <3>3, FS_Subset
  <2>3. /\ Cardinality(before(a)) <= Cardinality(before(b))
        /\ Cardinality(before(a)) = Cardinality(before(b)) => before(a) = before(b)
        /\ Cardinality(before(a)) \in Nat
    <3> HIDE DEF before
    <3> QED  BY <2>1, <2>2, FS_Subset, FS_CardinalityType
  <2>4. Cardinality(before(a)) = Cardinality(before(b))
    BY <1>2
  <2> HIDE DEF before
  <2> QED  BY <2>1, <2>3, <2>4
<1> HIDE DEF before
<1> QED  BY <1>1, <1>3

Pairs(resident, keys) == UNION {{key} \X resident[key].chunks : key \in keys}

LEMMA PairFacts ==
  ASSUME NEW resident, NEW keys
  PROVE  /\ CountOf(resident, keys) = Cardinality(Pairs(resident, keys))
         /\ \A pair : pair \in Pairs(resident, keys) <=>
              \E key \in keys : \E chunk \in resident[key].chunks : pair = <<key, chunk>>
BY DEF Pairs, CountOf

LEMMA PairsFinite ==
  ASSUME NEW resident, NEW keys, IsFiniteSet(keys),
         \A key \in keys : IsFiniteSet(resident[key].chunks)
  PROVE  /\ IsFiniteSet(Pairs(resident, keys)) /\ CountOf(resident, keys) \in Nat
<1> DEFINE f == [key \in keys |-> {key} \X resident[key].chunks]
           T == {{key} \X resident[key].chunks : key \in keys}
<1>1. f \in Surjection(keys, T)
  BY DEF Surjection
<1>2. IsFiniteSet(T)
  BY <1>1, FS_Surjection
<1>3. \A key \in keys : IsFiniteSet({key} \X resident[key].chunks)
  <2> TAKE key \in keys
  <2>1. IsFiniteSet({key}) /\ IsFiniteSet(resident[key].chunks)
    BY FS_Singleton
  <2> QED  BY <2>1, FS_Product
<1>4. IsFiniteSet(Pairs(resident, keys))
  BY <1>2, <1>3, FS_UNION DEF Pairs
<1> QED  BY <1>4, PairFacts, FS_CardinalityType

(* The count is additive over the conversations.                           *)
LEMMA CountSplits ==
  ASSUME NEW resident, NEW keys, NEW some, IsFiniteSet(keys), some \subseteq keys,
         \A key \in keys : IsFiniteSet(resident[key].chunks)
  PROVE  /\ CountOf(resident, some) \in Nat /\ CountOf(resident, keys \ some) \in Nat
         /\ CountOf(resident, keys) =
              CountOf(resident, some) + CountOf(resident, keys \ some)
<1>1. IsFiniteSet(some) /\ IsFiniteSet(keys \ some)
  BY FS_Subset
<1>2. /\ IsFiniteSet(Pairs(resident, some)) /\ IsFiniteSet(Pairs(resident, keys \ some))
      /\ CountOf(resident, some) \in Nat /\ CountOf(resident, keys \ some) \in Nat
  BY <1>1, PairsFinite
<1>3. Pairs(resident, keys) = Pairs(resident, some) \cup Pairs(resident, keys \ some)
  BY DEF Pairs
<1>4. Pairs(resident, some) \cap Pairs(resident, keys \ some) = {}
  BY PairFacts
<1>5. Cardinality(Pairs(resident, keys)) =
        Cardinality(Pairs(resident, some)) + Cardinality(Pairs(resident, keys \ some))
  <2> DEFINE A == Pairs(resident, some)
             B == Pairs(resident, keys \ some)
  <2>1. IsFiniteSet(A) /\ IsFiniteSet(B) /\ A \cap B = {}
    BY <1>2, <1>4
  <2>2. Pairs(resident, keys) = A \cup B
    BY <1>3
  <2> HIDE DEF A, B
  <2>3. /\ Cardinality(A \cup B) = Cardinality(A) + Cardinality(B) - Cardinality(A \cap B)
        /\ Cardinality(A) \in Nat /\ Cardinality(B) \in Nat
    BY <2>1, FS_Union, FS_CardinalityType
  <2>4. Cardinality(A \cap B) = 0
    BY <2>1, FS_EmptySet
  <2>5. Cardinality(Pairs(resident, keys)) = Cardinality(A) + Cardinality(B)
    BY <2>2, <2>3, <2>4
  <2> QED  BY <2>5 DEF A, B
<1> QED  BY <1>2, <1>5, PairFacts

(* It depends on the chunks only.                                          *)
LEMMA CountSame ==
  ASSUME NEW a, NEW b, NEW keys, \A key \in keys : a[key].chunks = b[key].chunks
  PROVE  CountOf(a, keys) = CountOf(b, keys)
<1>1. Pairs(a, keys) = Pairs(b, keys)
  BY DEF Pairs
<1> QED  BY <1>1, PairFacts

(* The chunks that are resident are as many as the places they are of.     *)
LEMMA CountPlaces ==
  ASSUME NEW corpus \in Requests, NEW kept \in SUBSET AllPlaces(corpus), NEW resident,
         DOMAIN resident = Range(conversation_keys(corpus)),
         \A slot \in DOMAIN corpus :
           resident[conversation_keys(corpus)[slot]].chunks =
             {<<i, corpus[slot].content[i]>> :
                i \in {j \in DOMAIN corpus[slot].content : <<slot, j>> \in kept}}
  PROVE  CountOf(resident, DOMAIN resident) = Cardinality(kept)
<1> DEFINE keys == conversation_keys(corpus)
           pairs == Pairs(resident, DOMAIN resident)
           Of(place) == <<keys[place[1]], <<place[2], Text(corpus, place)>>>>
           f == [place \in kept |-> Of(place)]
<1>1. DOMAIN keys = DOMAIN corpus
  BY DEF conversation_keys
<1>2. \A place \in kept :
        /\ place[1] \in DOMAIN corpus
        /\ place[2] \in DOMAIN corpus[place[1]].content
        /\ place = <<place[1], place[2]>>
  BY PlaceFacts DEF AllPlaces
<1>3. \A a \in DOMAIN corpus : \A b \in DOMAIN corpus : keys[a] = keys[b] => a = b
  BY KeysInjective
<1> HIDE DEF keys
<1>4. \A place \in kept : Of(place) \in pairs
  <2> TAKE place \in kept
  <2>1. keys[place[1]] \in DOMAIN resident
    BY <1>1, <1>2 DEF Range, keys
  <2>2. <<place[2], Text(corpus, place)>> \in resident[keys[place[1]]].chunks
    <3> DEFINE slot == place[1]
    <3>1. /\ slot \in DOMAIN corpus /\ place[2] \in DOMAIN corpus[slot].content
          /\ <<slot, place[2]>> \in kept
      BY <1>2
    <3>2. Text(corpus, place) = corpus[slot].content[place[2]]
      BY DEF Text
    <3>3. resident[keys[slot]].chunks =
            {<<i, corpus[slot].content[i]>> :
               i \in {j \in DOMAIN corpus[slot].content : <<slot, j>> \in kept}}
      BY <3>1 DEF keys
    <3> QED  BY <3>1, <3>2, <3>3
  <2> QED  BY <2>1, <2>2, PairFacts
<1>5. \A a \in kept : \A b \in kept : Of(a) = Of(b) => a = b
  <2> TAKE a \in kept
  <2> TAKE b \in kept
  <2> HAVE Of(a) = Of(b)
  <2>1. keys[a[1]] = keys[b[1]] /\ a[2] = b[2]
    OBVIOUS
  <2>2. a[1] = b[1]
    BY <1>2, <1>3, <2>1
  <2> QED  BY <1>2, <2>1, <2>2
<1>6. \A pair \in pairs : \E place \in kept : Of(place) = pair
  <2> TAKE pair \in pairs
  <2>1. PICK key \in DOMAIN resident : \E chunk \in resident[key].chunks : pair = <<key, chunk>>
    BY PairFacts
  <2>2. PICK slot \in DOMAIN corpus : key = keys[slot]
    BY <1>1 DEF Range, keys
  <2>3. PICK i \in {j \in DOMAIN corpus[slot].content : <<slot, j>> \in kept} :
          pair = <<key, <<i, corpus[slot].content[i]>>>>
    BY <2>1, <2>2 DEF keys
  <2>4. Of(<<slot, i>>) = pair
    BY <2>2, <2>3 DEF Text
  <2> QED  BY <2>3, <2>4
<1> HIDE DEF pairs, Of
<1>7. f \in Bijection(kept, pairs)
  <2>1. f \in [kept -> pairs] /\ \A place \in kept : f[place] = Of(place)
    BY <1>4
  <2> HIDE DEF f
  <2> QED  BY <1>5, <1>6, <2>1 DEF Bijection, Injection, IsInjective, Surjection
<1>8. IsFiniteSet(kept)
  <2>1. IsFiniteSet(AllPlaces(corpus))
    BY PlacesFinite DEF AllPlaces
  <2> QED  BY <2>1, FS_Subset
<1>9. Cardinality(kept) = Cardinality(pairs)
  <2> HIDE DEF f
  <2>1. ExistsBijection(kept, pairs)
    BY <1>7 DEF ExistsBijection
  <2> QED  BY <1>8, <2>1, FS_Bijection
<1> QED  BY <1>9, PairFacts DEF pairs

-----------------------------------------------------------------------------
(* Planning a refresh, and absorbing what it embedded *)

LEMMA KeysOf ==
  ASSUME NEW corpus \in Corpora
  PROVE  /\ corpus \in Requests
         /\ DOMAIN conversation_keys(corpus) = DOMAIN corpus
         /\ DOMAIN corpus \in SUBSET Nat /\ IsFiniteSet(DOMAIN corpus)
         /\ IsFiniteSet(Range(conversation_keys(corpus)))
<1> DEFINE keys == conversation_keys(corpus)
<1>1. corpus \in Requests /\ DOMAIN keys = DOMAIN corpus
  BY DEF Requests, conversation_keys
<1>2. DOMAIN corpus = 1 .. Len(corpus) /\ Len(corpus) \in Nat
  BY <1>1, RequestIsCorpus DEF Corpus
<1>3. IsFiniteSet(DOMAIN corpus)
  BY <1>2, FS_Interval
<1>4. keys \in Surjection(DOMAIN corpus, Range(keys))
  <2>1. keys \in [DOMAIN corpus -> Range(keys)]
    BY <1>1 DEF Range, conversation_keys
  <2> QED  BY <1>1, <2>1 DEF Surjection, Range
<1> HIDE DEF keys
<1>5. IsFiniteSet(Range(keys))
  BY <1>3, <1>4, FS_Surjection
<1> QED  BY <1>1, <1>2, <1>3, <1>5 DEF keys

LEMMA PlanFacts ==
  ASSUME NEW corpus \in Corpora, NEW ix, Resident(ix), NEW upto
  PROVE  /\ Resident(plan_refresh(ix, corpus, upto))
         /\ plan_refresh(ix, corpus, upto).signature = None
         /\ upto = Len(corpus) + 1 =>
              Planned(plan_refresh(ix, corpus, upto), corpus, pending(ix, corpus))
<1> DEFINE keys == conversation_keys(corpus)
           live == DOMAIN ix.resident \cap Range(keys)
           gone == DOMAIN ix.resident \ live
           moves(slot) == slot < upto /\ IsUnchanged(ix, corpus, slot)
           MovesTo(key) == \E slot \in DOMAIN keys : keys[slot] = key /\ moves(slot)
           place(key) == CHOOSE slot \in DOMAIN keys : keys[slot] = key
           Moved(key, conversation) ==
             IF MovesTo(key) THEN [conversation EXCEPT !.position = place(key)]
             ELSE conversation
           resident == [key \in live |-> Moved(key, ix.resident[key])]
           planned == plan_refresh(ix, corpus, upto)
<1>1. planned = [[ix EXCEPT !.signature = None] EXCEPT
                   !.corpus = keys, !.resident = resident,
                   !.chunk_count = @ - CountOf(ix.resident, gone)]
  BY DEF plan_refresh, unsigned
<1>2. /\ DOMAIN ix = {"signature", "resident", "corpus", "chunk_count"}
      /\ IsFiniteSet(DOMAIN ix.resident)
      /\ ix.chunk_count = CountOf(ix.resident, DOMAIN ix.resident)
      /\ \A key \in DOMAIN ix.resident :
           /\ DOMAIN ix.resident[key] = {"built_from", "position", "chunks"}
           /\ IsResident(ix.resident[key]) /\ IsFiniteSet(ix.resident[key].chunks)
  BY DEF Resident
<1>3. /\ DOMAIN planned = {"signature", "resident", "corpus", "chunk_count"}
      /\ planned.signature = None /\ planned.corpus = keys /\ planned.resident = resident
      /\ planned.chunk_count = ix.chunk_count - CountOf(ix.resident, gone)
  <2> HIDE DEF resident, keys, gone
  <2> QED  BY <1>1, <1>2
<1> HIDE DEF planned
<1>4. DOMAIN keys = DOMAIN corpus /\ DOMAIN corpus \in SUBSET Nat
  BY KeysOf
<1>5. \A key \in live : place(key) \in DOMAIN corpus /\ keys[place(key)] = key
  <2> TAKE key \in live
  <2>1. \E slot \in DOMAIN keys : keys[slot] = key
    BY DEF Range
  <2> QED  BY <1>4, <2>1
<1> HIDE DEF place, MovesTo
<1>6. \A key \in live :
        /\ DOMAIN resident[key] = {"built_from", "position", "chunks"}
        /\ resident[key].built_from = ix.resident[key].built_from
        /\ resident[key].chunks = ix.resident[key].chunks
        /\ resident[key].position =
             IF MovesTo(key) THEN place(key) ELSE ix.resident[key].position
  <2> TAKE key \in live
  <2>1. DOMAIN ix.resident[key] = {"built_from", "position", "chunks"}
    BY <1>2
  <2> QED  BY <2>1
<1>7. DOMAIN resident = live
  OBVIOUS
<1> HIDE DEF resident
<1>8. \A key \in live : IsResident(resident[key]) /\ IsFiniteSet(resident[key].chunks)
  BY <1>2, <1>4, <1>5, <1>6 DEF IsResident
<1>9. IsFiniteSet(live)
  BY <1>2, FS_Subset
<1>10. planned.chunk_count = CountOf(resident, live)
  <2>1. CountOf(resident, live) = CountOf(ix.resident, live)
    BY <1>6, CountSame
  <2>2. /\ CountOf(ix.resident, live) \in Nat /\ CountOf(ix.resident, gone) \in Nat
        /\ CountOf(ix.resident, DOMAIN ix.resident) =
             CountOf(ix.resident, live) + CountOf(ix.resident, gone)
    <3>1. live \in SUBSET DOMAIN ix.resident
      OBVIOUS
    <3>2. /\ IsFiniteSet(DOMAIN ix.resident)
          /\ \A key \in DOMAIN ix.resident : IsFiniteSet(ix.resident[key].chunks)
      BY <1>2
    <3> HIDE DEF live, Moved
    <3>3. CountOf(ix.resident, live) \in Nat /\ CountOf(ix.resident, gone) \in Nat
      BY <3>1, <3>2, CountSplits
    <3> QED  BY <3>1, <3>2, <3>3, CountSplits
  <2> HIDE DEF gone, live
  <2> QED  BY <1>2, <1>3, <2>1, <2>2
<1>11. Resident(planned)
  <2> HIDE DEF live
  <2> QED  BY <1>3, <1>6, <1>7, <1>8, <1>9, <1>10 DEF Resident
<1>12. ASSUME upto = Len(corpus) + 1
       PROVE  Planned(planned, corpus, pending(ix, corpus))
  <2>1. ASSUME NEW slot \in DOMAIN corpus \ pending(ix, corpus)
        PROVE  IsBuilt(planned, corpus, slot)
    <3>1. /\ keys[slot] \in DOMAIN ix.resident
          /\ ix.resident[keys[slot]].built_from = corpus[slot].content
          /\ IsUnchanged(ix, corpus, slot)
      BY DEF pending, IsUnchanged
    <3>2. keys[slot] \in live
      <4>1. keys[slot] \in Range(keys)
        BY <1>4 DEF Range
      <4> QED  BY <3>1, <4>1
    <3>3. slot < upto
      <4>1. corpus \in Corpus
        BY RequestIsCorpus, KeysOf
      <4> QED  BY <1>12, <4>1 DEF Corpus
    <3>4. MovesTo(keys[slot])
      BY <1>4, <3>1, <3>3 DEF MovesTo
    <3>5. place(keys[slot]) = slot
      BY <1>5, <3>2, KeysInjective, KeysOf
    <3>6. ix.resident[keys[slot]].chunks = ChunksOf(corpus[slot].content)
          /\ corpus[slot].content # None
      BY <1>2, <3>1, CorporaAssumption DEF IsResident
    <3> HIDE DEF live, keys
    <3> QED  BY <1>3, <1>6, <1>7, <3>1, <3>2, <3>4, <3>5, <3>6 DEF IsBuilt, keys
  <2>2. DOMAIN planned.resident \subseteq Range(planned.corpus)
    BY <1>3, <1>7
  <2> QED  BY <1>3, <2>1, <2>2 DEF Planned
<1> QED  BY <1>3, <1>11, <1>12 DEF planned

(* A corpus that is resident whole is ranked on all its passages.          *)
LEMMA WholeIsRanked ==
  ASSUME NEW corpus \in Corpora, NEW ix, Resident(ix), Planned(ix, corpus, {})
  PROVE  Ranked(ix, corpus, 0)
<1> DEFINE keys == conversation_keys(corpus)
<1>1. /\ corpus \in Requests /\ DOMAIN keys = DOMAIN corpus /\ ix.corpus = keys
  BY KeysOf DEF Planned
<1>2. \A slot \in DOMAIN corpus :
        /\ keys[slot] \in DOMAIN ix.resident
        /\ ix.resident[keys[slot]].position = slot
        /\ ix.resident[keys[slot]].chunks = ChunksOf(corpus[slot].content)
  BY DEF Planned, IsBuilt
<1>3. DOMAIN ix.resident = Range(keys)
  BY <1>1, <1>2 DEF Planned, Range
<1>4. \A slot \in DOMAIN corpus : \A j \in DOMAIN corpus[slot].content :
        <<slot, j>> \in AllPlaces(corpus)
  BY DEF AllPlaces, Places
<1>5. CountOf(ix.resident, DOMAIN ix.resident) = Cardinality(AllPlaces(corpus))
  <2>1. \A slot \in DOMAIN corpus :
          ix.resident[keys[slot]].chunks =
            {<<i, corpus[slot].content[i]>> :
               i \in {j \in DOMAIN corpus[slot].content : <<slot, j>> \in AllPlaces(corpus)}}
    BY <1>2, <1>4 DEF ChunksOf
  <2> QED  BY <1>1, <1>3, <2>1, CountPlaces
<1>6. Cardinality(AllPlaces(corpus)) \in Nat
  <2>1. IsFiniteSet(AllPlaces(corpus))
    BY <1>1, PlacesFinite DEF AllPlaces
  <2> QED  BY <2>1, FS_CardinalityType
<1> HIDE DEF keys
<1> QED  BY <1>1, <1>2, <1>5, <1>6 DEF Ranked, Resident

(* The pending conversations, each of its slot.                            *)
LEMMA BuiltFacts ==
  ASSUME NEW content \in Seq(Passages), content # None, NEW slot \in Nat, NEW embedded
  PROVE  LET conversation == Built(content, slot, embedded)
         IN  /\ DOMAIN conversation = {"built_from", "position", "chunks"}
             /\ IsResident(conversation) /\ IsFiniteSet(conversation.chunks)
             /\ conversation.position = slot
             /\ conversation.chunks =
                  {chunk \in ChunksOf(content) : chunk[2] \in embedded}
             /\ conversation.built_from # None =>
                  conversation.chunks = ChunksOf(content)
<1> DEFINE chunks == {chunk \in ChunksOf(content) : chunk[2] \in embedded}
           conversation == Built(content, slot, embedded)
<1>1. conversation = [built_from |-> IF chunks = ChunksOf(content) THEN content ELSE None,
                      position |-> slot, chunks |-> chunks]
  BY DEF Built
<1>2. ChunksOf(content) \subseteq Nat \X Passages /\ IsFiniteSet(ChunksOf(content))
  <2>1. /\ DOMAIN content = 1 .. Len(content) /\ Len(content) \in Nat
        /\ \A i \in DOMAIN content : i \in Nat /\ content[i] \in Passages
    OBVIOUS
  <2>2. IsFiniteSet(DOMAIN content)
    BY <2>1, FS_Interval
  <2>3. [i \in DOMAIN content |-> <<i, content[i]>>]
          \in Surjection(DOMAIN content, ChunksOf(content))
    BY DEF Surjection, ChunksOf
  <2>4. IsFiniteSet(ChunksOf(content))
    BY <2>2, <2>3, FS_Surjection
  <2> QED  BY <2>1, <2>4 DEF ChunksOf
<1>3. chunks \subseteq ChunksOf(content) /\ IsFiniteSet(chunks)
  BY <1>2, FS_Subset
<1> HIDE DEF chunks
<1>4. /\ DOMAIN conversation = {"built_from", "position", "chunks"}
      /\ conversation.position = slot /\ conversation.chunks = chunks
      /\ conversation.built_from = IF chunks = ChunksOf(content) THEN content ELSE None
  BY <1>1
<1> HIDE DEF conversation
<1>5. IsResident(conversation)
  BY <1>2, <1>3, <1>4 DEF IsResident
<1> QED  BY <1>3, <1>4, <1>5 DEF conversation, chunks

LEMMA AbsorbFacts ==
  ASSUME NEW corpus \in Corpora, NEW ix, Resident(ix), ix.signature = None,
         NEW slots \in SUBSET DOMAIN corpus, Planned(ix, corpus, slots),
         NEW embedded, NEW rest,
         \A text \in Texts(corpus, Places(corpus, slots)) : text \in embedded <=> text \notin rest
  PROVE  /\ Resident(absorb(ix, corpus, slots, embedded))
         /\ Signed(absorb(ix, corpus, slots, embedded))
         /\ Ranked(absorb(ix, corpus, slots, embedded), corpus, CountIn(corpus, slots, rest))
<1> DEFINE keys == conversation_keys(corpus)
           mine == {ix.corpus[slot] : slot \in slots}
           at(key) == CHOOSE s \in slots : ix.corpus[s] = key
           built == [key \in mine |-> Built(corpus[at(key)].content, at(key), embedded)]
           D == DOMAIN ix.resident
           resident == [key \in D \cup mine |->
                          IF key \in mine THEN built[key] ELSE ix.resident[key]]
           count == ix.chunk_count + CountOf(built, mine) - CountOf(ix.resident, D \cap mine)
           absorbed == [ix EXCEPT !.resident = resident, !.chunk_count = count]
           y == absorb(ix, corpus, slots, embedded)
<1>1. /\ corpus \in Requests /\ DOMAIN keys = DOMAIN corpus /\ ix.corpus = keys
      /\ DOMAIN corpus \in SUBSET Nat /\ IsFiniteSet(Range(keys))
      /\ D \subseteq Range(keys)
      /\ \A slot \in DOMAIN corpus \ slots : IsBuilt(ix, corpus, slot)
  BY KeysOf DEF Planned
<1>2. /\ DOMAIN ix = {"signature", "resident", "corpus", "chunk_count"}
      /\ IsFiniteSet(D) /\ ix.chunk_count = CountOf(ix.resident, D)
      /\ \A key \in D :
           /\ DOMAIN ix.resident[key] = {"built_from", "position", "chunks"}
           /\ IsResident(ix.resident[key]) /\ IsFiniteSet(ix.resident[key].chunks)
  BY DEF Resident
<1>3. \A slot \in slots : keys[slot] \in mine /\ at(keys[slot]) = slot
  <2> TAKE slot \in slots
  <2>1. keys[slot] \in mine
    BY <1>1
  <2>2. at(keys[slot]) \in slots /\ keys[at(keys[slot])] = keys[slot]
    BY <1>1
  <2>3. at(keys[slot]) = slot
    BY <1>1, <2>2, KeysInjective
  <2> QED  BY <2>1, <2>3
<1>4. \A key \in mine : \E slot \in slots : key = keys[slot]
  BY <1>1
<1>5. y = [absorbed EXCEPT !.signature = IF is_complete(absorbed) THEN corpus ELSE None]
  BY DEF absorb
<1> HIDE DEF mine, at
<1>6. \A slot \in slots :
        /\ built[keys[slot]] = Built(corpus[slot].content, slot, embedded)
        /\ corpus[slot].content \in Seq(Passages) /\ slot \in Nat
        /\ corpus[slot].content # None
  BY <1>1, <1>3, CorpusContents, CorporaAssumption
<1>7. /\ DOMAIN resident = D \cup mine
      /\ \A key \in mine : resident[key] = built[key]
      /\ \A key \in D \ mine : resident[key] = ix.resident[key]
  OBVIOUS
<1> HIDE DEF built
<1>8. \A slot \in slots :
        LET conversation == resident[keys[slot]]
        IN  /\ DOMAIN conversation = {"built_from", "position", "chunks"}
            /\ IsResident(conversation) /\ IsFiniteSet(conversation.chunks)
            /\ conversation.position = slot
            /\ conversation.chunks =
                 {chunk \in ChunksOf(corpus[slot].content) : chunk[2] \in embedded}
            /\ conversation.built_from # None =>
                 conversation.chunks = ChunksOf(corpus[slot].content)
  <2> TAKE slot \in slots
  <2>1. resident[keys[slot]] = Built(corpus[slot].content, slot, embedded)
    BY <1>3, <1>6, <1>7
  <2> HIDE DEF resident
  <2> QED  BY <1>6, <2>1, BuiltFacts
<1> HIDE DEF resident
<1>9. \A slot \in DOMAIN corpus \ slots :
        /\ keys[slot] \in D \ mine
        /\ resident[keys[slot]] = ix.resident[keys[slot]]
        /\ resident[keys[slot]].position = slot
        /\ resident[keys[slot]].built_from # None
        /\ resident[keys[slot]].chunks = ChunksOf(corpus[slot].content)
  <2> TAKE slot \in DOMAIN corpus \ slots
  <2>1. keys[slot] \notin mine
    BY <1>1, <1>4, KeysInjective
  <2>2. /\ keys[slot] \in D /\ ix.resident[keys[slot]].position = slot
        /\ ix.resident[keys[slot]].built_from # None
        /\ ix.resident[keys[slot]].chunks = ChunksOf(corpus[slot].content)
    BY <1>1 DEF IsBuilt
  <2>3. resident[keys[slot]] = ix.resident[keys[slot]]
    BY <1>7, <2>1, <2>2
  <2> QED  BY <2>1, <2>2, <2>3
<1>10. DOMAIN resident = Range(keys)
  <2>1. mine \subseteq Range(keys)
    BY <1>1, <1>4 DEF Range
  <2>2. Range(keys) \subseteq D \cup mine
    BY <1>1, <1>3, <1>9 DEF Range
  <2> QED  BY <1>1, <1>7, <2>1, <2>2
<1>11. /\ IsFiniteSet(DOMAIN resident)
       /\ \A key \in DOMAIN resident :
            /\ DOMAIN resident[key] = {"built_from", "position", "chunks"}
            /\ IsResident(resident[key]) /\ IsFiniteSet(resident[key].chunks)
  <2>1. ASSUME NEW key \in DOMAIN resident
        PROVE  /\ DOMAIN resident[key] = {"built_from", "position", "chunks"}
               /\ IsResident(resident[key]) /\ IsFiniteSet(resident[key].chunks)
    <3>1. CASE key \in mine
      <4>1. PICK slot \in slots : key = keys[slot]
        BY <1>4, <3>1
      <4> HIDE DEF keys
      <4> QED  BY <1>8, <4>1
    <3>2. CASE key \notin mine
      BY <1>2, <1>7, <2>1, <3>2
    <3> QED  BY <3>1, <3>2
  <2> QED  BY <1>1, <1>10, <2>1
<1>12. count = CountOf(resident, DOMAIN resident)
  <2>1. count = ix.chunk_count + CountOf(built, mine) - CountOf(ix.resident, D \cap mine)
    OBVIOUS
  <2> HIDE DEF count, absorbed, y
  <2>2. \A key \in D \cup mine : IsFiniteSet(resident[key].chunks)
    BY <1>7, <1>11
  <2>3. \A key \in D : IsFiniteSet(ix.resident[key].chunks)
    BY <1>2
  <2>4. IsFiniteSet(D) /\ IsFiniteSet(D \cup mine)
    BY <1>2, <1>7, <1>11
  <2>5. CountOf(resident, mine) = CountOf(built, mine)
    BY <1>7, CountSame
  <2>6. CountOf(resident, D \ mine) = CountOf(ix.resident, D \ mine)
    BY <1>7, CountSame
  <2>7. /\ (D \cup mine) \ mine = D \ mine /\ D \ (D \cap mine) = D \ mine
        /\ mine \subseteq D \cup mine /\ D \cap mine \subseteq D
    OBVIOUS
  <2> HIDE DEF D
  <2>8. CountOf(resident, D \cup mine) =
          CountOf(resident, mine) + CountOf(resident, (D \cup mine) \ mine)
    BY <2>2, <2>4, <2>7, CountSplits
  <2>9. /\ CountOf(resident, mine) \in Nat
        /\ CountOf(resident, (D \cup mine) \ mine) \in Nat
    BY <2>2, <2>4, <2>7, CountSplits
  <2>10. CountOf(ix.resident, D) =
           CountOf(ix.resident, D \cap mine) + CountOf(ix.resident, D \ (D \cap mine))
    BY <2>3, <2>4, <2>7, CountSplits
  <2>11. /\ CountOf(ix.resident, D \cap mine) \in Nat
         /\ CountOf(ix.resident, D \ (D \cap mine)) \in Nat
    BY <2>3, <2>4, <2>7, CountSplits
  <2>12. CountOf(resident, (D \cup mine) \ mine) = CountOf(ix.resident, D \ mine)
         /\ CountOf(ix.resident, D \ (D \cap mine)) = CountOf(ix.resident, D \ mine)
    BY <2>6, <2>7
  <2>13. CountOf(resident, DOMAIN resident) = CountOf(resident, D \cup mine)
    BY <1>7
  <2> QED  BY <1>2, <2>1, <2>5, <2>8, <2>9, <2>10, <2>11, <2>12, <2>13
<1>13. /\ DOMAIN y = {"signature", "resident", "corpus", "chunk_count"}
       /\ y.corpus = keys /\ y.resident = resident /\ y.chunk_count = count
       /\ y.signature = IF is_complete(absorbed) THEN corpus ELSE None
       /\ absorbed.corpus = keys /\ absorbed.resident = resident
  <2> HIDE DEF count, keys, D, y
  <2>1. /\ DOMAIN absorbed = {"signature", "resident", "corpus", "chunk_count"}
        /\ absorbed.corpus = keys /\ absorbed.resident = resident
        /\ absorbed.chunk_count = count
    BY <1>1, <1>2
  <2> HIDE DEF absorbed
  <2> QED  BY <1>5, <2>1
<1> HIDE DEF absorbed, count, y
<1>14. Resident(y)
  BY <1>11, <1>12, <1>13 DEF Resident
<1>15. Signed(y)
  <2> SUFFICES ASSUME is_complete(absorbed)
               PROVE  y.signature = corpus /\ Planned(y, corpus, {})
    BY <1>13 DEF Signed
  <2>1. \A slot \in DOMAIN corpus : resident[keys[slot]].built_from # None
    BY <1>1, <1>13 DEF is_complete
  <2>2. \A slot \in DOMAIN corpus :
          /\ keys[slot] \in DOMAIN resident /\ resident[keys[slot]].position = slot
          /\ resident[keys[slot]].chunks = ChunksOf(corpus[slot].content)
    BY <1>1, <1>8, <1>9, <1>10, <2>1 DEF Range
  <2>3. \A slot \in DOMAIN corpus : IsBuilt(y, corpus, slot)
    BY <1>13, <2>1, <2>2 DEF IsBuilt
  <2> QED  BY <1>10, <1>13, <2>3 DEF Planned
<1>16. Ranked(y, corpus, CountIn(corpus, slots, rest))
  <2> DEFINE lacking == {place \in Places(corpus, slots) : Text(corpus, place) \in rest}
             kept == AllPlaces(corpus) \ lacking
  <2>1. \A slot \in DOMAIN corpus :
          /\ keys[slot] \in DOMAIN resident /\ resident[keys[slot]].position = slot
          /\ resident[keys[slot]].chunks \subseteq ChunksOf(corpus[slot].content)
    <3> TAKE slot \in DOMAIN corpus
    <3>1. keys[slot] \in DOMAIN resident
      BY <1>1, <1>10 DEF Range
    <3>2. CASE slot \in slots
      BY <1>8, <3>1, <3>2
    <3>3. CASE slot \notin slots
      BY <1>9, <3>1, <3>3
    <3> QED  BY <3>2, <3>3
  <2>2. \A slot \in DOMAIN corpus :
          resident[keys[slot]].chunks =
            {<<i, corpus[slot].content[i]>> :
               i \in {j \in DOMAIN corpus[slot].content : <<slot, j>> \in kept}}
    <3> TAKE slot \in DOMAIN corpus
    <3>1. \A j \in DOMAIN corpus[slot].content :
            /\ <<slot, j>> \in AllPlaces(corpus)
            /\ Text(corpus, <<slot, j>>) = corpus[slot].content[j]
      BY DEF AllPlaces, Places, Text
    <3>2. CASE slot \in slots
      <4>1. \A j \in DOMAIN corpus[slot].content :
              /\ <<slot, j>> \in Places(corpus, slots)
              /\ corpus[slot].content[j] \in Texts(corpus, Places(corpus, slots))
        BY <3>1, <3>2 DEF Places, Texts
      <4>2. \A j \in DOMAIN corpus[slot].content :
              <<slot, j>> \in kept <=> corpus[slot].content[j] \in embedded
        BY <3>1, <4>1
      <4>3. resident[keys[slot]].chunks =
              {chunk \in ChunksOf(corpus[slot].content) : chunk[2] \in embedded}
        BY <1>8, <3>2
      <4> HIDE DEF kept
      <4> QED  BY <4>2, <4>3 DEF ChunksOf
    <3>3. CASE slot \notin slots
      <4>1. \A j \in DOMAIN corpus[slot].content : <<slot, j>> \notin Places(corpus, slots)
        BY <3>3 DEF Places
      <4>2. \A j \in DOMAIN corpus[slot].content : <<slot, j>> \in kept
        BY <3>1, <4>1
      <4>3. resident[keys[slot]].chunks = ChunksOf(corpus[slot].content)
        BY <1>9, <3>3
      <4> HIDE DEF kept
      <4> QED  BY <4>2, <4>3 DEF ChunksOf
    <3> QED  BY <3>2, <3>3
  <2>3. lacking \subseteq AllPlaces(corpus)
    BY DEF Places, AllPlaces
  <2>4. kept \in SUBSET AllPlaces(corpus)
    OBVIOUS
  <2>5. IsFiniteSet(AllPlaces(corpus)) /\ IsFiniteSet(lacking)
    <3>1. IsFiniteSet(AllPlaces(corpus))
      BY <1>1, PlacesFinite DEF AllPlaces
    <3> HIDE DEF lacking
    <3> QED  BY <2>3, <3>1, FS_Subset
  <2>6. CountOf(resident, DOMAIN resident) = Cardinality(kept)
    <3> HIDE DEF kept
    <3> QED  BY <1>1, <1>10, <2>2, <2>4, CountPlaces
  <2>7. Cardinality(kept) + CountIn(corpus, slots, rest) = Cardinality(AllPlaces(corpus))
    <3>1. CountIn(corpus, slots, rest) = Cardinality(lacking)
      BY DEF CountIn
    <3>2. AllPlaces(corpus) \cap lacking = lacking
      BY <2>3
    <3> HIDE DEF lacking
    <3>3. /\ Cardinality(kept) = Cardinality(AllPlaces(corpus))
                                   - Cardinality(AllPlaces(corpus) \cap lacking)
          /\ Cardinality(AllPlaces(corpus)) \in Nat /\ Cardinality(lacking) \in Nat
      BY <2>5, FS_Difference, FS_CardinalityType
    <3>4. Cardinality(AllPlaces(corpus) \cap lacking) = Cardinality(lacking)
      BY <3>2
    <3> HIDE DEF kept
    <3> QED  BY <3>1, <3>3, <3>4
  <2> HIDE DEF kept, lacking, keys
  <2> QED  BY <1>1, <1>12, <1>13, <2>1, <2>6, <2>7 DEF Ranked
<1> QED  BY <1>14, <1>15, <1>16 DEF y

-----------------------------------------------------------------------------
(* Steps *)

Alone(p) ==
  \A q \in Process \ {p} : index'[q] = index[q] /\ run'[q] = run[q]

LEMMA ReadStepKeeps ==
  ASSUME ReadInv, NEW p \in Process, Alone(p), Readable(index'[p], run'[p])
  PROVE  ReadInv'
<1>1. \A q \in Process : Readable(index'[q], run'[q])
  BY DEF Alone, ReadInv
<1> QED  BY <1>1 DEF ReadInv

LEMMA NoPassagesFacts == Resident(NoPassages) /\ Signed(NoPassages)
<1>1. /\ NoPassages.resident = <<>> /\ NoPassages.chunk_count = 0
      /\ NoPassages.signature = None
      /\ DOMAIN NoPassages = {"signature", "resident", "corpus", "chunk_count"}
  BY DEF NoPassages
<1>2. DOMAIN NoPassages.resident = {}
  BY <1>1
<1>3. CountOf(NoPassages.resident, {}) = 0
  <2>1. UNION {{key} \X NoPassages.resident[key].chunks : key \in {}} = {}
    OBVIOUS
  <2> QED  BY <2>1, FS_EmptySet DEF CountOf
<1> QED  BY <1>1, <1>2, <1>3, FS_EmptySet DEF Resident, Signed

LEMMA IdleReads ==
  ASSUME NEW x, NEW r, Resident(x.passages), Signed(x.passages),
         r.pc \notin {"request", "embed", "rank"}
  PROVE  Readable(x, r)
BY DEF Readable

LEMMA RequestReads ==
  ASSUME NEW x, NEW kind, NEW corpus \in Corpora, NEW budget,
         Resident(x.passages), Signed(x.passages)
  PROVE  Readable(x, Request(kind, corpus, budget))
<1> DEFINE r == Request(kind, corpus, budget)
<1>1. r.pc = "request" /\ r.request = corpus /\ r.missing = 0
  BY DEF Request, Idle
<1> HIDE DEF r
<1>2. Readable(x, r)
  BY <1>1 DEF Readable
<1> QED  BY <1>2 DEF r

LEMMA ReadAtInit ==
  ASSUME Init
  PROVE  ReadInv
<1>1. Off.pc = "off" /\ Fresh.passages = NoPassages
  BY IdleFacts DEF Fresh
<1>2. Readable(Fresh, Off)
  BY <1>1, NoPassagesFacts, IdleReads
<1> QED  BY <1>2 DEF Init, ReadInv

LEMMA ReadAtStart ==
  ASSUME Inv, ReadInv, NEW p \in Process, NEW started, NEW cache, Start(p, started, cache),
         \/ started = Idle
         \/ \E corpus \in Corpora : \E kind, budget : started = Request(kind, corpus, budget)
  PROVE  ReadInv'
<1>1. index[p].passages = NoPassages /\ DOMAIN index[p] = {"cache", "passages"}
  BY TypedAt DEF Typed, Start
<1>2. /\ Alone(p) /\ run'[p] = started /\ index'[p] = [index[p] EXCEPT !.cache = cache]
  BY DEF Start, Inv, Alone
<1>3. index'[p].passages = NoPassages
  BY <1>1, <1>2
<1>4. Readable(index'[p], started)
  <2>1. CASE started = Idle
    BY <1>3, <2>1, NoPassagesFacts, IdleFacts, IdleReads
  <2>2. CASE \E corpus \in Corpora : \E kind, budget : started = Request(kind, corpus, budget)
    BY <1>3, <2>2, NoPassagesFacts, RequestReads
  <2> QED  BY <2>1, <2>2
<1> QED  BY <1>2, <1>4, ReadStepKeeps

LEMMA ReadableAt ==
  ASSUME ReadInv, NEW p \in Process
  PROVE  Readable(index[p], run[p]) /\ Resident(index[p].passages) /\ Signed(index[p].passages)
BY DEF ReadInv, Readable

LEMMA ReadAtSearch ==
  ASSUME Inv, ReadInv, NEW p \in Process, NEW corpus \in Corpora, Search(p, corpus)
  PROVE  ReadInv'
<1>1. /\ Alone(p) /\ index'[p] = index[p]
      /\ run'[p] = Request("list", corpus, "unbounded")
  BY DEF Search, Inv, Alone
<1>2. Readable(index[p], Request("list", corpus, "unbounded"))
  BY ReadableAt, RequestReads
<1> QED  BY <1>1, <1>2, ReadStepKeeps

LEMMA ReadAtClear ==
  ASSUME Inv, ReadInv, NEW p \in Process, clear_empty(p)
  PROVE  ReadInv'
<1> DEFINE ix == [NoPassages EXCEPT !.signature = run[p].request]
<1>1. /\ Alone(p) /\ run'[p] = Idle /\ run[p].pc = "request"
      /\ index'[p] = [index[p] EXCEPT !.passages = ix]
      /\ DOMAIN index[p] = {"cache", "passages"}
  BY TypedAt DEF clear_empty, Inv, Alone
<1>2. run[p].request \in Corpora
  BY <1>1, ReadableAt DEF Readable
<1>3. /\ DOMAIN NoPassages = {"signature", "resident", "corpus", "chunk_count"}
      /\ NoPassages.chunk_count = 0
  BY DEF NoPassages
<1>4. /\ DOMAIN ix = DOMAIN NoPassages /\ ix.resident = NoPassages.resident
      /\ ix.chunk_count = NoPassages.chunk_count /\ ix.signature = run[p].request
  BY <1>3
<1> HIDE DEF ix
<1>5. Resident(ix) /\ Signed(ix)
  BY <1>2, <1>3, <1>4, NoPassagesFacts DEF Resident, Signed
<1>6. index'[p].passages = ix
  BY <1>1
<1>7. Readable(index'[p], Idle)
  BY <1>5, <1>6, IdleFacts, IdleReads
<1> QED  BY <1>1, <1>7, ReadStepKeeps

LEMMA ReadAtFresh ==
  ASSUME Inv, ReadInv, NEW p \in Process, AlreadyFresh(p)
  PROVE  ReadInv'
<1> DEFINE r == [run[p] EXCEPT !.pc = "rank"]
           ix == index[p].passages
<1>1. /\ Alone(p) /\ index'[p] = index[p] /\ run'[p] = r /\ run[p].pc = "request"
      /\ ix.signature # None /\ ix.signature = run[p].request
      /\ run[p].kind = "list" => has_chunks(p)
      /\ signature_matches(p)
  BY DEF AlreadyFresh, IsRefreshing, signature_matches, Inv, Alone
<1>2. /\ r.pc = "rank" /\ r.request = run[p].request /\ r.missing = run[p].missing
  BY TypedAt DEF Run
<1>3. ix # NoPassages
  BY <1>1 DEF NoPassages
<1>4. run[p].kind = "list"
  BY <1>1, <1>3, TypedAt DEF Local, Generating, Answering, Run
<1>5. ix.chunk_count > 0
  BY <1>1, <1>4 DEF has_chunks
<1>6. /\ run[p].request \in Corpora /\ run[p].missing = 0
      /\ Resident(ix) /\ Planned(ix, run[p].request, {})
  BY <1>1, <1>5, ReadableAt DEF Readable, Signed
<1>7. Ranked(ix, run[p].request, 0)
  BY <1>6, WholeIsRanked
<1> HIDE DEF r
<1>8. Readable(index[p], r)
  BY <1>2, <1>6, <1>7, ReadableAt DEF Readable
<1> QED  BY <1>1, <1>8, ReadStepKeeps

(* A step that leaves the passages, or what a cancelled plan made of them. *)
LEMMA ReadAtRest ==
  ASSUME Inv, ReadInv, NEW p \in Process,
         \/ CancelRequest(p) \/ StopBatch(p) \/ Rank(p) \/ ProtectCore(p) \/ Exit(p)
         \/ \E upto : CancelPlan(p, upto)
         \/ \E place : CancelLookUp(p, place)
  PROVE  ReadInv'
<1>1. Alone(p)
  BY DEF CancelRequest, StopBatch, save_pending_cache, Rank, ProtectCore, Exit, CancelPlan,
         CancelLookUp, Write, Keep, Inv, Alone
<1>2. run'[p].pc \in {"idle", "failed", "done", "off"}
  <2>1. /\ [run[p] EXCEPT !.pc = "done"].pc = "done"
        /\ [run[p] EXCEPT !.pc = "failed"].pc = "failed"
    BY TypedAt DEF Run
  <2>2. run'[p] \in {Idle, Off, [run[p] EXCEPT !.pc = "done"], [run[p] EXCEPT !.pc = "failed"]}
    BY DEF CancelRequest, StopBatch, Rank, ProtectCore, Exit, CancelPlan, CancelLookUp, Ended,
           Inv
  <2> QED  BY <2>1, <2>2, IdleFacts
<1>3. \/ index'[p].passages = index[p].passages
      \/ index'[p].passages = NoPassages
      \/ /\ run[p].pc = "request"
         /\ \E upto : index'[p].passages = plan_refresh(index[p].passages, run[p].request, upto)
  <2>1. CASE CancelRequest(p) \/ StopBatch(p) \/ Rank(p) \/ ProtectCore(p)
    BY <2>1, TypedAt DEF CancelRequest, StopBatch, save_pending_cache, Rank, ProtectCore,
                         Write, Keep, Inv
  <2>2. CASE Exit(p)
    BY <2>2 DEF Exit, Fresh, Inv
  <2>3. CASE \E upto : CancelPlan(p, upto)
    BY <2>3, TypedAt DEF CancelPlan, IsPlanning, IsRefreshing, Inv
  <2>4. CASE \E place : CancelLookUp(p, place)
    <3>1. PICK cache : index'[p] =
            [cache |-> cache,
             passages |-> plan_refresh(index[p].passages, run[p].request,
                                       Len(run[p].request) + 1)]
      BY <2>4 DEF CancelLookUp, Inv
    <3>2. run[p].pc = "request"
      BY <2>4 DEF CancelLookUp, IsPlanning, IsRefreshing
    <3> QED  BY <3>1, <3>2
  <2> QED  BY <2>1, <2>2, <2>3, <2>4
<1>4. run[p].pc = "request" => run[p].request \in Corpora
  BY ReadableAt DEF Readable
<1>5. Resident(index'[p].passages) /\ Signed(index'[p].passages)
  BY <1>3, <1>4, ReadableAt, NoPassagesFacts, PlanFacts DEF Signed
<1>6. Readable(index'[p], run'[p])
  BY <1>2, <1>5, IdleReads
<1> QED  BY <1>1, <1>6, ReadStepKeeps

LEMMA ReadAtRefresh ==
  ASSUME Inv, ReadInv, NEW p \in Process, Refresh(p)
  PROVE  ReadInv'
<1> DEFINE old == index[p]
           now == run[p]
           corpus == now.request
           slots == pending(old.passages, corpus)
           texts == Texts(corpus, Places(corpus, slots))
           hits == texts \cap Cached(old.cache)
           cut == IF now.budget = "none" THEN texts \ hits ELSE {}
           misses == texts \ (hits \cup cut)
           planned == plan_refresh(old.passages, corpus, Len(corpus) + 1)
           ix == IF misses # {} THEN planned ELSE absorb(planned, corpus, slots, hits)
           embeds == [now EXCEPT !.pc = "embed", !.pending = slots, !.misses = misses,
                                 !.embedded = hits]
           ranks == [now EXCEPT !.pc = "rank", !.missing = CountIn(corpus, slots, cut)]
<1>1. /\ Alone(p) /\ now.pc = "request"
      /\ run'[p] = IF misses # {} THEN embeds ELSE ranks
  BY DEF Refresh, IsPlanning, IsRefreshing, Inv, Alone
<1>2. index'[p].passages = ix
  <2>1. PICK cache : index'[p] = [cache |-> cache, passages |-> ix]
    BY DEF Refresh, Inv
  <2> HIDE DEF ix
  <2> QED  BY <2>1
<1>3. corpus \in Corpora /\ Resident(old.passages)
  BY <1>1, ReadableAt DEF Readable
<1>4. /\ Resident(planned) /\ planned.signature = None /\ Planned(planned, corpus, slots)
  BY <1>3, PlanFacts
<1>5. slots \in SUBSET DOMAIN corpus
  BY DEF pending
<1>6. /\ texts \subseteq hits \cup (misses \cup cut) /\ cut \cap hits = {}
      /\ misses # {} => cut = {}
      /\ misses = {} => \A text \in texts : text \in hits <=> text \notin cut
  OBVIOUS
<1>7. run[p] \in Run
  BY TypedAt
<1> HIDE DEF slots, texts, hits, cut, misses, planned
<1>8. CASE misses # {}
  <2>1. /\ embeds.pc = "embed" /\ embeds.request = corpus /\ embeds.pending = slots
        /\ embeds.misses = misses /\ embeds.embedded = hits
    BY <1>7 DEF Run
  <2>2. ix = planned
    BY <1>8
  <2> HIDE DEF embeds, ix, corpus
  <2>3. Readable(index'[p], embeds)
    BY <1>2, <1>3, <1>4, <1>6, <1>8, <2>1, <2>2 DEF Readable, Signed, texts
  <2> QED  BY <1>1, <1>8, <2>3, ReadStepKeeps
<1>9. CASE misses = {}
  <2>1. /\ ranks.pc = "rank" /\ ranks.request = corpus
        /\ ranks.missing = CountIn(corpus, slots, cut)
    BY <1>7 DEF Run
  <2>2. ix = absorb(planned, corpus, slots, hits)
    BY <1>9
  <2> HIDE DEF ranks, ix, corpus
  <2>3. Resident(ix) /\ Signed(ix) /\ Ranked(ix, corpus, CountIn(corpus, slots, cut))
    BY <1>3, <1>4, <1>5, <1>6, <1>9, <2>2, AbsorbFacts DEF texts
  <2>4. Readable(index'[p], ranks)
    BY <1>2, <1>3, <2>1, <2>3 DEF Readable
  <2> QED  BY <1>1, <1>9, <2>4, ReadStepKeeps
<1> QED  BY <1>8, <1>9

LEMMA ReadAtBatch ==
  ASSUME Inv, ReadInv, NEW p \in Process, NEW stops \in BOOLEAN, Batch(p, stops)
  PROVE  ReadInv'
<1> DEFINE now == run[p]
           old == index[p].passages
           batch == FirstOf(now.request, Places(now.request, now.pending), now.misses,
                            BatchSize)
           completed == now.completed + Cardinality(batch)
           rest == now.misses \ batch
           embedded == now.embedded \cup batch
           missing == CountIn(now.request, now.pending, rest)
           ix == IF stops \/ rest = {}
                 THEN absorb(old, now.request, now.pending, embedded)
                 ELSE old
           ends == [Request(now.kind, now.request, now.budget) EXCEPT
                      !.pc = "rank", !.embedded = embedded, !.missing = missing]
<1>1. /\ Alone(p) /\ now.pc = "embed"
  BY DEF Batch, Inv, Alone
<1>2. index'[p].passages = ix
  <2>1. PICK cache : index'[p] = [cache |-> cache, passages |-> ix]
    BY DEF Batch, Inv
  <2> HIDE DEF ix
  <2> QED  BY <2>1
<1>3. \E saves \in BOOLEAN :
        run'[p] = IF stops \/ rest = {} THEN ends
                  ELSE [now EXCEPT !.misses = rest, !.embedded = embedded,
                          !.completed = completed,
                          !.last_saved = IF saves THEN completed ELSE @]
  BY DEF Batch, Inv, IsSaveDue
<1>4. /\ now.request \in Corpora /\ Resident(old) /\ Signed(old) /\ old.signature = None
      /\ Planned(old, now.request, now.pending)
      /\ Texts(now.request, Places(now.request, now.pending)) \subseteq
           now.embedded \cup now.misses
  BY <1>1, ReadableAt DEF Readable
<1>5. /\ now \in Run /\ now.pending \in SUBSET DOMAIN now.request
      /\ now.misses \cap now.embedded = {}
  BY <1>1, TypedAt DEF Local, Typed, Missed
<1>6. batch \subseteq now.misses
  BY DEF FirstOf
<1> HIDE DEF batch
<1>7. /\ embedded \cap rest = {}
      /\ Texts(now.request, Places(now.request, now.pending)) \subseteq embedded \cup rest
  BY <1>4, <1>5, <1>6
<1>8. CASE stops \/ rest = {}
  <2> HIDE DEF rest, embedded, missing
  <2>1. /\ ends.pc = "rank" /\ ends.request = now.request /\ ends.missing = missing
    BY DEF Request, Idle
  <2>2. run'[p] = ends /\ ix = absorb(old, now.request, now.pending, embedded)
    BY <1>3, <1>8
  <2> HIDE DEF ends, ix
  <2>3. Resident(ix) /\ Signed(ix) /\ Ranked(ix, now.request, missing)
    BY <1>4, <1>5, <1>7, <2>2, AbsorbFacts DEF missing
  <2>4. Readable(index'[p], ends)
    BY <1>2, <1>4, <2>1, <2>3 DEF Readable
  <2> QED  BY <1>1, <2>2, <2>4, ReadStepKeeps
<1>9. CASE ~(stops \/ rest = {})
  <2> HIDE DEF rest, embedded, completed
  <2>1. /\ run'[p].pc = "embed" /\ run'[p].request = now.request
        /\ run'[p].pending = now.pending /\ run'[p].misses = rest
        /\ run'[p].embedded = embedded
    BY <1>1, <1>3, <1>5, <1>9 DEF Run
  <2>2. ix = old
    BY <1>9
  <2> HIDE DEF ix
  <2>3. Readable(index'[p], run'[p])
    BY <1>2, <1>4, <1>7, <2>1, <2>2 DEF Readable
  <2> QED  BY <1>1, <2>3, ReadStepKeeps
<1> QED  BY <1>8, <1>9

-----------------------------------------------------------------------------
(* The theorems *)

LEMMA ReadNext ==
  ASSUME Inv, ReadInv, [Next]_vars
  PROVE  ReadInv'
<1>1. CASE clear_cache
  BY <1>1 DEF clear_cache, ReadInv
<1>2. ASSUME NEW p \in Process, StartList(p) PROVE ReadInv'
  BY <1>2, ReadAtStart DEF StartList
<1>3. ASSUME NEW p \in Process, NEW corpus \in Corpora, NEW budget \in {"none", "time"},
             StartAgent(p, corpus, budget)
      PROVE  ReadInv'
  BY <1>3, ReadAtStart DEF StartAgent
<1>4. ASSUME NEW p \in Process, NEW corpus \in Corpora, StartGenerate(p, corpus)
      PROVE  ReadInv'
  BY <1>4, ReadAtStart DEF StartGenerate
<1>5. ASSUME NEW p \in Process, NEW corpus \in Corpora, Search(p, corpus) PROVE ReadInv'
  BY <1>5, ReadAtSearch
<1>6. ASSUME NEW p \in Process, clear_empty(p) PROVE ReadInv'
  BY <1>6, ReadAtClear
<1>7. ASSUME NEW p \in Process, AlreadyFresh(p) PROVE ReadInv'
  BY <1>7, ReadAtFresh
<1>8. ASSUME NEW p \in Process, Refresh(p) PROVE ReadInv'
  BY <1>8, ReadAtRefresh
<1>9. ASSUME NEW p \in Process, NEW stops \in BOOLEAN, Batch(p, stops) PROVE ReadInv'
  BY <1>9, ReadAtBatch
<1>10. ASSUME NEW p \in Process,
              \/ CancelRequest(p) \/ StopBatch(p) \/ Rank(p) \/ ProtectCore(p) \/ Exit(p)
              \/ \E upto : CancelPlan(p, upto)
              \/ \E place : CancelLookUp(p, place)
       PROVE  ReadInv'
  BY <1>10, ReadAtRest
<1>11. CASE UNCHANGED vars
  BY <1>11 DEF ReadInv, vars
<1> QED
  BY <1>1, <1>2, <1>3, <1>4, <1>5, <1>6, <1>7, <1>8, <1>9, <1>10, <1>11 DEF Next

(* The inductive invariant of the resident passages.                       *)
THEOREM SpecReadInv == Spec => []ReadInv
<1>1. Init => ReadInv
  BY ReadAtInit
<1>2. Inv /\ ReadInv /\ [Next]_vars => ReadInv'
  BY ReadNext
<1> QED  BY <1>1, <1>2, SpecInv, PTL DEF Spec

(* Cache, passages and run stay of their types: among them, a conversation *)
(* counts as built only with all its chunks (absorb of                     *)
(* semantic/index/resident.rs).                                            *)
THEOREM TypeCorrect == Spec => []TypeOK
<1>1. Inv /\ ReadInv => TypeOK
  <2> SUFFICES ASSUME Inv, ReadInv PROVE TypeOK
    OBVIOUS
  <2>1. IsCache(disk)
    BY DEF Inv, CacheInv
  <2>2. ASSUME NEW p \in Process
        PROVE  /\ IsCache(index[p].cache)
               /\ run[p].pending \subseteq DOMAIN run[p].request
               /\ run[p].last_saved \in 0 .. run[p].completed
    BY TypedAt DEF Typed, CacheInv, Run
  <2>3. ASSUME NEW p \in Process
        PROVE  /\ run[p].pc \in {"off", "idle", "request", "embed", "rank", "failed", "done"}
               /\ run[p].kind \in {"list", "agent", "generate"}
               /\ run[p].request \in Corpora \cup {<<>>}
               /\ run[p].budget \in {"unbounded", "none", "time"}
               /\ run[p].misses \subseteq Passages /\ run[p].embedded \subseteq Passages
               /\ run[p].missing \in Nat /\ run[p].completed \in Nat
               /\ history[p].known \subseteq Passages /\ history[p].saved \subseteq Passages
    BY TypedAt DEF Run, Requests
  <2>4. ASSUME NEW p \in Process
        PROVE  /\ index[p].passages.signature \in Corpora \cup {None}
               /\ index[p].passages.chunk_count \in Nat
               /\ \A key \in DOMAIN index[p].passages.resident :
                    IsResident(index[p].passages.resident[key])
    <3> DEFINE ix == index[p].passages
    <3>1. Resident(ix) /\ Signed(ix)
      BY ReadableAt
    <3>2. CountOf(ix.resident, DOMAIN ix.resident) \in Nat
      BY <3>1, PairsFinite DEF Resident
    <3> QED  BY <3>1, <3>2 DEF Resident, Signed
  <2> QED  BY <2>1, <2>2, <2>3, <2>4 DEF TypeOK
<1> QED  BY <1>1, SpecInv, SpecReadInv, PTL

(* What a ranking reads is true of the corpus it was asked for: each       *)
(* session's own chunks, at its place, and with what is reported missing   *)
(* all of them (plan_refresh and absorb of semantic/index/resident.rs).    *)
THEOREM RankingIsTrue == Spec => []RankedIsTrue
<1>1. ReadInv => RankedIsTrue
  BY DEF ReadInv, Readable, Ranked, RankedIsTrue
<1> QED  BY <1>1, SpecReadInv, PTL

=============================================================================
