-------------------------- MODULE SearchShownProofs --------------------------
(***************************************************************************)
(* Proofs about what SearchPipeline shows: a search ranks the versions it  *)
(* was sent with (RankedOnItsOwnVersions), and the rows on screen answer   *)
(* the query that they are said to (ShownQueryIsTrue).                     *)
(*                                                                         *)
(* A corpus version has one layout, and a scope version one scope, whoever *)
(* holds them (VersionsAgree).  At most one search of the current          *)
(* generation is on its way to, at or back from the semantic worker        *)
(* (OneSearch).  It is the prewarm that App waits for, or it asks for the  *)
(* query dispatched last, in a scope with the filter there is now          *)
(* (SemanticAsks); so does every search and answer of this generation in   *)
(* the lexical channels (LexicalAsks).  A prewarm is alone: a query typed  *)
(* over it starts a generation (PrewarmAlone).                             *)
(***************************************************************************)
EXTENDS SearchPipelineProofs

(* What the semantic worker has still to take.                             *)
Queue(a) == a.worker_tx \o a.sending
InQueue(a, m) == \E i \in 1 .. Len(Queue(a)) : Queue(a)[i] = m

-----------------------------------------------------------------------------
(* Versions *)

(* App, the worker, or a message between them, has this scope under this   *)
(* version; this layout under this corpus version.                         *)
HoldsScope(a, w, version, scope) ==
  /\ scope # None
  /\ \/ version = a.scope_version /\ scope = a.sent_scope
     \/ version = w.scope_version /\ scope = w.scope
     \/ \E m : /\ InQueue(a, m) /\ m.type = "UpdateScope"
               /\ version = m.scope_version /\ scope = m.scope

HoldsCorpus(a, w, version, layout) ==
  \/ version = a.corpus_version /\ layout = a.layout
  \/ version = w.corpus_version /\ layout = w.layout /\ version # 0
  \/ \E m : /\ InQueue(a, m) /\ m.type = "UpdateCorpus"
            /\ version = m.corpus_version /\ layout = m.layout
  \/ \E v, scope : /\ HoldsScope(a, w, v, scope)
                   /\ version = scope.corpus_version /\ layout = scope.layout

VersionsAgree(a, w) ==
  /\ \A v, layout : HoldsCorpus(a, w, v, layout) => v \in 1 .. a.corpus_version
  /\ \A v, layout, other :
       HoldsCorpus(a, w, v, layout) /\ HoldsCorpus(a, w, v, other)
         => layout = other
  /\ \A v, scope : HoldsScope(a, w, v, scope) => v \in 0 .. a.scope_version
  /\ \A v, scope, other :
       HoldsScope(a, w, v, scope) /\ HoldsScope(a, w, v, other)
         => scope = other

(* A search on its way to the worker, at it or parked there.               *)
IsSearch(a, w, m) ==
  \/ InQueue(a, m) /\ m.type = "Search"
  \/ m # None /\ (m = w.request \/ m = w.pending_search)

SearchesKnown(a, w) ==
  \A m : IsSearch(a, w, m) =>
    m.generation >= 1 /\ m.scope_version \in 0 .. a.scope_version

(* What the worker has to be true of itself.                               *)
WorkerKnows(w) ==
  /\ w.scope # None => w.scope_corpus_version = w.scope.corpus_version
  /\ ~w.alive => w.request = None
  /\ w.alive /\ w.pc \in {"chosen", "running"}
       => w.scope_corpus_version = w.corpus_version

(* The search that App waits for has a token that nobody cancelled.        *)
NotCancelled(a, w) ==
  /\ w.alive /\ w.pc = "running" /\ a.pending = w.request.generation
  => ~a.cancelled

Told(a, w) == VersionsAgree(a, w) /\ SearchesKnown(a, w)

-----------------------------------------------------------------------------
(* The rows on screen *)

ShowsWhatItSays(a) ==
  /\ a.filtered.query = (IF a.shown_query = None THEN Empty ELSE a.shown_query)
  /\ a.dispatched \in Text \cup {None}

(* Answers, of any App.                                                    *)
AnswersIn(a) ==
  /\ a.filtered.layout = a.layout
  /\ a.filtered.filter = a.filter
  /\ \/ a.filtered.query = Empty /\ a.filtered.by = "lexical"
     \/ a.filtered.query \in SessionIds /\ a.filtered.by = "lookup"
     \/ /\ a.filtered.query \in Text /\ a.mode = "Lexical"
        /\ a.filtered.by = "lexical"
     \/ /\ a.filtered.query \in Text /\ a.mode = "Semantic"
        /\ a.filtered.by \in {"semantic", "failed"}

Rows(a) == ShowsWhatItSays(a) /\ (a.settled => AnswersIn(a))

-----------------------------------------------------------------------------
(* The searches of the current generation *)

AsksForDispatched(a, query) == query = a.dispatched /\ a.dispatched \in Text

(* The prewarm, or the query dispatched last.                              *)
Asks(a, m) ==
  IF m.prewarm THEN a.prewarm = a.generation ELSE AsksForDispatched(a, m.query)

IsCurrent(a, w, m) == IsSearch(a, w, m) /\ m.generation = a.generation

SemanticAsks(a, w) ==
  \A m : IsCurrent(a, w, m) =>
    /\ Asks(a, m)
    /\ \A scope : HoldsScope(a, w, m.scope_version, scope)
                    => scope.filter = a.filter

IsAnswer(a, i) ==
  /\ i \in 1 .. Len(a.worker_rx)
  /\ a.worker_rx[i].type = "Complete"
  /\ a.worker_rx[i].generation = a.generation

SemanticAnswers(a) ==
  \A i : IsAnswer(a, i) =>
    /\ a.generation # NoGeneration
    /\ Asks(a, a.worker_rx[i]) /\ a.worker_rx[i].filter = a.filter

LexicalAsks(a, lx) ==
  /\ \A i \in 1 .. Len(a.search_tx) :
       ~IsData(a.search_tx[i]) /\ a.search_tx[i].generation = a.generation
         => AsksForDispatched(a, a.search_tx[i].query)
  /\ lx.request # None /\ lx.request.generation = a.generation
       => AsksForDispatched(a, lx.request.query)
  /\ \A i \in 1 .. Len(a.search_rx) :
       a.search_rx[i].generation = a.generation
         => AsksForDispatched(a, a.search_rx[i].query)

QueueHas(a, i) ==
  /\ i \in 1 .. Len(Queue(a))
  /\ Queue(a)[i].type = "Search"
  /\ Queue(a)[i].generation = a.generation
IsRequest(a, m) == m # None /\ m.generation = a.generation

OneSearch(a, w) ==
  /\ \A i, j : QueueHas(a, i) /\ QueueHas(a, j) => i = j
  /\ \A i, j : IsAnswer(a, i) /\ IsAnswer(a, j) => i = j
  /\ \A i, j : ~(QueueHas(a, i) /\ IsAnswer(a, j))
  /\ IsRequest(a, w.request) =>
       /\ \A i : ~QueueHas(a, i) /\ ~IsAnswer(a, i)
       /\ ~IsRequest(a, w.pending_search)
  /\ IsRequest(a, w.pending_search) =>
       \A i : ~QueueHas(a, i) /\ ~IsAnswer(a, i)

(* What waits to be sent is the current search.                            *)
SendingIsCurrent(a) ==
  a.sending # <<>> =>
    LET search == a.sending[Len(a.sending)]
    IN  /\ search.generation = a.generation
        /\ ~search.prewarm => search.query = a.query

(* A prewarm is of a generation that no query was dispatched in; the query *)
(* typed over one that is not over starts a generation.                    *)
IsPrewarming(a) == a.prewarm = a.generation /\ a.generation # NoGeneration
PrewarmFirst(a) ==
  a.prewarm <= a.generation /\ (IsPrewarming(a) => a.dispatched = None)
PrewarmAlone(a) == IsPrewarming(a) => a.query = Empty /\ ~a.loading

SemanticSide(a, w) ==
  SemanticAsks(a, w) /\ SemanticAnswers(a) /\ OneSearch(a, w)

Searching(a, lx, w) ==
  /\ NotCancelled(a, w) /\ SemanticSide(a, w)
  /\ LexicalAsks(a, lx) /\ PrewarmFirst(a)

Shown(a, lx, w) ==
  /\ Told(a, w) /\ Rows(a) /\ Searching(a, lx, w)
  /\ PrewarmAlone(a) /\ SendingIsCurrent(a)

ShownInv == IndexInv /\ WorkerKnows(semantic) /\ Shown(app, lexical, semantic)

-----------------------------------------------------------------------------
(* The queue *)

(* The queue is one sequence after the other.                              *)
LEMMA Concatenation ==
  ASSUME NEW S, NEW s \in Seq(S), NEW t \in Seq(S)
  PROVE  /\ s \o t \in Seq(S) /\ Len(s \o t) = Len(s) + Len(t)
         /\ \A i \in 1 .. Len(s) : (s \o t)[i] = s[i]
         /\ \A i \in 1 .. Len(t) : (s \o t)[Len(s) + i] = t[i]
  OBVIOUS

(* A command goes from what App has to send into the channel.              *)
LEMMA MovesAlong ==
  ASSUME NEW S, NEW s \in Seq(S), NEW t \in Seq(S), t # <<>>
  PROVE  Append(s, Head(t)) \o Tail(t) = s \o t
  <1>1. /\ Head(t) \in S /\ Tail(t) \in Seq(S) /\ Len(t) \in Nat
        /\ Len(s) \in Nat /\ Len(t) >= 1
    OBVIOUS
  <1>2. /\ Append(s, Head(t)) \in Seq(S) /\ Len(Append(s, Head(t))) = Len(s) + 1
        /\ Len(Tail(t)) = Len(t) - 1
    BY <1>1
  <1> DEFINE u == Append(s, Head(t)) \o Tail(t)
             v == s \o t
  <1>3. u \in Seq(S) /\ v \in Seq(S) /\ Len(u) = Len(s) + Len(t) /\ Len(v) = Len(u)
    BY <1>1, <1>2
  <1>4. ASSUME NEW i \in 1 .. Len(u) PROVE u[i] = v[i]
    <2>1. CASE i <= Len(s) BY <1>1, <1>2, <1>3, <2>1
    <2>2. CASE i = Len(s) + 1 BY <1>1, <1>2, <1>3, <2>2
    <2>3. CASE i > Len(s) + 1 BY <1>1, <1>2, <1>3, <2>3
    <2> QED BY <1>1, <1>3, <2>1, <2>2, <2>3
  <1> HIDE DEF u, v
  <1>5. u = v BY <1>3, <1>4
  <1> QED BY <1>5 DEF u, v

(* The worker takes the first of its channel.                              *)
LEMMA TakesFirst ==
  ASSUME NEW S, NEW s \in Seq(S), NEW t \in Seq(S), s # <<>>
  PROVE  /\ Len(Tail(s) \o t) = Len(s \o t) - 1
         /\ \A i \in 1 .. Len(Tail(s) \o t) :
              i + 1 \in 1 .. Len(s \o t) /\ (Tail(s) \o t)[i] = (s \o t)[i + 1]
         /\ 1 \in 1 .. Len(s \o t) /\ Head(s) = (s \o t)[1]
  <1>1. /\ Tail(s) \in Seq(S) /\ Len(Tail(s)) = Len(s) - 1 /\ Head(s) = s[1]
        /\ Len(s) \in Nat /\ Len(t) \in Nat /\ Len(s) >= 1
    OBVIOUS
  <1>2. /\ Len(Tail(s) \o t) = Len(s) + Len(t) - 1
        /\ Len(s \o t) = Len(s) + Len(t)
    BY <1>1
  <1>3. ASSUME NEW i \in 1 .. Len(Tail(s) \o t)
        PROVE  (Tail(s) \o t)[i] = (s \o t)[i + 1]
    <2>1. CASE i <= Len(s) - 1 BY <1>1, <1>2, <2>1
    <2>2. CASE i > Len(s) - 1 BY <1>1, <1>2, <2>2
    <2> QED BY <1>1, <1>2, <2>1, <2>2
  <1> QED BY <1>1, <1>2, <1>3

(* App has one more command to send.                                       *)
LEMMA AppendsLast ==
  ASSUME NEW S, NEW s \in Seq(S), NEW t \in Seq(S), NEW m \in S
  PROVE  s \o Append(t, m) = Append(s \o t, m)
  <1>1. Len(s) \in Nat /\ Len(t) \in Nat /\ Append(t, m) \in Seq(S)
        /\ s \o t \in Seq(S) /\ Len(Append(t, m)) = Len(t) + 1
    OBVIOUS
  <1> DEFINE u == s \o Append(t, m)
             v == Append(s \o t, m)
  <1>2. u \in Seq(S) /\ v \in Seq(S) /\ Len(u) = Len(s) + Len(t) + 1 /\ Len(v) = Len(u)
    BY <1>1
  <1>3. ASSUME NEW i \in 1 .. Len(u) PROVE u[i] = v[i]
    <2>1. CASE i <= Len(s) BY <1>1, <1>2, <2>1
    <2>2. CASE i > Len(s) /\ i <= Len(s) + Len(t) BY <1>1, <1>2, <2>2
    <2>3. CASE i = Len(s) + Len(t) + 1 BY <1>1, <1>2, <2>3
    <2> QED BY <1>1, <1>2, <2>1, <2>2, <2>3
  <1> HIDE DEF u, v
  <1>4. u = v BY <1>2, <1>3
  <1> QED BY <1>4 DEF u, v

(* Every element of the queue is of one of the two.                        *)
LEMMA Elements ==
  ASSUME NEW S, NEW s \in Seq(S), NEW t \in Seq(S)
  PROVE  \A i \in 1 .. Len(s \o t) :
           \/ \E j \in 1 .. Len(s) : (s \o t)[i] = s[j]
           \/ \E j \in 1 .. Len(t) : (s \o t)[i] = t[j]
  <1>1. Len(s) \in Nat /\ Len(t) \in Nat /\ Len(s \o t) = Len(s) + Len(t)
    OBVIOUS
  <1> SUFFICES ASSUME NEW i \in 1 .. Len(s \o t)
               PROVE  \/ \E j \in 1 .. Len(s) : (s \o t)[i] = s[j]
                      \/ \E j \in 1 .. Len(t) : (s \o t)[i] = t[j]
    OBVIOUS
  <1>2. CASE i <= Len(s)
    <2>1. i \in 1 .. Len(s) /\ (s \o t)[i] = s[i] BY <1>1, <1>2
    <2> QED BY <2>1
  <1>3. CASE i > Len(s)
    <2>1. /\ i - Len(s) \in 1 .. Len(t)
          /\ (s \o t)[i] = t[i - Len(s)]
      BY <1>1, <1>3
    <2> QED BY <2>1
  <1> QED BY <1>1, <1>2, <1>3

(* The queue holds commands.                                               *)
LEMMA QueueTyped ==
  ASSUME NEW a \in App
  PROVE  /\ a.worker_tx \in Seq(SemanticCommand)
         /\ a.sending \in Seq(SemanticCommand)
         /\ Queue(a) \in Seq(SemanticCommand)
         /\ \A m : InQueue(a, m) => m \in SemanticCommand
  <1>1. a.worker_tx \in Seq(SemanticCommand) /\ a.sending \in Seq(SemanticCommand)
    BY DEF App
  <1>2. Queue(a) \in Seq(SemanticCommand) BY <1>1, Concatenation DEF Queue
  <1>3. \A m : InQueue(a, m) => m \in SemanticCommand
    BY <1>2 DEF InQueue
  <1> QED BY <1>1, <1>2, <1>3

(* A command of the queue is in the channel or still to send.              *)
LEMMA QueueElements ==
  ASSUME NEW a \in App
  PROVE  \A i \in 1 .. Len(Queue(a)) :
           \/ \E j \in 1 .. Len(a.worker_tx) : Queue(a)[i] = a.worker_tx[j]
           \/ \E j \in 1 .. Len(a.sending) : Queue(a)[i] = a.sending[j]
  <1>1. a.worker_tx \in Seq(SemanticCommand) /\ a.sending \in Seq(SemanticCommand)
    BY QueueTyped
  <1>2. \A s, t \in Seq(SemanticCommand) : \A i \in 1 .. Len(s \o t) :
          \/ \E j \in 1 .. Len(s) : (s \o t)[i] = s[j]
          \/ \E j \in 1 .. Len(t) : (s \o t)[i] = t[j]
    BY Elements
  <1> QED BY <1>1, <1>2, Zenon DEF Queue

(* A send leaves the queue as it is.                                       *)
LEMMA QueueMoves ==
  ASSUME NEW a \in App, NEW b, a.sending # <<>>,
         b.worker_tx = Append(a.worker_tx, Head(a.sending)),
         b.sending = Tail(a.sending)
  PROVE  Queue(b) = Queue(a)
  BY QueueTyped, MovesAlong DEF Queue

(* What the worker takes is the first of the queue.                        *)
LEMMA QueueTakes ==
  ASSUME NEW a \in App, NEW b, a.worker_tx # <<>>,
         b.worker_tx = Tail(a.worker_tx), b.sending = a.sending
  PROVE  /\ Len(Queue(b)) = Len(Queue(a)) - 1
         /\ \A i \in 1 .. Len(Queue(b)) :
              i + 1 \in 1 .. Len(Queue(a)) /\ Queue(b)[i] = Queue(a)[i + 1]
         /\ 1 \in 1 .. Len(Queue(a)) /\ Head(a.worker_tx) = Queue(a)[1]
  <1>1. a.worker_tx \in Seq(SemanticCommand) /\ a.sending \in Seq(SemanticCommand)
    BY QueueTyped
  <1>2. /\ Queue(a) = a.worker_tx \o a.sending
        /\ Queue(b) = Tail(a.worker_tx) \o a.sending
    BY DEF Queue
  <1>3. /\ Len(Tail(a.worker_tx) \o a.sending) = Len(a.worker_tx \o a.sending) - 1
        /\ \A i \in 1 .. Len(Tail(a.worker_tx) \o a.sending) :
             /\ i + 1 \in 1 .. Len(a.worker_tx \o a.sending)
             /\ (Tail(a.worker_tx) \o a.sending)[i]
                  = (a.worker_tx \o a.sending)[i + 1]
        /\ 1 \in 1 .. Len(a.worker_tx \o a.sending)
        /\ Head(a.worker_tx) = (a.worker_tx \o a.sending)[1]
    BY <1>1, TakesFirst, Zenon
  <1> QED BY <1>2, <1>3, Zenon

(* A command that App has to send is the last of the queue.                *)
LEMMA QueueAppends ==
  ASSUME NEW a \in App, NEW b, NEW m \in SemanticCommand,
         b.worker_tx = a.worker_tx, b.sending = Append(a.sending, m)
  PROVE  /\ Queue(b) = Append(Queue(a), m)
         /\ Len(Queue(b)) = Len(Queue(a)) + 1 /\ Len(Queue(a)) \in Nat
         /\ \A i \in 1 .. Len(Queue(b)) :
              \/ i \in 1 .. Len(Queue(a)) /\ Queue(b)[i] = Queue(a)[i]
              \/ i = Len(Queue(a)) + 1 /\ Queue(b)[i] = m
         /\ \A n : InQueue(b, n) <=> n = m \/ InQueue(a, n)
  <1>1. Queue(b) = Append(Queue(a), m)
    <2>1. /\ a.worker_tx \in Seq(SemanticCommand)
          /\ a.sending \in Seq(SemanticCommand) /\ m \in SemanticCommand
      BY QueueTyped
    <2>2. a.worker_tx \o Append(a.sending, m) = Append(a.worker_tx \o a.sending, m)
      <3>1. \A s \in Seq(SemanticCommand) : \A t \in Seq(SemanticCommand) :
              s \o Append(t, m) = Append(s \o t, m)
        BY AppendsLast
      <3> QED BY ONLY <2>1, <3>1, Zenon
    <2>3. /\ Queue(a) = a.worker_tx \o a.sending
          /\ Queue(b) = a.worker_tx \o Append(a.sending, m)
      BY DEF Queue
    <2> QED BY <2>2, <2>3, Zenon
  <1>2. Queue(a) \in Seq(SemanticCommand) BY QueueTyped
  <1>3. /\ Len(Queue(b)) = Len(Queue(a)) + 1 /\ Len(Queue(a)) \in Nat
        /\ \A i \in 1 .. Len(Queue(a)) : Queue(b)[i] = Queue(a)[i]
        /\ Queue(b)[Len(Queue(a)) + 1] = m
    <2> DEFINE q == Queue(a)
    <2>1. q \in Seq(SemanticCommand) BY <1>2
    <2> HIDE DEF q
    <2>2. /\ Len(Append(q, m)) = Len(q) + 1 /\ Len(q) \in Nat
          /\ \A i \in 1 .. Len(q) : Append(q, m)[i] = q[i]
          /\ Append(q, m)[Len(q) + 1] = m
      BY <2>1
    <2> QED BY <1>1, <2>2 DEF q
  <1>4. \A i \in 1 .. Len(Queue(b)) :
              \/ i \in 1 .. Len(Queue(a)) /\ Queue(b)[i] = Queue(a)[i]
              \/ i = Len(Queue(a)) + 1 /\ Queue(b)[i] = m
    BY <1>3
  <1>5. /\ Len(Queue(a)) + 1 \in 1 .. Len(Queue(b))
        /\ \A i \in 1 .. Len(Queue(a)) : i \in 1 .. Len(Queue(b))
    BY <1>3
  <1>6. \A n : InQueue(b, n) <=> n = m \/ InQueue(a, n)
    <2> HIDE DEF Queue
    <2> QED BY <1>3, <1>4, <1>5 DEF InQueue
  <1> QED BY <1>1, <1>3, <1>4, <1>6
-----------------------------------------------------------------------------
(* A version stands for one layout, or one scope *)

(* Fewer holders agree as well.                                            *)
LEMMA VersionsShrink ==
  ASSUME NEW a, NEW b, NEW w, NEW u, VersionsAgree(a, w),
         b.corpus_version = a.corpus_version,
         b.scope_version = a.scope_version,
         \A v, scope : HoldsScope(b, u, v, scope) => HoldsScope(a, w, v, scope),
         \A v, layout : HoldsCorpus(b, u, v, layout)
                          => HoldsCorpus(a, w, v, layout)
  PROVE  VersionsAgree(b, u)
  BY DEF VersionsAgree

(* App holds no other versions, and no command is new.                     *)
LEMMA ToldQuiet ==
  ASSUME NEW a, NEW b, NEW w, Told(a, w),
         b.corpus_version = a.corpus_version, b.layout = a.layout,
         b.scope_version = a.scope_version,
         b.sent_scope = a.sent_scope \/ b.sent_scope = None,
         \A m : InQueue(b, m) => InQueue(a, m)
  PROVE  Told(b, w)
  <1>1. \A v, scope : HoldsScope(b, w, v, scope) => HoldsScope(a, w, v, scope)
    BY DEF HoldsScope
  <1>2. \A v, layout : HoldsCorpus(b, w, v, layout)
                         => HoldsCorpus(a, w, v, layout)
    BY <1>1 DEF HoldsCorpus
  <1>3. VersionsAgree(b, w) BY <1>1, <1>2, VersionsShrink DEF Told
  <1>4. SearchesKnown(b, w) BY DEF Told, SearchesKnown, IsSearch
  <1> QED BY <1>3, <1>4 DEF Told

(* New rows get a version that nobody has; App forgets the scope it sent.  *)
LEMMA ToldNewCorpus ==
  ASSUME NEW a \in App, NEW b, NEW w, Told(a, w),
         b.corpus_version = a.corpus_version + 1,
         b.scope_version = a.scope_version, b.sent_scope = None,
         Queue(b) = Queue(a)
  PROVE  Told(b, w)
  <1>1. a.corpus_version \in Nat BY DEF App
  <1>2. \A m : InQueue(b, m) <=> InQueue(a, m) BY DEF InQueue
  <1>3. \A v, scope : HoldsScope(b, w, v, scope) => HoldsScope(a, w, v, scope)
    BY <1>2 DEF HoldsScope
  <1>4. \A v, layout : HoldsCorpus(b, w, v, layout) =>
          \/ v = a.corpus_version + 1 /\ layout = b.layout
          \/ HoldsCorpus(a, w, v, layout)
    BY <1>2, <1>3 DEF HoldsCorpus
  <1>5. \A v, layout : HoldsCorpus(a, w, v, layout) => v \in 1 .. a.corpus_version
    BY DEF Told, VersionsAgree
  <1>6. \A v, layout : HoldsCorpus(b, w, v, layout) => v \in 1 .. b.corpus_version
    BY <1>1, <1>4, <1>5
  <1>7. \A v, layout, other :
          HoldsCorpus(b, w, v, layout) /\ HoldsCorpus(b, w, v, other)
            => layout = other
    BY <1>1, <1>4, <1>5 DEF Told, VersionsAgree
  <1>8. VersionsAgree(b, w) BY <1>3, <1>6, <1>7 DEF Told, VersionsAgree
  <1>9. SearchesKnown(b, w) BY <1>2 DEF Told, SearchesKnown, IsSearch
  <1> QED BY <1>8, <1>9 DEF Told

(* The corpus that is sent is the one App holds.                           *)
LEMMA ToldCorpus ==
  ASSUME NEW a \in App, NEW w, Told(a, w), a.snapshot = a.layout
  PROVE  Told(send_semantic_corpus(a), w)
  <1> DEFINE m == [type |-> "UpdateCorpus", corpus_version |-> a.corpus_version,
                   layout |-> a.snapshot]
             b == [a EXCEPT !.sending = Append(@, m),
                            !.sent_corpus = a.corpus_version,
                            !.sent_scope = None]
  <1>1. m \in SemanticCommand BY DEF App, SemanticCommand
  <1>2. /\ b.corpus_version = a.corpus_version /\ b.layout = a.layout
        /\ b.scope_version = a.scope_version /\ b.sent_scope = None
        /\ b.worker_tx = a.worker_tx /\ b.sending = Append(a.sending, m)
    BY DEF App
  <1>3. /\ m.type = "UpdateCorpus" /\ m.corpus_version = a.corpus_version
        /\ m.layout = a.layout
    OBVIOUS
  <1> HIDE DEF b, m
  <1>4. \A n : InQueue(b, n) <=> n = m \/ InQueue(a, n)
    BY <1>1, <1>2, QueueAppends
  <1>5. \A v, scope : HoldsScope(b, w, v, scope) => HoldsScope(a, w, v, scope)
    BY <1>2, <1>3, <1>4 DEF HoldsScope
  <1>6. \A v, layout : HoldsCorpus(b, w, v, layout)
                         => HoldsCorpus(a, w, v, layout)
    BY <1>2, <1>3, <1>4, <1>5 DEF HoldsCorpus
  <1>7. VersionsAgree(b, w) BY <1>2, <1>5, <1>6, VersionsShrink DEF Told
  <1>8. SearchesKnown(b, w)
    BY <1>2, <1>3, <1>4 DEF Told, SearchesKnown, IsSearch
  <1>9. Told(b, w) BY <1>7, <1>8 DEF Told
  <1> QED BY <1>9 DEF send_semantic_corpus, b, m

(* The scope that is sent has a version of its own.                        *)
LEMMA ToldScope ==
  ASSUME NEW a \in App, NEW w, Told(a, w)
  PROVE  Told(send_semantic_scope(a), w)
  <1> DEFINE m == [type |-> "UpdateScope",
                   scope_version |-> a.scope_version + 1, scope |-> ScopeOf(a)]
             b == [a EXCEPT !.scope_version = @ + 1,
                            !.sending = Append(@, m),
                            !.sent_scope = ScopeOf(a)]
  <1>1. /\ a.corpus_version \in Nat /\ a.layout \in Nat
        /\ a.count \in Nat /\ a.filter \in BOOLEAN /\ a.scope_version \in Nat
    BY DEF App
  <1>2. ScopeOf(a) \in Scope BY <1>1, Zenon DEF ScopeOf, Scope
  <1>3. m \in SemanticCommand BY <1>1, <1>2 DEF SemanticCommand
  <1>4. /\ b.corpus_version = a.corpus_version /\ b.layout = a.layout
        /\ b.scope_version = a.scope_version + 1 /\ b.sent_scope = ScopeOf(a)
        /\ b.worker_tx = a.worker_tx /\ b.sending = Append(a.sending, m)
    BY DEF App
  <1>5. /\ m.type = "UpdateScope" /\ m.scope_version = a.scope_version + 1
        /\ m.scope = ScopeOf(a)
    OBVIOUS
  <1>6. /\ ScopeOf(a).corpus_version = a.corpus_version
        /\ ScopeOf(a).layout = a.layout
    BY DEF ScopeOf
  <1> HIDE DEF b, m
  <1>7. \A n : InQueue(b, n) <=> n = m \/ InQueue(a, n)
    BY <1>3, <1>4, QueueAppends
  <1>8. \A v, scope : HoldsScope(b, w, v, scope) =>
          \/ v = a.scope_version + 1 /\ scope = ScopeOf(a)
          \/ HoldsScope(a, w, v, scope)
    BY <1>4, <1>5, <1>7 DEF HoldsScope
  <1>9. \A v, layout : HoldsCorpus(b, w, v, layout)
                         => HoldsCorpus(a, w, v, layout)
    <2>1. \A v, scope : HoldsScope(b, w, v, scope) =>
            HoldsCorpus(a, w, scope.corpus_version, scope.layout)
      BY <1>6, <1>8 DEF HoldsCorpus
    <2>2. \A v, layout :
            HoldsCorpus(b, w, v, layout)
              => HoldsCorpus(a, w, v, layout)
                 \/ \E n, scope : /\ HoldsScope(b, w, n, scope)
                                  /\ v = scope.corpus_version
                                  /\ layout = scope.layout
      BY <1>4, <1>5, <1>7 DEF HoldsCorpus
    <2> HIDE DEF HoldsCorpus
    <2> QED BY <2>1, <2>2
  <1>10. \A v, scope : HoldsScope(a, w, v, scope) => v \in 0 .. a.scope_version
    BY DEF Told, VersionsAgree
  <1>11. \A v, scope : HoldsScope(b, w, v, scope) => v \in 0 .. b.scope_version
    BY <1>1, <1>4, <1>8, <1>10
  <1>12. \A v, scope, other :
           HoldsScope(b, w, v, scope) /\ HoldsScope(b, w, v, other)
             => scope = other
    BY <1>1, <1>8, <1>10 DEF Told, VersionsAgree
  <1>13. VersionsAgree(b, w)
    BY <1>4, <1>9, <1>11, <1>12 DEF Told, VersionsAgree
  <1>14. SearchesKnown(b, w)
    <2>1. \A k : IsSearch(b, w, k) => IsSearch(a, w, k)
      BY <1>5, <1>7 DEF IsSearch
    <2>2. \A k : k \in 0 .. a.scope_version => k \in 0 .. b.scope_version
      BY <1>1, <1>4
    <2> QED BY <2>1, <2>2 DEF Told, SearchesKnown
  <1>15. Told(b, w) BY <1>13, <1>14 DEF Told
  <1> QED BY <1>15 DEF send_semantic_scope, b, m

(* The search asks for the scope that App sent last.                       *)
LEMMA ToldSearch ==
  ASSUME NEW a \in App, NEW w, Told(a, w), a.generation >= 1,
         NEW prewarm \in BOOLEAN
  PROVE  Told(send_semantic_search(a, prewarm), w)
  <1> DEFINE m == [type |-> "Search",
                   query |-> IF prewarm THEN Empty ELSE a.query,
                   generation |-> a.generation,
                   corpus_version |-> a.corpus_version,
                   scope_version |-> a.scope_version, prewarm |-> prewarm]
             b == [a EXCEPT !.sending = Append(@, m)]
  <1>1. /\ a.corpus_version \in Nat /\ a.generation \in Nat
        /\ a.query \in Query /\ a.scope_version \in Nat
    BY DEF App
  <1>2. m \in SemanticSearch BY <1>1, Zenon DEF SemanticSearch, Query
  <1>3. m \in SemanticCommand BY <1>2 DEF SemanticCommand
  <1>4. /\ m.type = "Search" /\ m.generation = a.generation
        /\ m.scope_version = a.scope_version
    OBVIOUS
  <1> HIDE DEF m
  <1>5. /\ b.corpus_version = a.corpus_version /\ b.layout = a.layout
        /\ b.scope_version = a.scope_version /\ b.sent_scope = a.sent_scope
        /\ b.worker_tx = a.worker_tx /\ b.sending = Append(a.sending, m)
    BY DEF App
  <1> HIDE DEF b
  <1>6. \A n : InQueue(b, n) <=> n = m \/ InQueue(a, n)
    BY <1>3, <1>5, QueueAppends
  <1>7. \A v, scope : HoldsScope(b, w, v, scope) => HoldsScope(a, w, v, scope)
    BY <1>4, <1>5, <1>6 DEF HoldsScope
  <1>8. \A v, layout : HoldsCorpus(b, w, v, layout)
                         => HoldsCorpus(a, w, v, layout)
    BY <1>4, <1>5, <1>6, <1>7 DEF HoldsCorpus
  <1>9. VersionsAgree(b, w) BY <1>5, <1>7, <1>8, VersionsShrink DEF Told
  <1>10. SearchesKnown(b, w)
    <2>1. \A k : IsSearch(b, w, k) => k = m \/ IsSearch(a, w, k)
      BY <1>6 DEF IsSearch
    <2> QED BY <1>1, <1>4, <1>5, <2>1 DEF Told, SearchesKnown
  <1>11. Told(b, w) BY <1>9, <1>10 DEF Told
  <1> QED BY <1>11 DEF send_semantic_search, b, m

-----------------------------------------------------------------------------
(* The searches of a generation *)

(* What the searches of the current generation depend on.                  *)
SameSearches(a, b) ==
  /\ b.generation = a.generation /\ b.prewarm = a.prewarm
  /\ b.pending = a.pending /\ b.cancelled = a.cancelled
  /\ b.dispatched = a.dispatched /\ b.filter = a.filter
  /\ b.worker_tx = a.worker_tx /\ b.sending = a.sending
  /\ b.worker_rx = a.worker_rx /\ b.search_rx = a.search_rx
  /\ b.scope_version = a.scope_version
  /\ b.sent_scope = a.sent_scope \/ b.sent_scope = None

(* What the searches do not depend on may change.                          *)
LEMMA SemanticSideQuiet ==
  ASSUME NEW a, NEW b, NEW w, SemanticSide(a, w), Queue(b) = Queue(a),
         b.generation = a.generation, b.prewarm = a.prewarm,
         b.dispatched = a.dispatched, b.filter = a.filter,
         b.worker_rx = a.worker_rx, b.scope_version = a.scope_version,
         b.sent_scope = a.sent_scope \/ b.sent_scope = None
  PROVE  SemanticSide(b, w)
  <1>1. \A m : InQueue(b, m) <=> InQueue(a, m) BY DEF InQueue
  <1>2. \A v, scope : HoldsScope(b, w, v, scope) => HoldsScope(a, w, v, scope)
    BY <1>1 DEF HoldsScope
  <1>3. \A m : IsCurrent(b, w, m) => IsCurrent(a, w, m)
    BY <1>1 DEF IsCurrent, IsSearch
  <1>4. \A m : Asks(a, m) => Asks(b, m) BY DEF Asks, AsksForDispatched
  <1>5. SemanticAsks(b, w)
    BY <1>2, <1>3, <1>4 DEF SemanticSide, SemanticAsks
  <1>6. \A i : IsAnswer(b, i) <=> IsAnswer(a, i) BY DEF IsAnswer
  <1>7. SemanticAnswers(b)
    BY <1>4, <1>6 DEF SemanticSide, SemanticAnswers
  <1>8. \A i : QueueHas(b, i) <=> QueueHas(a, i) BY DEF QueueHas
  <1>9. \A m : IsRequest(b, m) <=> IsRequest(a, m) BY DEF IsRequest
  <1>10. OneSearch(b, w)
    BY <1>6, <1>8, <1>9 DEF SemanticSide, OneSearch
  <1> QED BY <1>5, <1>7, <1>10 DEF SemanticSide

(* So may it for all searches.                                             *)
LEMMA SearchingQuiet ==
  ASSUME NEW a, NEW b, NEW lx, NEW w, Searching(a, lx, w), SameSearches(a, b),
         LexicalAsks(b, lx)
  PROVE  Searching(b, lx, w)
  <1>1. Queue(b) = Queue(a) BY DEF Queue, SameSearches
  <1>2. SemanticSide(b, w)
    BY <1>1, SemanticSideQuiet DEF Searching, SameSearches
  <1>3. NotCancelled(b, w) /\ PrewarmFirst(b)
    BY DEF Searching, SameSearches, NotCancelled, PrewarmFirst, IsPrewarming
  <1> QED BY <1>2, <1>3 DEF Searching

(* No search of the current generation is on its way, or back from, the    *)
(* semantic worker.                                                        *)
NothingCurrent(a, w) ==
  /\ \A i : ~QueueHas(a, i) /\ ~IsAnswer(a, i)
  /\ ~IsRequest(a, w.request) /\ ~IsRequest(a, w.pending_search)

(* Then nothing has to be true of it.                                      *)
LEMMA NothingIsAsked ==
  ASSUME NEW a, NEW w, NothingCurrent(a, w)
  PROVE  SemanticSide(a, w)
  <1>1. \A m : ~IsCurrent(a, w, m)
    BY DEF NothingCurrent, IsCurrent, IsSearch, InQueue, QueueHas, IsRequest
  <1> QED BY <1>1 DEF NothingCurrent, SemanticSide, SemanticAsks,
      SemanticAnswers, OneSearch

(* A generation that has just started has no search.                       *)
LEMMA FreshGeneration ==
  ASSUME NEW a, Bounded(a), NEW b, TypeOK, b.generation = a.generation + 1,
         b.search_tx = a.search_tx, b.search_rx = a.search_rx,
         b.sending = a.sending,
         b.worker_tx = a.worker_tx, b.worker_rx = a.worker_rx
  PROVE  NothingCurrent(b, semantic) /\ LexicalAsks(b, lexical)
  <1>1. a \in App /\ NothingIsNewer(a, lexical, semantic) BY DEF Bounded
  <1>2. a.generation \in Nat BY <1>1 DEF App
  <1>3. /\ \A i \in 1 .. Len(a.search_tx) :
             ~IsData(a.search_tx[i]) => a.search_tx[i].generation # b.generation
        /\ lexical.request # None => lexical.request.generation # b.generation
        /\ \A i \in 1 .. Len(a.search_rx) :
             a.search_rx[i].generation # b.generation
    BY <1>1, <1>2, MessageNumbers, WorkerNumbers DEF NothingIsNewer
  <1>4. LexicalAsks(b, lexical) BY <1>3 DEF LexicalAsks
  <1>5. \A i : ~IsAnswer(b, i)
    BY <1>1, <1>2, MessageNumbers DEF NothingIsNewer, IsAnswer
  <1>6. /\ \A i \in 1 .. Len(a.sending) :
             a.sending[i].type = "Search"
               => a.sending[i].generation # b.generation
        /\ \A i \in 1 .. Len(a.worker_tx) :
             a.worker_tx[i].type = "Search"
               => a.worker_tx[i].generation # b.generation
    BY <1>1, <1>2, MessageNumbers DEF NothingIsNewer, SearchIsPast
  <1>7. \A i : ~QueueHas(b, i)
    <2>1. Queue(b) = Queue(a) BY DEF Queue
    <2>2. \A i \in 1 .. Len(Queue(a)) :
            \/ \E j \in 1 .. Len(a.worker_tx) : Queue(a)[i] = a.worker_tx[j]
            \/ \E j \in 1 .. Len(a.sending) : Queue(a)[i] = a.sending[j]
      BY <1>1, QueueElements
    <2> QED BY <1>6, <2>1, <2>2 DEF QueueHas
  <1>8. /\ ~IsRequest(b, semantic.request)
        /\ ~IsRequest(b, semantic.pending_search)
    BY <1>1, <1>2, WorkerNumbers DEF NothingIsNewer, RequestIsPast, IsRequest
  <1> QED BY <1>4, <1>5, <1>7, <1>8 DEF NothingCurrent

(* The search that runs, if any, is not what App waits for.                *)
LEMMA WaitsForAnother ==
  ASSUME IndexInv, NEW a, NEW b, Bounded(a), Told(a, semantic),
         b.pending = NoGeneration \/ b.pending = a.generation + 1
  PROVE  NotCancelled(b, semantic)
  <1>1. a \in App /\ a.generation \in Nat /\ TypeOK BY DEF Bounded, App, IndexInv
  <1> SUFFICES ASSUME semantic.alive, semantic.pc = "running",
                      b.pending = semantic.request.generation
               PROVE  FALSE
    BY DEF NotCancelled
  <1>2. semantic.request # None BY DEF IndexInv, RunsWhatItAskedFor
  <1>3. semantic.request.generation <= a.generation
    BY <1>2 DEF Bounded, NothingIsNewer, RequestIsPast
  <1>4. semantic.request.generation >= 1
    BY <1>2 DEF Told, SearchesKnown, IsSearch
  <1>5. semantic.request.generation \in Nat BY <1>1, <1>2, WorkerNumbers
  <1> QED BY <1>1, <1>3, <1>4, <1>5 DEF NoGeneration

(* A new generation, with nothing sent for it yet.                         *)
LEMMA NewSearching ==
  ASSUME IndexInv, NEW a, Bounded(a), NEW b, Told(a, semantic),
         b.generation = a.generation + 1,
         b.search_tx = a.search_tx, b.search_rx = a.search_rx,
         b.sending = a.sending,
         b.worker_tx = a.worker_tx, b.worker_rx = a.worker_rx,
         NotCancelled(b, semantic), PrewarmFirst(b)
  PROVE  Searching(b, lexical, semantic)
  <1>1. NothingCurrent(b, semantic) /\ LexicalAsks(b, lexical)
    BY FreshGeneration DEF IndexInv
  <1> QED BY <1>1, NothingIsAsked DEF Searching

-----------------------------------------------------------------------------
(* App's functions *)

(* App may change what no version depends on.                              *)
LEMMA ToldOfSame ==
  ASSUME NEW a, NEW b, NEW w, Told(a, w), SameSearches(a, b),
         b.corpus_version = a.corpus_version, b.layout = a.layout
  PROVE  Told(b, w)
  <1>1. Queue(b) = Queue(a) BY DEF Queue, SameSearches
  <1>2. \A m : InQueue(b, m) => InQueue(a, m) BY <1>1 DEF InQueue
  <1> QED BY <1>2, ToldQuiet DEF SameSearches

(* What invalidate_search_generation needs, and what it leaves.            *)
LEMMA InvalidateShown ==
  ASSUME IndexInv, NEW a, Bounded(a), Told(a, semantic), a.sending = <<>>,
         ShowsWhatItSays(a), NEW b, b = invalidate_search_generation(a)
  PROVE  /\ Shown(b, lexical, semantic)
         /\ b.sending = <<>> /\ b.query = a.query /\ b.mode = a.mode
         /\ b.filter = a.filter /\ b.loading = a.loading
         /\ b.dispatched = None /\ b.settled = FALSE
         /\ b.filtered = a.filtered /\ b.shown_query = a.shown_query
         /\ b.generation = a.generation + 1
  <1>1. a \in App /\ a.generation \in Nat BY DEF Bounded, App
  <1>2. /\ b.sending = <<>> /\ b.query = a.query /\ b.mode = a.mode
        /\ b.filter = a.filter /\ b.loading = a.loading
        /\ b.dispatched = None /\ b.settled = FALSE
        /\ b.filtered = a.filtered /\ b.shown_query = a.shown_query
        /\ b.generation = a.generation + 1
        /\ b.pending = NoGeneration /\ b.prewarm = NoGeneration
        /\ b.search_tx = a.search_tx /\ b.search_rx = a.search_rx
        /\ b.worker_tx = a.worker_tx /\ b.worker_rx = a.worker_rx
        /\ b.sending = a.sending
        /\ b.corpus_version = a.corpus_version /\ b.layout = a.layout
        /\ b.scope_version = a.scope_version /\ b.sent_scope = a.sent_scope
    BY <1>1 DEF App, invalidate_search_generation
  <1>3. Queue(b) = Queue(a) BY <1>2 DEF Queue
  <1>4. Told(b, semantic)
    <2>1. \A m : InQueue(b, m) => InQueue(a, m) BY <1>3 DEF InQueue
    <2> QED BY <1>2, <2>1, ToldQuiet
  <1>5. Rows(b) BY <1>2 DEF Rows, ShowsWhatItSays
  <1>6. NotCancelled(b, semantic) BY <1>2, WaitsForAnother
  <1>7. PrewarmFirst(b) /\ PrewarmAlone(b)
    BY <1>1, <1>2 DEF PrewarmFirst, PrewarmAlone, IsPrewarming, NoGeneration
  <1>8. Searching(b, lexical, semantic) BY <1>2, <1>6, <1>7, NewSearching
  <1>9. SendingIsCurrent(b) BY <1>2 DEF SendingIsCurrent
  <1> QED BY <1>2, <1>4, <1>5, <1>7, <1>8, <1>9 DEF Shown

(* The lexical searches depend on their channels.                          *)
LEMMA LexicalAsksSame ==
  ASSUME NEW a, NEW b, NEW lx, LexicalAsks(a, lx),
         b.search_tx = a.search_tx, b.search_rx = a.search_rx,
         b.generation = a.generation, b.dispatched = a.dispatched
  PROVE  LexicalAsks(b, lx)
  BY DEF LexicalAsks, AsksForDispatched

(* Search data asks for nothing.                                           *)
LEMMA LexicalAsksData ==
  ASSUME NEW a \in App, NEW b, NEW lx, LexicalAsks(a, lx), NEW m, IsData(m),
         b.search_tx = Append(a.search_tx, m), b.search_rx = a.search_rx,
         b.generation = a.generation, b.dispatched = a.dispatched
  PROVE  LexicalAsks(b, lx)
  <1>1. \A i \in 1 .. Len(b.search_tx) :
          \/ i \in 1 .. Len(a.search_tx) /\ b.search_tx[i] = a.search_tx[i]
          \/ b.search_tx[i] = m
    <2>1. a.search_tx \in Seq(SearchCommand) BY DEF App
    <2> QED BY <2>1
  <1> QED BY <1>1 DEF LexicalAsks, AsksForDispatched

(* apply_session_lookup changes the rows on screen, and may send the rows  *)
(* of the list again.                                                      *)
LEMMA LookupKeeps ==
  ASSUME NEW a \in App, NEW loads \in BOOLEAN, NEW w, NEW lx, Told(a, w),
         LexicalAsks(a, lx), NEW b, b = apply_session_lookup(a, loads)
  PROVE  /\ SameSearches(a, b) /\ Told(b, w) /\ LexicalAsks(b, lx)
         /\ b.query = a.query /\ b.mode = a.mode /\ b.loading = a.loading
         /\ b.layout = a.layout
         /\ b.shown_query = a.query
         /\ b.filtered = [query |-> a.query, by |-> "lookup",
                          layout |-> a.layout, filter |-> a.filter]
  <1> DEFINE data == [type |-> "UpdateData", layout |-> a.layout]
  <1>1. CASE loads
    <2> DEFINE pushed == [a EXCEPT !.count = @ + 1]
               sent == send_search_data(replace_conversations_snapshot(pushed))
               shown == [sent EXCEPT !.shown_query = a.query, !.settled = TRUE]
    <2>1. b = apply_filtered(shown, a.query, "lookup", a.layout)
      BY <1>1 DEF apply_session_lookup
    <2>2. /\ sent.generation = a.generation /\ sent.prewarm = a.prewarm
          /\ sent.pending = a.pending /\ sent.cancelled = a.cancelled
          /\ sent.dispatched = a.dispatched /\ sent.filter = a.filter
          /\ sent.worker_tx = a.worker_tx /\ sent.sending = a.sending
          /\ sent.worker_rx = a.worker_rx /\ sent.search_rx = a.search_rx
          /\ sent.scope_version = a.scope_version /\ sent.sent_scope = None
          /\ sent.query = a.query /\ sent.mode = a.mode
          /\ sent.loading = a.loading /\ sent.layout = a.layout
          /\ sent.corpus_version = a.corpus_version + 1
          /\ sent.search_tx = Append(a.search_tx, data)
          /\ DOMAIN sent = DOMAIN a
      BY DEF App, send_search_data, replace_conversations_snapshot
    <2> HIDE DEF sent
    <2>3. /\ b.generation = a.generation /\ b.prewarm = a.prewarm
          /\ b.pending = a.pending /\ b.cancelled = a.cancelled
          /\ b.dispatched = a.dispatched /\ b.filter = a.filter
          /\ b.worker_tx = a.worker_tx /\ b.sending = a.sending
          /\ b.worker_rx = a.worker_rx /\ b.search_rx = a.search_rx
          /\ b.scope_version = a.scope_version /\ b.sent_scope = None
          /\ b.query = a.query /\ b.mode = a.mode
          /\ b.loading = a.loading /\ b.layout = a.layout
          /\ b.corpus_version = a.corpus_version + 1
          /\ b.search_tx = Append(a.search_tx, data)
          /\ b.shown_query = a.query
          /\ b.filtered = [query |-> a.query, by |-> "lookup",
                           layout |-> a.layout, filter |-> a.filter]
      BY <2>1, <2>2 DEF App, apply_filtered
    <2>4. Queue(b) = Queue(a) BY <2>3 DEF Queue
    <2>5. Told(b, w) BY <2>3, <2>4, ToldNewCorpus
    <2>6. IsData(data) BY DEF IsData
    <2> HIDE DEF data
    <2>7. LexicalAsks(b, lx) BY <2>3, <2>6, LexicalAsksData
    <2> QED BY <2>3, <2>5, <2>7 DEF SameSearches, data
  <1>2. CASE ~loads
    <2>1. /\ SameSearches(a, b)
          /\ b.query = a.query /\ b.mode = a.mode /\ b.loading = a.loading
          /\ b.layout = a.layout /\ b.corpus_version = a.corpus_version
          /\ b.search_tx = a.search_tx
          /\ b.shown_query = a.query
          /\ b.filtered = [query |-> a.query, by |-> "lookup",
                           layout |-> a.layout, filter |-> a.filter]
      BY <1>2 DEF App, apply_session_lookup, apply_filtered, SameSearches
    <2>2. Told(b, w) BY <2>1, ToldOfSame
    <2>3. LexicalAsks(b, lx) BY <2>1, LexicalAsksSame DEF SameSearches
    <2> QED BY <2>1, <2>2, <2>3
  <1> QED BY <1>1, <1>2

(* So does apply_lexical_filter, which sends nothing.                      *)
LEMMA LexicalFilterKeeps ==
  ASSUME NEW a \in App, NEW b,
         b = apply_lexical_filter([a EXCEPT !.error = FALSE])
  PROVE  /\ SameSearches(a, b) /\ b.search_tx = a.search_tx
         /\ b.corpus_version = a.corpus_version /\ b.layout = a.layout
         /\ b.query = a.query /\ b.mode = a.mode /\ b.loading = a.loading
         /\ b.shown_query = (IF a.query = Empty THEN None ELSE a.query)
         /\ b.filtered = [query |-> a.query, by |-> "lexical",
                          layout |-> a.layout, filter |-> a.filter]
  BY DEF App, apply_lexical_filter, apply_filtered, SameSearches

(* update_filter shows what the query asks for, unless a semantic search   *)
(* has to; it leaves the searches alone.                                   *)
UpdatesRows(a, b) ==
  /\ Shown(b, lexical, semantic) /\ SameSearches(a, b)
  /\ b.query = a.query /\ b.mode = a.mode /\ b.loading = a.loading

(* The rows on screen may change to others that are true.                  *)
LEMMA ShownRows ==
  ASSUME NEW a \in App, NEW b, NEW lx, NEW w, Shown(a, lx, w),
         SameSearches(a, b), Told(b, w), LexicalAsks(b, lx), Rows(b),
         b.query = a.query, b.loading = a.loading
  PROVE  Shown(b, lx, w)
  <1>1. Searching(b, lx, w) BY SearchingQuiet DEF Shown
  <1>2. PrewarmAlone(b) /\ SendingIsCurrent(b)
    BY DEF Shown, SameSearches, PrewarmAlone, IsPrewarming, SendingIsCurrent
  <1> QED BY <1>1, <1>2 DEF Shown

(* What update_filter leaves is true.                                      *)
LEMMA UpdateFilterShown ==
  ASSUME NEW a \in App, Shown(a, lexical, semantic), NEW loads \in BOOLEAN,
         NEW b, b = update_filter(a, loads)
  PROVE  UpdatesRows(a, b)
  <1>1. /\ a.query \in Query /\ a.mode \in Mode /\ ShowsWhatItSays(a)
        /\ Told(a, semantic) /\ LexicalAsks(a, lexical)
    BY DEF App, Shown, Rows, Searching
  <1>2. CASE b = apply_lexical_filter([a EXCEPT !.error = FALSE])
             /\ (a.query = Empty \/ (a.query \in Text /\ a.mode = "Lexical"))
    <2>1. /\ SameSearches(a, b) /\ b.search_tx = a.search_tx
          /\ b.corpus_version = a.corpus_version /\ b.layout = a.layout
          /\ b.query = a.query /\ b.mode = a.mode /\ b.loading = a.loading
          /\ b.shown_query = (IF a.query = Empty THEN None ELSE a.query)
          /\ b.filtered = [query |-> a.query, by |-> "lexical",
                           layout |-> a.layout, filter |-> a.filter]
      BY <1>2, LexicalFilterKeeps
    <2>2. Told(b, semantic) BY <1>1, <2>1, ToldOfSame
    <2>3. LexicalAsks(b, lexical)
      BY <1>1, <2>1, LexicalAsksSame DEF SameSearches
    <2>4. Rows(b)
      BY <1>1, <1>2, <2>1, QueryAssumption
         DEF Rows, ShowsWhatItSays, AnswersIn, SameSearches
    <2> QED BY <2>1, <2>2, <2>3, <2>4, ShownRows DEF UpdatesRows
  <1>3. CASE a.query \in SessionIds
             /\ b = [apply_session_lookup(a, loads) EXCEPT !.error = FALSE]
    <2>1. PICK c : c = apply_session_lookup(a, loads) OBVIOUS
    <2>2. /\ SameSearches(a, c) /\ Told(c, semantic) /\ LexicalAsks(c, lexical)
          /\ c.query = a.query /\ c.mode = a.mode /\ c.loading = a.loading
          /\ c.layout = a.layout
          /\ c.shown_query = a.query
          /\ c.filtered = [query |-> a.query, by |-> "lookup",
                           layout |-> a.layout, filter |-> a.filter]
      BY <1>1, <2>1, LookupKeeps
    <2>3. b = [c EXCEPT !.error = FALSE] BY <1>3, <2>1
    <2>4. /\ SameSearches(a, b) /\ SameSearches(c, b)
          /\ b.corpus_version = c.corpus_version /\ b.layout = c.layout
          /\ b.search_tx = c.search_tx
          /\ b.query = a.query /\ b.mode = a.mode /\ b.loading = a.loading
          /\ b.layout = a.layout /\ b.shown_query = a.query
          /\ b.filtered = [query |-> a.query, by |-> "lookup",
                           layout |-> a.layout, filter |-> a.filter]
      BY <2>2, <2>3 DEF SameSearches
    <2>5. Told(b, semantic) BY <2>2, <2>4, ToldOfSame
    <2>6. LexicalAsks(b, lexical)
      BY <2>2, <2>4, LexicalAsksSame DEF SameSearches
    <2>7. Rows(b)
      BY <1>1, <1>3, <2>4, QueryAssumption
         DEF Rows, ShowsWhatItSays, AnswersIn, SameSearches
    <2> QED BY <2>4, <2>5, <2>6, <2>7, ShownRows DEF UpdatesRows
  <1>4. CASE b = a BY <1>4 DEF UpdatesRows, SameSearches
  <1>5. \/ /\ b = apply_lexical_filter([a EXCEPT !.error = FALSE])
           /\ a.query = Empty \/ (a.query \in Text /\ a.mode = "Lexical")
        \/ /\ a.query \in SessionIds
           /\ b = [apply_session_lookup(a, loads) EXCEPT !.error = FALSE]
        \/ b = a
    <2>1. CASE a.query = Empty
      BY <2>1, QueryAssumption, Zenon DEF update_filter
    <2>2. CASE a.query \in SessionIds
      BY <2>2, QueryAssumption, Zenon DEF update_filter
    <2>3. CASE a.query \in Text
      BY <1>1, <2>3, QueryAssumption DEF update_filter, Mode
    <2> QED BY <1>1, <2>1, <2>2, <2>3 DEF Query
  <1> QED BY <1>2, <1>3, <1>4, <1>5

-----------------------------------------------------------------------------
(* A dispatch *)

(* What a dispatch has of App before its search is sent.                   *)
Unsent(a) ==
  /\ Told(a, semantic) /\ Rows(a)
  /\ NotCancelled(a, semantic) /\ NothingCurrent(a, semantic)
  /\ LexicalAsks(a, lexical)
  /\ PrewarmFirst(a) /\ PrewarmAlone(a)

SameSearch(a, b) ==
  /\ b.generation = a.generation /\ b.prewarm = a.prewarm
  /\ b.pending = a.pending /\ b.cancelled = a.cancelled
  /\ b.dispatched = a.dispatched /\ b.filter = a.filter
  /\ b.query = a.query /\ b.mode = a.mode /\ b.loading = a.loading
  /\ b.layout = a.layout /\ b.count = a.count
  /\ b.corpus_version = a.corpus_version
  /\ b.shown_query = a.shown_query /\ b.settled = a.settled
  /\ b.filtered = a.filtered
  /\ b.worker_tx = a.worker_tx /\ b.worker_rx = a.worker_rx
  /\ b.search_rx = a.search_rx

(* What a dispatch sends before its search shows nothing.                  *)
LEMMA SameSearchKeeps ==
  ASSUME NEW a, NEW b, Unsent(a), SameSearch(a, b)
  PROVE  /\ Rows(b) /\ NotCancelled(b, semantic)
         /\ PrewarmFirst(b) /\ PrewarmAlone(b)
         /\ ScopeOf(b) = ScopeOf(a)
  BY DEF Unsent, SameSearch, Rows, ShowsWhatItSays, AnswersIn, NotCancelled,
     PrewarmFirst, PrewarmAlone, IsPrewarming, ScopeOf

(* A corpus or a scope to send is not a search.                            *)
LEMMA UnsentAppend ==
  ASSUME NEW a \in App, NEW b, Unsent(a), SameSearch(a, b), Told(b, semantic),
         NEW m \in SemanticCommand, m.type # "Search",
         b.sending = Append(a.sending, m), b.search_tx = a.search_tx
  PROVE  Unsent(b)
  <1>1. \A i \in 1 .. Len(Queue(b)) :
          \/ i \in 1 .. Len(Queue(a)) /\ Queue(b)[i] = Queue(a)[i]
          \/ Queue(b)[i] = m
    BY QueueAppends DEF SameSearch
  <1>2. \A i : QueueHas(b, i) => QueueHas(a, i)
    BY <1>1 DEF QueueHas, SameSearch
  <1>3. NothingCurrent(b, semantic)
    BY <1>2 DEF Unsent, NothingCurrent, SameSearch, IsAnswer, IsRequest
  <1>4. LexicalAsks(b, lexical)
    BY LexicalAsksSame DEF Unsent, SameSearch
  <1> QED BY <1>3, <1>4, SameSearchKeeps DEF Unsent

(* send_semantic_corpus, before the search.                                *)
LEMMA UnsentCorpus ==
  ASSUME NEW a, Dispatching(a), Unsent(a), NEW b, b = send_semantic_corpus(a)
  PROVE  Unsent(b) /\ SameSearch(a, b)
  <1>1. a \in App /\ a.snapshot = a.layout
    BY DEF Dispatching, Safe, DataIsLatest
  <1>2. Told(b, semantic) BY <1>1, ToldCorpus DEF Unsent
  <1>3. CASE a.sent_corpus = a.corpus_version
    BY <1>3 DEF send_semantic_corpus, SameSearch
  <1>4. CASE a.sent_corpus # a.corpus_version
    <2>1. PICK m : m = [type |-> "UpdateCorpus",
                        corpus_version |-> a.corpus_version,
                        layout |-> a.snapshot]
      OBVIOUS
    <2>2. m \in SemanticCommand /\ m.type # "Search"
      BY <1>1, <2>1 DEF App, SemanticCommand
    <2>3. b = [a EXCEPT !.sending = Append(@, m),
                        !.sent_corpus = a.corpus_version, !.sent_scope = None]
      BY <1>4, <2>1 DEF send_semantic_corpus
    <2>4. /\ SameSearch(a, b) /\ b.sending = Append(a.sending, m)
          /\ b.search_tx = a.search_tx
      BY <1>1, <2>3 DEF App, SameSearch
    <2> QED BY <1>1, <1>2, <2>2, <2>4, UnsentAppend
  <1> QED BY <1>3, <1>4

(* send_semantic_scope, before the search.                                 *)
LEMMA UnsentScope ==
  ASSUME NEW a, Dispatching(a), Unsent(a), NEW b, b = send_semantic_scope(a)
  PROVE  Unsent(b) /\ SameSearch(a, b) /\ b.sent_scope = ScopeOf(b)
  <1>1. /\ a \in App
        /\ a.corpus_version \in Nat /\ a.layout \in Nat
        /\ a.count \in Nat /\ a.filter \in BOOLEAN /\ a.scope_version \in Nat
    BY DEF Dispatching, App
  <1>2. Told(b, semantic) BY <1>1, ToldScope DEF Unsent
  <1>3. CASE a.sent_scope = ScopeOf(a)
    BY <1>3 DEF send_semantic_scope, SameSearch
  <1>4. CASE a.sent_scope # ScopeOf(a)
    <2>1. PICK m : m = [type |-> "UpdateScope",
                        scope_version |-> a.scope_version + 1,
                        scope |-> ScopeOf(a)]
      OBVIOUS
    <2>2. ScopeOf(a) \in Scope BY <1>1, Zenon DEF ScopeOf, Scope
    <2>3. m \in SemanticCommand /\ m.type # "Search"
      BY <1>1, <2>1, <2>2 DEF SemanticCommand
    <2>4. b = [a EXCEPT !.scope_version = @ + 1, !.sending = Append(@, m),
                        !.sent_scope = ScopeOf(a)]
      BY <1>4, <2>1 DEF send_semantic_scope
    <2>5. /\ SameSearch(a, b) /\ b.sending = Append(a.sending, m)
          /\ b.search_tx = a.search_tx /\ b.sent_scope = ScopeOf(a)
      BY <1>1, <2>4 DEF App, SameSearch
    <2>6. ScopeOf(b) = ScopeOf(a) BY <2>5, SameSearchKeeps
    <2> QED BY <1>1, <1>2, <2>3, <2>5, <2>6, UnsentAppend
  <1> QED BY <1>3, <1>4

(* send_semantic_state, before the search.                                 *)
LEMMA UnsentState ==
  ASSUME NEW a, Dispatching(a), Unsent(a), NEW b, b = send_semantic_state(a)
  PROVE  /\ Unsent(b) /\ SameSearch(a, b) /\ b.sent_scope = ScopeOf(b)
         /\ Dispatching(b) /\ b.scope_version >= 1
  <1>1. PICK c : c = send_semantic_corpus(a) OBVIOUS
  <1>2. Unsent(c) /\ SameSearch(a, c) /\ Dispatching(c)
    BY <1>1, UnsentCorpus, SendCorpusDispatching
  <1>3. b = send_semantic_scope(c) BY <1>1 DEF send_semantic_state
  <1>4. Unsent(b) /\ SameSearch(c, b) /\ b.sent_scope = ScopeOf(b)
    BY <1>2, <1>3, UnsentScope
  <1>5. SameSearch(a, b) BY <1>2, <1>4 DEF SameSearch
  <1> QED BY <1>4, <1>5, SendStateDispatching

(* The search worker gets the query dispatched last.                       *)
LEMMA UnsentLexical ==
  ASSUME NEW a \in App, Unsent(a), AsksForDispatched(a, a.query),
         NEW b, b = send_lexical_search(a)
  PROVE  /\ Unsent(b) /\ SameSearch(a, b)
         /\ b.sent_scope = a.sent_scope /\ b.scope_version = a.scope_version
         /\ b.sending = a.sending
  <1>1. PICK m : m = [type |-> "Search", query |-> a.query,
                      generation |-> a.generation, mode |-> a.mode]
    OBVIOUS
  <1>2. b = [a EXCEPT !.search_tx = Append(@, m)]
    BY <1>1 DEF send_lexical_search
  <1>3. /\ SameSearch(a, b) /\ b.search_tx = Append(a.search_tx, m)
        /\ b.sent_scope = a.sent_scope /\ b.scope_version = a.scope_version
        /\ b.sending = a.sending
    BY <1>2 DEF App, SameSearch
  <1>4. Queue(b) = Queue(a) BY <1>3 DEF Queue, SameSearch
  <1>5. Told(b, semantic)
    <2>1. \A n : InQueue(b, n) => InQueue(a, n) BY <1>4 DEF InQueue
    <2> QED BY <1>3, <2>1, ToldQuiet DEF SameSearch, Unsent
  <1>6. NothingCurrent(b, semantic)
    BY <1>3, <1>4 DEF Unsent, NothingCurrent, SameSearch, IsAnswer, IsRequest,
       QueueHas
  <1>7. LexicalAsks(b, lexical)
    <2>1. \A i \in 1 .. Len(b.search_tx) :
            \/ i \in 1 .. Len(a.search_tx) /\ b.search_tx[i] = a.search_tx[i]
            \/ b.search_tx[i] = m
      <3>1. a.search_tx \in Seq(SearchCommand) BY DEF App
      <3> QED BY <1>3, <3>1
    <2>2. m.query = a.query BY <1>1
    <2> QED BY <1>3, <2>1, <2>2
        DEF Unsent, LexicalAsks, AsksForDispatched, SameSearch
  <1> QED BY <1>3, <1>5, <1>6, <1>7, SameSearchKeeps DEF Unsent

(* The search that ends a dispatch is the only one of its generation.      *)
LEMMA SearchSent ==
  ASSUME NEW a \in App, Unsent(a), a.generation >= 1, NEW prewarm \in BOOLEAN,
         a.sent_scope = ScopeOf(a),
         IF prewarm THEN a.prewarm = a.generation
                    ELSE AsksForDispatched(a, a.query),
         NEW b, b = send_semantic_search(a, prewarm)
  PROVE  Shown(b, lexical, semantic)
  <1>1. PICK m : m = [type |-> "Search",
                      query |-> IF prewarm THEN Empty ELSE a.query,
                      generation |-> a.generation,
                      corpus_version |-> a.corpus_version,
                      scope_version |-> a.scope_version, prewarm |-> prewarm]
    OBVIOUS
  <1>2. b = [a EXCEPT !.sending = Append(@, m)]
    BY <1>1 DEF send_semantic_search
  <1>3. m \in SemanticCommand
    <2>1. /\ a.corpus_version \in Nat /\ a.generation \in Nat
          /\ a.query \in Query /\ a.scope_version \in Nat
      BY DEF App
    <2>2. m \in SemanticSearch BY <1>1, <2>1, Zenon DEF SemanticSearch, Query
    <2> QED BY <2>2 DEF SemanticCommand
  <1>4. /\ m.type = "Search" /\ m.generation = a.generation
        /\ m.scope_version = a.scope_version /\ m.prewarm = prewarm
        /\ ~prewarm => m.query = a.query
    BY <1>1
  <1>5. /\ SameSearch(a, b) /\ b.sending = Append(a.sending, m)
        /\ b.search_tx = a.search_tx
        /\ b.sent_scope = a.sent_scope /\ b.scope_version = a.scope_version
    BY <1>2 DEF App, SameSearch
  <1>6. Told(b, semantic) BY ToldSearch DEF Unsent
  <1>7. /\ Rows(b) /\ NotCancelled(b, semantic)
        /\ PrewarmFirst(b) /\ PrewarmAlone(b)
    BY <1>5, SameSearchKeeps
  <1>8. LexicalAsks(b, lexical)
    BY <1>5, LexicalAsksSame DEF Unsent, SameSearch
  <1>9. /\ Len(Queue(b)) = Len(Queue(a)) + 1 /\ Len(Queue(a)) \in Nat
        /\ \A i \in 1 .. Len(Queue(b)) :
             \/ i \in 1 .. Len(Queue(a)) /\ Queue(b)[i] = Queue(a)[i]
             \/ i = Len(Queue(a)) + 1 /\ Queue(b)[i] = m
        /\ \A n : InQueue(b, n) <=> n = m \/ InQueue(a, n)
    BY <1>3, <1>5, QueueAppends DEF SameSearch
  <1>10. \A i : QueueHas(b, i) => i = Len(Queue(a)) + 1
    BY <1>5, <1>9 DEF QueueHas, SameSearch, Unsent, NothingCurrent
  <1>11. \A i : ~IsAnswer(b, i)
    BY <1>5 DEF SameSearch, Unsent, NothingCurrent, IsAnswer
  <1>12. /\ ~IsRequest(b, semantic.request)
         /\ ~IsRequest(b, semantic.pending_search)
    BY <1>5 DEF SameSearch, Unsent, NothingCurrent, IsRequest
  <1>13. OneSearch(b, semantic) BY <1>10, <1>11, <1>12 DEF OneSearch
  <1>14. \A n : IsCurrent(b, semantic, n) => n = m
    <2>1. \A n : InQueue(a, n) /\ n.type = "Search"
                   => n.generation # a.generation
      BY DEF Unsent, NothingCurrent, InQueue, QueueHas
    <2> QED BY <1>5, <1>9, <1>12, <2>1
        DEF IsCurrent, IsSearch, IsRequest, SameSearch
  <1>15. \A scope : HoldsScope(b, semantic, m.scope_version, scope)
                      => scope.filter = b.filter
    <2>1. ScopeOf(a) \in Scope /\ ScopeOf(a).filter = a.filter
      <3>1. /\ a.corpus_version \in Nat /\ a.layout \in Nat
            /\ a.count \in Nat /\ a.filter \in BOOLEAN
        BY DEF App
      <3> QED BY <3>1, Zenon DEF ScopeOf, Scope
    <2>2. HoldsScope(b, semantic, b.scope_version, ScopeOf(a))
      BY <1>5, <2>1, NoneAssumption DEF HoldsScope
    <2> QED BY <1>4, <1>5, <1>6, <2>1, <2>2 DEF Told, VersionsAgree, SameSearch
  <1>16. SemanticAsks(b, semantic)
    <2>1. Asks(b, m) BY <1>4, <1>5 DEF Asks, AsksForDispatched, SameSearch
    <2> QED BY <1>14, <1>15, <2>1 DEF SemanticAsks
  <1>17. SemanticAnswers(b) BY <1>11 DEF SemanticAnswers
  <1>18. SendingIsCurrent(b)
    <2>1. a.sending \in Seq(SemanticCommand) BY DEF App
    <2>2. b.sending[Len(b.sending)] = m BY <1>3, <1>5, <2>1
    <2> QED BY <1>4, <1>5, <2>2 DEF SendingIsCurrent, SameSearch
  <1> QED BY <1>6, <1>7, <1>8, <1>13, <1>16, <1>17, <1>18
      DEF Shown, Searching, SemanticSide

(* App may stop there: a new generation without a search.                  *)
LEMMA UnsentIsShown ==
  ASSUME NEW a, Unsent(a), a.sending = <<>>
  PROVE  Shown(a, lexical, semantic)
  BY NothingIsAsked DEF Unsent, Shown, Searching, SendingIsCurrent

(* A worker that is replaced has nothing to take and has answered nothing. *)
LEMMA UnsentReset ==
  ASSUME NEW a \in App, Unsent(a), a.sending = <<>>,
         NEW b \in App, b = reset_semantic_worker(a)
  PROVE  /\ Unsent(b) /\ b.sending = <<>>
         /\ b.generation = a.generation /\ b.prewarm = a.prewarm
         /\ b.dispatched = a.dispatched /\ b.query = a.query
  <1>1. /\ b.generation = a.generation /\ b.prewarm = a.prewarm
        /\ b.pending = a.pending /\ b.cancelled = FALSE
        /\ b.dispatched = a.dispatched /\ b.filter = a.filter
        /\ b.query = a.query /\ b.mode = a.mode /\ b.loading = a.loading
        /\ b.layout = a.layout /\ b.corpus_version = a.corpus_version
        /\ b.scope_version = a.scope_version /\ b.sent_scope = None
        /\ b.shown_query = a.shown_query /\ b.settled = a.settled
        /\ b.filtered = a.filtered
        /\ b.search_rx = a.search_rx /\ b.search_tx = a.search_tx
        /\ b.worker_tx = <<>> /\ b.worker_rx = <<>> /\ b.sending = <<>>
    BY DEF App, reset_semantic_worker
  <1>2. \A i : i \notin 1 .. Len(Queue(b)) BY <1>1, QueueElements
  <1>3. Told(b, semantic)
    <2>1. \A m : ~InQueue(b, m) BY <1>2 DEF InQueue
    <2> QED BY <1>1, <2>1, ToldQuiet DEF Unsent
  <1>4. Rows(b) BY <1>1 DEF Unsent, Rows, ShowsWhatItSays, AnswersIn
  <1>5. NotCancelled(b, semantic) BY <1>1 DEF NotCancelled
  <1>6. NothingCurrent(b, semantic)
    <2>1. \A i : ~QueueHas(b, i) BY <1>2 DEF QueueHas
    <2>2. \A i : ~IsAnswer(b, i) BY <1>1 DEF IsAnswer
    <2> QED BY <1>1, <2>1, <2>2 DEF Unsent, NothingCurrent, IsRequest
  <1>7. LexicalAsks(b, lexical) BY <1>1, LexicalAsksSame DEF Unsent
  <1>8. PrewarmFirst(b) /\ PrewarmAlone(b)
    BY <1>1 DEF Unsent, PrewarmFirst, PrewarmAlone, IsPrewarming
  <1> QED BY <1>1, <1>3, <1>4, <1>5, <1>6, <1>7, <1>8 DEF Unsent

(* dispatch_semantic_search, for the query in the input or, when there is  *)
(* none and none was dispatched, for a prewarm.                            *)
LEMMA DispatchSemanticShown ==
  ASSUME IndexInv, NEW a, Ready(a), Told(a, semantic), Rows(a),
         a.sending = <<>>, PrewarmFirst(a), NEW prewarm \in BOOLEAN,
         IF prewarm THEN a.query = Empty /\ a.dispatched = None /\ ~a.loading
                    ELSE a.query \in Text,
         NEW b, b = dispatch_semantic_search(a, prewarm)
  PROVE  Shown(b, lexical, semantic)
  <1>1. /\ a \in App /\ TypeOK /\ Bounded(a) /\ a.generation \in Nat
        /\ a.prewarm \in Nat
    BY DEF Ready, Bounded, IndexInv, App
  <1>2. PICK c : c = [a EXCEPT
          !.generation = @ + 1, !.started = ~prewarm,
          !.dispatched = IF prewarm THEN @ ELSE a.query,
          !.pending = a.generation + 1,
          !.prewarm = IF prewarm THEN a.generation + 1 ELSE @,
          !.error = FALSE, !.cancelled = TRUE]
    OBVIOUS
  <1>3. Good(c)
    <2>1. /\ a.generation + 1 \in Nat /\ a.query \in Query
          /\ a.dispatched \in Query \cup {None}
      BY <1>1 DEF App
    <2>2. /\ (~prewarm) \in BOOLEAN
          /\ (IF prewarm THEN a.dispatched ELSE a.query) \in Query \cup {None}
          /\ (IF prewarm THEN a.generation + 1 ELSE a.prewarm) \in Nat
      BY <1>1, <2>1
    <2>3. ASSUME NEW started \in BOOLEAN, NEW dispatched \in Query \cup {None},
                 NEW warms \in Nat
          PROVE  [a EXCEPT !.generation = a.generation + 1,
                           !.started = started, !.dispatched = dispatched,
                           !.pending = a.generation + 1, !.prewarm = warms,
                           !.error = FALSE, !.cancelled = TRUE] \in App
      BY <1>1, <2>1, <2>3, ZenonT(60) DEF App
    <2>4. c \in App BY <1>2, <2>2, <2>3, Zenon
    <2>5. SameMessages(a, c) /\ c.generation = a.generation + 1
      BY <1>1, <1>2 DEF App, SameMessages
    <2> QED BY <1>1, <2>4, <2>5, NewGeneration
  <1>4. /\ c.generation = a.generation + 1 /\ c.pending = a.generation + 1
        /\ c.prewarm = (IF prewarm THEN a.generation + 1 ELSE a.prewarm)
        /\ c.dispatched = (IF prewarm THEN a.dispatched ELSE a.query)
        /\ c.query = a.query /\ c.mode = a.mode /\ c.loading = a.loading
        /\ c.filter = a.filter /\ c.layout = a.layout
        /\ c.corpus_version = a.corpus_version
        /\ c.scope_version = a.scope_version /\ c.sent_scope = a.sent_scope
        /\ c.shown_query = a.shown_query /\ c.settled = a.settled
        /\ c.filtered = a.filtered
        /\ c.search_tx = a.search_tx /\ c.search_rx = a.search_rx
        /\ c.worker_tx = a.worker_tx /\ c.worker_rx = a.worker_rx
        /\ c.sending = a.sending
    BY <1>1, <1>2 DEF App
  <1>5. Unsent(c)
    <2>1. Told(c, semantic)
      <3>1. Queue(c) = Queue(a) BY <1>4 DEF Queue
      <3>2. \A m : InQueue(c, m) => InQueue(a, m) BY <3>1 DEF InQueue
      <3> QED BY <1>4, <3>2, ToldQuiet
    <2>2. Rows(c) BY <1>4 DEF Rows, ShowsWhatItSays, AnswersIn
    <2>3. NotCancelled(c, semantic) BY <1>1, <1>4, WaitsForAnother
    <2>4. NothingCurrent(c, semantic) /\ LexicalAsks(c, lexical)
      BY <1>1, <1>4, FreshGeneration
    <2>5. PrewarmFirst(c) /\ PrewarmAlone(c)
      BY <1>1, <1>4 DEF PrewarmFirst, PrewarmAlone, IsPrewarming
    <2> QED BY <2>1, <2>2, <2>3, <2>4, <2>5 DEF Unsent
  <1>6. PICK d : d = IF semantic.alive THEN c ELSE reset_semantic_worker(c)
    OBVIOUS
  <1>7. Good(d) BY <1>1, <1>3, <1>6, ResetWorkerGood
  <1>8. Dispatching(d) BY <1>7 DEF Good, Dispatching, SendingEndsInSearch
  <1>9. /\ Unsent(d) /\ d.sending = <<>>
        /\ d.generation = c.generation /\ d.prewarm = c.prewarm
        /\ d.dispatched = c.dispatched /\ d.query = c.query
    BY <1>3, <1>4, <1>5, <1>6, <1>7, UnsentReset DEF Good
  <1>10. PICK e : e = send_semantic_state(d) OBVIOUS
  <1>11. /\ Unsent(e) /\ SameSearch(d, e) /\ e.sent_scope = ScopeOf(e)
         /\ Dispatching(e)
    BY <1>8, <1>9, <1>10, UnsentState
  <1>12. PICK f : f = IF prewarm THEN e ELSE send_lexical_search(e) OBVIOUS
  <1>13. /\ e \in App
         /\ IF prewarm THEN e.prewarm = e.generation
                       ELSE AsksForDispatched(e, e.query)
    BY <1>4, <1>9, <1>11 DEF Dispatching, SameSearch, AsksForDispatched
  <1>14. /\ Unsent(f) /\ f \in App /\ f.sent_scope = ScopeOf(f)
         /\ f.generation = a.generation + 1
         /\ IF prewarm THEN f.prewarm = f.generation
                       ELSE AsksForDispatched(f, f.query)
    <2>1. e.generation = a.generation + 1 BY <1>4, <1>9, <1>11 DEF SameSearch
    <2>2. CASE prewarm BY <1>11, <1>12, <1>13, <2>1, <2>2
    <2>3. CASE ~prewarm
      <3>1. f = send_lexical_search(e) BY <1>12, <2>3
      <3>2. /\ Unsent(f) /\ SameSearch(e, f) /\ f.sent_scope = e.sent_scope
        BY <1>11, <1>13, <2>3, <3>1, UnsentLexical
      <3>3. f \in App BY <1>11, <3>1, SendLexicalSafe DEF Dispatching
      <3>4. ScopeOf(f) = ScopeOf(e) BY <1>11, <3>2, SameSearchKeeps
      <3> QED BY <1>11, <1>13, <2>1, <2>3, <3>2, <3>3, <3>4
          DEF SameSearch, AsksForDispatched
    <2> QED BY <2>2, <2>3
  <1>15. b = send_semantic_search(f, prewarm)
    BY <1>2, <1>6, <1>10, <1>12 DEF dispatch_semantic_search
  <1>16. f.generation >= 1 BY <1>1, <1>14
  <1> QED BY <1>14, <1>15, <1>16, SearchSent

(* A lexical search of a new generation.                                   *)
LEMMA DispatchLexicalShown ==
  ASSUME IndexInv, NEW a, Good(a), Told(a, semantic), Rows(a),
         a.sending = <<>>, PrewarmFirst(a), NotCancelled(a, semantic),
         a.query \in Text,
         NEW b, b = dispatch_lexical_search(a)
  PROVE  Shown(b, lexical, semantic)
  <1>1. /\ a \in App /\ TypeOK /\ Bounded(a) /\ a.generation \in Nat
        /\ a.prewarm \in Nat
    BY DEF Good, Safe, Bounded, IndexInv, App
  <1>2. PICK c : c = [a EXCEPT !.dispatched = a.query, !.generation = @ + 1,
                               !.started = TRUE, !.error = FALSE]
    OBVIOUS
  <1>3. c \in App
    <2>1. a.generation + 1 \in Nat /\ a.query \in Query BY <1>1 DEF App
    <2> QED BY <1>1, <1>2, <2>1, Zenon DEF App
  <1>4. /\ c.generation = a.generation + 1 /\ c.pending = a.pending
        /\ c.cancelled = a.cancelled
        /\ c.prewarm = a.prewarm /\ c.dispatched = a.query
        /\ c.query = a.query /\ c.mode = a.mode /\ c.loading = a.loading
        /\ c.filter = a.filter /\ c.layout = a.layout
        /\ c.corpus_version = a.corpus_version
        /\ c.scope_version = a.scope_version /\ c.sent_scope = a.sent_scope
        /\ c.shown_query = a.shown_query /\ c.settled = a.settled
        /\ c.filtered = a.filtered
        /\ c.search_tx = a.search_tx /\ c.search_rx = a.search_rx
        /\ c.worker_tx = a.worker_tx /\ c.worker_rx = a.worker_rx
        /\ c.sending = a.sending
    BY <1>1, <1>2 DEF App
  <1>5. Unsent(c)
    <2>1. Told(c, semantic)
      <3>1. Queue(c) = Queue(a) BY <1>4 DEF Queue
      <3>2. \A m : InQueue(c, m) => InQueue(a, m) BY <3>1 DEF InQueue
      <3> QED BY <1>4, <3>2, ToldQuiet
    <2>2. Rows(c) BY <1>4 DEF Rows, ShowsWhatItSays, AnswersIn
    <2>3. NotCancelled(c, semantic) BY <1>4 DEF NotCancelled
    <2>4. NothingCurrent(c, semantic) /\ LexicalAsks(c, lexical)
      BY <1>1, <1>4, FreshGeneration
    <2>5. PrewarmFirst(c) /\ PrewarmAlone(c)
      BY <1>1, <1>4 DEF PrewarmFirst, PrewarmAlone, IsPrewarming
    <2> QED BY <2>1, <2>2, <2>3, <2>4, <2>5 DEF Unsent
  <1>6. b = send_lexical_search(c) BY <1>2 DEF dispatch_lexical_search
  <1>7. Unsent(b) /\ b.sending = c.sending
    BY <1>3, <1>4, <1>5, <1>6, UnsentLexical DEF AsksForDispatched
  <1> QED BY <1>4, <1>7, UnsentIsShown

(* The prewarm it restores is of a generation that is over.                *)
LEMMA DispatchEmptyShown ==
  ASSUME IndexInv, NEW a, Good(a), Told(a, semantic), ShowsWhatItSays(a),
         a.sending = <<>>, PrewarmFirst(a),
         NEW b, b = dispatch_empty_query(a)
  PROVE  Shown(b, lexical, semantic)
  <1>1. /\ a \in App /\ TypeOK /\ Bounded(a) /\ a.generation \in Nat
        /\ a.prewarm \in Nat
    BY DEF Good, Safe, Bounded, IndexInv, App
  <1>2. PICK i : i = invalidate_search_generation(a) OBVIOUS
  <1>3. PICK c : c = [i EXCEPT !.prewarm = IF a.mode = "Semantic"
                                           THEN a.prewarm ELSE @]
    OBVIOUS
  <1>4. i \in App BY <1>1, <1>2, InvalidateGood, GoodIsReady DEF Good
  <1>5. c \in App
    <2>1. (IF a.mode = "Semantic" THEN a.prewarm ELSE i.prewarm) \in Nat
      BY <1>1, <1>4 DEF App
    <2>2. ASSUME NEW warms \in Nat PROVE [i EXCEPT !.prewarm = warms] \in App
      BY <1>4, <2>2, Zenon DEF App
    <2> QED BY <1>3, <2>1, <2>2, Zenon
  <1>6. i.prewarm = NoGeneration /\ i.pending = NoGeneration
    BY <1>1, <1>2 DEF App, invalidate_search_generation
  <1>7. /\ c.generation = a.generation + 1 /\ c.pending = NoGeneration
        /\ c.prewarm \in {NoGeneration, a.prewarm} /\ c.dispatched = None
        /\ c.query = a.query /\ c.settled = FALSE
        /\ c.layout = a.layout /\ c.corpus_version = a.corpus_version
        /\ c.scope_version = a.scope_version /\ c.sent_scope = a.sent_scope
        /\ c.shown_query = a.shown_query /\ c.filtered = a.filtered
        /\ c.search_tx = a.search_tx /\ c.search_rx = a.search_rx
        /\ c.worker_tx = a.worker_tx /\ c.worker_rx = a.worker_rx
        /\ c.sending = a.sending
    BY <1>1, <1>2, <1>3, <1>6 DEF App, invalidate_search_generation
  <1>8. Told(c, semantic)
    <2>1. Queue(c) = Queue(a) BY <1>7 DEF Queue
    <2>2. \A m : InQueue(c, m) => InQueue(a, m) BY <2>1 DEF InQueue
    <2> QED BY <1>7, <2>2, ToldQuiet
  <1>9. Rows(c) BY <1>7 DEF Rows, ShowsWhatItSays
  <1>10. NotCancelled(c, semantic) BY <1>1, <1>7, WaitsForAnother
  <1>11. PrewarmFirst(c) /\ PrewarmAlone(c)
    BY <1>1, <1>7 DEF PrewarmFirst, PrewarmAlone, IsPrewarming, NoGeneration
  <1>12. Searching(c, lexical, semantic)
    BY <1>1, <1>7, <1>10, <1>11, NewSearching
  <1>13. Shown(c, lexical, semantic)
    BY <1>7, <1>8, <1>9, <1>11, <1>12 DEF Shown, SendingIsCurrent
  <1>14. b = update_filter(c, FALSE) BY <1>2, <1>3 DEF dispatch_empty_query
  <1> QED BY <1>5, <1>13, <1>14, UpdateFilterShown DEF UpdatesRows

(* The rows on screen are the answer already: nothing is sent.             *)
LEMMA AbandonShown ==
  ASSUME IndexInv, NEW a, Good(a), Told(a, semantic), Rows(a),
         a.sending = <<>>, PrewarmFirst(a), a.query \in Text,
         NEW b, b = [abandon_search_in_flight(a) EXCEPT !.dispatched = a.query]
  PROVE  Shown(b, lexical, semantic)
  <1>1. /\ a \in App /\ TypeOK /\ Bounded(a) /\ a.generation \in Nat
        /\ a.prewarm \in Nat
    BY DEF Good, Safe, Bounded, IndexInv, App
  <1>2. /\ b.generation = a.generation + 1 /\ b.pending = NoGeneration
        /\ b.prewarm = a.prewarm /\ b.dispatched = a.query
        /\ b.query = a.query /\ b.mode = a.mode /\ b.settled = a.settled
        /\ b.filter = a.filter
        /\ b.layout = a.layout /\ b.corpus_version = a.corpus_version
        /\ b.scope_version = a.scope_version /\ b.sent_scope = a.sent_scope
        /\ b.shown_query = a.shown_query /\ b.filtered = a.filtered
        /\ b.search_tx = a.search_tx /\ b.search_rx = a.search_rx
        /\ b.worker_tx = a.worker_tx /\ b.worker_rx = a.worker_rx
        /\ b.sending = a.sending
    BY <1>1 DEF App, abandon_search_in_flight
  <1>3. Told(b, semantic)
    <2>1. Queue(b) = Queue(a) BY <1>2 DEF Queue
    <2>2. \A m : InQueue(b, m) => InQueue(a, m) BY <2>1 DEF InQueue
    <2> QED BY <1>2, <2>2, ToldQuiet
  <1>4. Rows(b) BY <1>2 DEF Rows, ShowsWhatItSays, AnswersIn
  <1>5. NotCancelled(b, semantic) BY <1>1, <1>2, WaitsForAnother
  <1>6. PrewarmFirst(b) /\ PrewarmAlone(b)
    BY <1>1, <1>2 DEF PrewarmFirst, PrewarmAlone, IsPrewarming
  <1>7. Searching(b, lexical, semantic)
    BY <1>1, <1>2, <1>5, <1>6, NewSearching
  <1> QED BY <1>2, <1>3, <1>4, <1>6, <1>7 DEF Shown, SendingIsCurrent

(* App with a query that its prewarm, if any, did not expect.              *)
Edited(a) ==
  /\ Good(a) /\ a.sending = <<>>
  /\ Told(a, semantic) /\ Rows(a) /\ Searching(a, lexical, semantic)

(* dispatch_search, in each of its branches.                               *)
LEMMA DispatchShown ==
  ASSUME IndexInv, NEW a, Edited(a), NEW loads \in BOOLEAN,
         NEW b, b = dispatch_search(a, loads)
  PROVE  Shown(b, lexical, semantic)
  <1>1. /\ Good(a) /\ Ready(a) /\ a \in App /\ TypeOK
        /\ a.query \in Query /\ a.mode \in Mode
        /\ a.sending = <<>> /\ Told(a, semantic) /\ Rows(a)
        /\ ShowsWhatItSays(a)
        /\ PrewarmFirst(a) /\ NotCancelled(a, semantic)
        /\ LexicalAsks(a, lexical)
    BY GoodIsReady DEF Edited, Good, App, IndexInv, Searching, Rows
  <1>2. CASE a.query = Empty
    <2>1. b = dispatch_empty_query(a)
      BY <1>2, QueryAssumption DEF dispatch_search
    <2> QED BY <1>1, <2>1, DispatchEmptyShown
  <1>3. CASE a.query \in SessionIds
    <2>1. PICK c : c = apply_session_lookup(a, loads) OBVIOUS
    <2>2. b = invalidate_search_generation(c)
      BY <1>3, <2>1, QueryAssumption DEF dispatch_search
    <2>3. Bounded(c)
      BY <1>1, <2>1, SessionLookupGood DEF Good, Safe, Bounded
    <2>4. /\ SameSearches(a, c) /\ Told(c, semantic)
          /\ c.shown_query = a.query
          /\ c.filtered = [query |-> a.query, by |-> "lookup",
                           layout |-> a.layout, filter |-> a.filter]
      BY <1>1, <2>1, LookupKeeps
    <2>5. ShowsWhatItSays(c) /\ c.sending = <<>>
      BY <1>1, <1>3, <2>4, QueryAssumption DEF ShowsWhatItSays, SameSearches
    <2> QED BY <2>2, <2>3, <2>4, <2>5, InvalidateShown
  <1>4. CASE a.query \in Text
    <2>1. CASE a.dispatched = a.query
      <3>1. b = a BY <1>4, <2>1, QueryAssumption DEF dispatch_search
      <3>2. PrewarmAlone(a)
        BY <1>1, <1>4, <2>1, QueryAssumption DEF PrewarmFirst, PrewarmAlone
      <3> QED BY <3>1, <3>2 DEF Edited, Shown, SendingIsCurrent
    <2>2. CASE a.dispatched # a.query /\ IsAnswered(a)
      <3>1. b = [abandon_search_in_flight(a) EXCEPT !.dispatched = a.query]
        BY <1>4, <2>2, QueryAssumption DEF dispatch_search
      <3> QED BY <1>1, <1>4, <3>1, AbandonShown
    <2>3. CASE a.dispatched # a.query /\ ~IsAnswered(a)
      <3>1. b = IF a.mode = "Semantic" THEN dispatch_semantic_search(a, FALSE)
                                       ELSE dispatch_lexical_search(a)
        BY <1>4, <2>3, QueryAssumption DEF dispatch_search
      <3>2. CASE a.mode = "Semantic"
        <4>1. b = dispatch_semantic_search(a, FALSE) BY <3>1, <3>2
        <4> QED BY <1>1, <1>4, <4>1, DispatchSemanticShown
      <3>3. CASE a.mode # "Semantic"
        <4>1. b = dispatch_lexical_search(a) BY <3>1, <3>3
        <4> QED BY <1>1, <1>4, <4>1, DispatchLexicalShown
      <3> QED BY <3>2, <3>3
    <2> QED BY <2>1, <2>2, <2>3
  <1> QED BY <1>1, <1>2, <1>3, <1>4 DEF Query

(* An App with nothing to send may dispatch.                               *)
LEMMA ShownIsEdited ==
  ASSUME NEW a, Good(a), Shown(a, lexical, semantic), a.sending = <<>>
  PROVE  Edited(a)
  BY DEF Shown, Edited

(* A prewarm follows an invalidation: no query is dispatched.              *)
LEMMA PrewarmShown ==
  ASSUME IndexInv, NEW a, Good(a), Shown(a, lexical, semantic),
         a.sending = <<>>, a.dispatched = None,
         NEW b, b = prewarm_semantic_cache(a)
  PROVE  Shown(b, lexical, semantic)
  <1>1. /\ Ready(a) /\ Told(a, semantic) /\ Rows(a) /\ PrewarmFirst(a)
    BY GoodIsReady DEF Shown, Searching
  <1>2. CASE a.query = Empty /\ ~a.loading /\ a.mode = "Semantic"
    <2>1. b = dispatch_semantic_search(a, TRUE)
      BY <1>2 DEF prewarm_semantic_cache
    <2> QED BY <1>1, <1>2, <2>1, DispatchSemanticShown
  <1>3. CASE ~(a.query = Empty /\ ~a.loading /\ a.mode = "Semantic")
    BY <1>3 DEF prewarm_semantic_cache
  <1> QED BY <1>2, <1>3

(* rerun_query, on rows that were sent again.                              *)
LEMMA RerunShown ==
  ASSUME IndexInv, NEW a, Good(a), Shown(a, lexical, semantic),
         a.sending = <<>>, a.dispatched = None, NEW loads \in BOOLEAN,
         NEW b, b = rerun_query(a, loads)
  PROVE  Shown(b, lexical, semantic)
  <1>1. PICK c : c = update_filter(a, loads) OBVIOUS
  <1>2. a \in App /\ TypeOK BY DEF Good, IndexInv
  <1>3. Good(c) BY <1>1, <1>2, UpdateFilterGood
  <1>4. UpdatesRows(a, c) BY <1>1, <1>2, UpdateFilterShown
  <1>5. /\ Shown(c, lexical, semantic) /\ c.sending = <<>>
        /\ c.dispatched = None
    BY <1>4 DEF UpdatesRows, SameSearches
  <1>6. CASE a.mode = "Semantic" /\ a.query # Empty
    <2>1. b = dispatch_search(c, FALSE) BY <1>1, <1>6 DEF rerun_query
    <2> QED BY <1>3, <1>5, <2>1, ShownIsEdited, DispatchShown
  <1>7. CASE ~(a.mode = "Semantic" /\ a.query # Empty)
    <2>1. b = prewarm_semantic_cache(c) BY <1>1, <1>7 DEF rerun_query
    <2> QED BY <1>3, <1>5, <2>1, PrewarmShown
  <1> QED BY <1>6, <1>7

-----------------------------------------------------------------------------
(* What a handler leaves becomes the state *)

(* A new worker holds nothing.                                             *)
LEMMA NewWorkerShown ==
  ASSUME NEW a, Shown(a, lexical, semantic)
  PROVE  /\ Shown(a, lexical, NewSemanticWorker)
         /\ WorkerKnows(NewSemanticWorker)
  <1>1. PICK w : w = NewSemanticWorker OBVIOUS
  <1>2. /\ w.alive /\ w.pc = "idle" /\ w.request = None
        /\ w.corpus_version = 0 /\ w.scope = None /\ w.pending_search = None
    BY <1>1 DEF NewSemanticWorker
  <1>3. \A v, scope : HoldsScope(a, w, v, scope)
                        => HoldsScope(a, semantic, v, scope)
    BY <1>2 DEF HoldsScope
  <1>4. \A v, layout : HoldsCorpus(a, w, v, layout)
                         => HoldsCorpus(a, semantic, v, layout)
    BY <1>2, <1>3 DEF HoldsCorpus
  <1>5. VersionsAgree(a, w) BY <1>3, <1>4, VersionsShrink DEF Shown, Told
  <1>6. \A m : IsSearch(a, w, m) => IsSearch(a, semantic, m)
    BY <1>2 DEF IsSearch
  <1>7. Told(a, w) BY <1>5, <1>6 DEF Shown, Told, SearchesKnown
  <1>8. NotCancelled(a, w) BY <1>2 DEF NotCancelled
  <1>9. SemanticAsks(a, w)
    BY <1>3, <1>6 DEF Shown, Searching, SemanticSide, SemanticAsks, IsCurrent
  <1>10. OneSearch(a, w)
    BY <1>2 DEF Shown, Searching, SemanticSide, OneSearch, IsRequest
  <1>11. Searching(a, lexical, w)
    BY <1>8, <1>9, <1>10 DEF Shown, Searching, SemanticSide
  <1>12. WorkerKnows(w) BY <1>2 DEF WorkerKnows
  <1> QED BY <1>1, <1>7, <1>11, <1>12 DEF Shown

(* The handler returns, and the state is what it left.                     *)
LEMMA BecomesWhatIsShown ==
  ASSUME ShownInv, IndexInv', NEW b, Shown(b, lexical, semantic), Becomes(b)
  PROVE  ShownInv'
  <1>1. app' = b /\ lexical' = lexical BY DEF Becomes
  <1>2. semantic' = semantic \/ semantic' = NewSemanticWorker
    BY DEF Becomes
  <1>3. WorkerKnows(semantic') /\ Shown(b, lexical, semantic')
    BY <1>2, NewWorkerShown DEF ShownInv
  <1>4. WorkerKnows(semantic') /\ Shown(app', lexical', semantic')
    BY <1>1, <1>3
  <1> QED BY <1>4 DEF ShownInv

(* The same, from what the handler keeps.                                  *)
LEMMA BecomesShown ==
  ASSUME ShownInv, NEW b, Good(b), Shown(b, lexical, semantic), Becomes(b)
  PROVE  ShownInv'
  <1>1. IndexInv' BY BecomesGood DEF ShownInv
  <1> QED BY <1>1, BecomesWhatIsShown

(* The invariant, as the handlers use it.                                  *)
LEMMA AppIsShown ==
  ASSUME ShownInv
  PROVE  /\ IndexInv /\ TypeOK /\ Good(app) /\ app \in App
         /\ Shown(app, lexical, semantic)
         /\ Told(app, semantic) /\ ShowsWhatItSays(app)
         /\ WorkerKnows(semantic)
  BY AppIsGood DEF ShownInv, IndexInv, Good, Shown, Rows

-----------------------------------------------------------------------------
(* The handlers of the event loop *)

(* A key that edits the query.                                             *)
LEMMA EditQueryShown ==
  ASSUME ShownInv, NEW q \in Query, NEW loads \in BOOLEAN, EditQuery(q, loads)
  PROVE  ShownInv'
  <1>1. PICK edited : edited = [app EXCEPT !.query = q] OBVIOUS
  <1>2. /\ IndexInv /\ Good(app) /\ app \in App
        /\ Shown(app, lexical, semantic) /\ Told(app, semantic)
    BY AppIsShown
  <1>3. Good(edited)
    <2>1. edited \in App BY <1>1, <1>2, Zenon DEF App
    <2>2. SameMessages(app, edited) /\ edited.generation = app.generation
      BY <1>1, <1>2 DEF App, SameMessages
    <2> QED BY <1>2, <2>1, <2>2, QuietChange
  <1>4. /\ SameSearches(app, edited)
        /\ edited.search_tx = app.search_tx
        /\ edited.corpus_version = app.corpus_version
        /\ edited.layout = app.layout /\ edited.mode = app.mode
        /\ edited.loading = app.loading /\ edited.filtered = app.filtered
        /\ edited.shown_query = app.shown_query
        /\ edited.settled = app.settled
    BY <1>1, <1>2 DEF App, SameSearches
  <1>5. Told(edited, semantic) BY <1>2, <1>4, ToldOfSame
  <1>6. LexicalAsks(edited, lexical)
    BY <1>2, <1>4, LexicalAsksSame DEF SameSearches, Shown, Searching
  <1>7. Searching(edited, lexical, semantic)
    BY <1>2, <1>4, <1>6, SearchingQuiet DEF Shown
  <1>8. Rows(edited)
    BY <1>2, <1>4
       DEF Shown, Rows, ShowsWhatItSays, AnswersIn, SameSearches
  <1>9. edited.sending = <<>>
    BY <1>4 DEF EditQuery, CanHandle, SameSearches
  <1>10. Edited(edited) BY <1>3, <1>5, <1>7, <1>8, <1>9 DEF Edited
  <1>11. CASE app.loading /\ Becomes(edited)
    <2>1. PrewarmAlone(edited)
      BY <1>2, <1>4, <1>11
         DEF Shown, PrewarmAlone, IsPrewarming, SameSearches
    <2>2. Shown(edited, lexical, semantic)
      BY <1>9, <1>10, <2>1 DEF Edited, Shown, SendingIsCurrent
    <2> QED BY <1>3, <1>11, <2>2, BecomesShown
  <1>12. CASE Becomes(dispatch_search(edited, loads))
    <2>1. Good(dispatch_search(edited, loads))
      BY <1>2, <1>3, DispatchGood DEF IndexInv
    <2>2. Shown(dispatch_search(edited, loads), lexical, semantic)
      BY <1>2, <1>10, DispatchShown
    <2> QED BY <1>12, <2>1, <2>2, BecomesShown
  <1> QED BY <1>1, <1>11, <1>12 DEF EditQuery

(* The workspace filter is toggled.                                        *)
LEMMA ToggleFilterShown ==
  ASSUME ShownInv, NEW loads \in BOOLEAN, toggle_workspace_filter(loads)
  PROVE  ShownInv'
  <1>1. /\ IndexInv /\ TypeOK /\ Good(app) /\ app \in App
        /\ Told(app, semantic) /\ ShowsWhatItSays(app)
    BY AppIsShown
  <1>2. PICK toggled : toggled = [app EXCEPT !.filter = ~@] OBVIOUS
  <1>3. PICK a : a = invalidate_search_generation(toggled) OBVIOUS
  <1>4. PICK narrowed : narrowed = [a EXCEPT !.filtered.filter = @ \/ a.filter]
    OBVIOUS
  <1>5. Good(toggled)
    <2>1. PICK f \in BOOLEAN : f = ~app.filter OBVIOUS
    <2>2. toggled = [app EXCEPT !.filter = f] BY <1>2, <2>1, Zenon
    <2>3. toggled \in App BY <1>1, <2>2, Zenon DEF App
    <2>4. SameMessages(app, toggled) /\ toggled.generation = app.generation
      BY <1>1, <2>2 DEF App, SameMessages
    <2> QED BY <1>1, <2>3, <2>4, QuietChange
  <1>6. /\ toggled.corpus_version = app.corpus_version
        /\ toggled.layout = app.layout
        /\ toggled.scope_version = app.scope_version
        /\ toggled.sent_scope = app.sent_scope
        /\ toggled.sending = app.sending /\ toggled.worker_tx = app.worker_tx
        /\ toggled.filtered = app.filtered
        /\ toggled.shown_query = app.shown_query
        /\ toggled.dispatched = app.dispatched
    BY <1>1, <1>2 DEF App
  <1>7. Told(toggled, semantic)
    <2>1. Queue(toggled) = Queue(app) BY <1>6 DEF Queue
    <2>2. \A m : InQueue(toggled, m) => InQueue(app, m) BY <2>1 DEF InQueue
    <2> QED BY <1>1, <1>6, <2>2, ToldQuiet
  <1>8. ShowsWhatItSays(toggled) /\ toggled.sending = <<>>
    BY <1>1, <1>6 DEF ShowsWhatItSays, toggle_workspace_filter, CanHandle
  <1>9. Bounded(toggled) BY <1>5 DEF Good, Safe, Bounded
  <1>10. /\ Shown(a, lexical, semantic) /\ a.sending = <<>>
         /\ a.settled = FALSE
    BY <1>1, <1>3, <1>7, <1>8, <1>9, InvalidateShown
  <1>11. Good(a) BY <1>1, <1>3, <1>5, GoodIsReady, InvalidateGood
  <1>12. PICK rows \in Filtered :
           /\ narrowed = [a EXCEPT !.filtered = rows]
           /\ rows.query = a.filtered.query
    <2>1. a \in App /\ a.filtered \in Filtered BY <1>11 DEF Good, App
    <2>2. (a.filtered.filter \/ a.filter) \in BOOLEAN OBVIOUS
    <2>3. [a.filtered EXCEPT !.filter = @ \/ a.filter] \in Filtered
      BY <2>1, <2>2, Zenon DEF Filtered
    <2>4. [a.filtered EXCEPT !.filter = @ \/ a.filter].query = a.filtered.query
      BY <2>1 DEF Filtered
    <2>5. narrowed = [a EXCEPT !.filtered =
                                 [a.filtered EXCEPT !.filter = @ \/ a.filter]]
      BY <1>4, Zenon
    <2> QED BY <2>3, <2>4, <2>5
  <1>13. narrowed \in App BY <1>11, <1>12, Zenon DEF Good, App
  <1>14. /\ SameSearches(a, narrowed) /\ SameMessages(a, narrowed)
         /\ narrowed.query = a.query /\ narrowed.loading = a.loading
         /\ narrowed.settled = a.settled /\ narrowed.filtered = rows
         /\ narrowed.shown_query = a.shown_query
    BY <1>11, <1>12 DEF Good, App, SameSearches, SameMessages
  <1>15. Good(narrowed)
    BY <1>11, <1>13, <1>14, QuietChange DEF SameSearches
  <1>16. Shown(narrowed, lexical, semantic)
    <2>1. Told(narrowed, semantic)
      BY <1>10, <1>14, ToldOfSame DEF Shown, SameMessages
    <2>2. LexicalAsks(narrowed, lexical)
      BY <1>10, <1>14, LexicalAsksSame
         DEF Shown, Searching, SameSearches, SameMessages
    <2>3. Rows(narrowed)
      BY <1>10, <1>12, <1>14 DEF Shown, Rows, ShowsWhatItSays, SameSearches
    <2> QED BY <1>10, <1>11, <1>14, <2>1, <2>2, <2>3, ShownRows DEF Good
  <1>17. narrowed.sending = <<>> BY <1>10, <1>14 DEF SameSearches
  <1>18. CASE Becomes(dispatch_search(narrowed, loads))
    <2>1. Edited(narrowed) BY <1>15, <1>16, <1>17, ShownIsEdited
    <2>2. Shown(dispatch_search(narrowed, loads), lexical, semantic)
      BY <1>1, <2>1, DispatchShown
    <2>3. Good(dispatch_search(narrowed, loads))
      BY <1>1, <1>15, DispatchGood
    <2> QED BY <1>18, <2>2, <2>3, BecomesShown
  <1>19. CASE Becomes(update_filter(a, loads))
    <2>1. Shown(update_filter(a, loads), lexical, semantic)
      BY <1>10, <1>11, UpdateFilterShown DEF Good, UpdatesRows
    <2>2. Good(update_filter(a, loads)) BY <1>1, <1>11, UpdateFilterGood
    <2> QED BY <1>19, <2>1, <2>2, BecomesShown
  <1> QED BY <1>2, <1>3, <1>4, <1>18, <1>19 DEF toggle_workspace_filter

(* The search mode is toggled.                                             *)
LEMMA ToggleModeShown ==
  ASSUME ShownInv, NEW loads \in BOOLEAN, toggle_list_search_mode(loads)
  PROVE  ShownInv'
  <1>1. /\ IndexInv /\ TypeOK /\ Good(app) /\ app \in App
        /\ Told(app, semantic) /\ ShowsWhatItSays(app)
    BY AppIsShown
  <1>2. PICK other \in Mode :
          other = IF app.mode = "Lexical" THEN "Semantic" ELSE "Lexical"
    BY DEF Mode
  <1>3. PICK toggled : toggled = [app EXCEPT !.mode = other] OBVIOUS
  <1>4. PICK a : a = invalidate_search_generation(toggled) OBVIOUS
  <1>5. Good(toggled)
    <2>1. toggled \in App BY <1>1, <1>2, <1>3, Zenon DEF App
    <2>2. SameMessages(app, toggled) /\ toggled.generation = app.generation
      BY <1>1, <1>3 DEF App, SameMessages
    <2> QED BY <1>1, <2>1, <2>2, QuietChange
  <1>6. /\ SameSearches(app, toggled)
        /\ toggled.corpus_version = app.corpus_version
        /\ toggled.layout = app.layout
        /\ toggled.filtered = app.filtered
        /\ toggled.shown_query = app.shown_query
    BY <1>1, <1>3 DEF App, SameSearches
  <1>7. Told(toggled, semantic) BY <1>1, <1>6, ToldOfSame
  <1>8. ShowsWhatItSays(toggled) /\ toggled.sending = <<>>
    BY <1>1, <1>6
       DEF ShowsWhatItSays, toggle_list_search_mode, CanHandle, SameSearches
  <1>9. Bounded(toggled) BY <1>5 DEF Good, Safe, Bounded
  <1>10. /\ Shown(a, lexical, semantic) /\ a.sending = <<>>
         /\ a.dispatched = None
    BY <1>1, <1>4, <1>7, <1>8, <1>9, InvalidateShown
  <1>11. Good(a) BY <1>1, <1>4, <1>5, GoodIsReady, InvalidateGood
  <1>12. CASE Becomes(prewarm_semantic_cache(a))
    <2>1. Shown(prewarm_semantic_cache(a), lexical, semantic)
      BY <1>1, <1>10, <1>11, PrewarmShown
    <2>2. Good(prewarm_semantic_cache(a)) BY <1>1, <1>11, PrewarmGood
    <2> QED BY <1>12, <2>1, <2>2, BecomesShown
  <1>13. CASE Becomes(dispatch_search(a, loads))
    <2>1. Edited(a) BY <1>10, <1>11, ShownIsEdited
    <2>2. Shown(dispatch_search(a, loads), lexical, semantic)
      BY <1>1, <2>1, DispatchShown
    <2>3. Good(dispatch_search(a, loads)) BY <1>1, <1>11, DispatchGood
    <2> QED BY <1>13, <2>2, <2>3, BecomesShown
  <1> QED BY <1>2, <1>3, <1>4, <1>12, <1>13 DEF toggle_list_search_mode

(* What moves the rows leaves the searches alone.                          *)
Moved(a, b) ==
  /\ b.generation = a.generation /\ b.corpus_version = a.corpus_version
  /\ b.scope_version = a.scope_version /\ b.sent_scope = a.sent_scope
  /\ b.search_tx = a.search_tx /\ b.search_rx = a.search_rx
  /\ b.sending = a.sending
  /\ b.worker_tx = a.worker_tx /\ b.worker_rx = a.worker_rx
  /\ b.dispatched = a.dispatched /\ b.shown_query = a.shown_query
  /\ b.filtered.query = a.filtered.query

(* The rows are sent again, wherever they are now.                         *)
LEMMA ResendShown ==
  ASSUME IndexInv, Good(app), Told(app, semantic), ShowsWhatItSays(app),
         app.sending = <<>>, NEW a \in App, Moved(app, a),
         NEW b, b = send_search_data(replace_conversations_snapshot(a))
  PROVE  /\ Bounded(a) /\ Ready(b)
         /\ Told(b, semantic) /\ b.sending = <<>> /\ ShowsWhatItSays(b)
  <1>1. Bounded(a) BY MovedRowsBounded DEF Moved
  <1>2. Ready(b) BY <1>1, ResendReady DEF IndexInv
  <1>3. /\ b.corpus_version = a.corpus_version + 1
        /\ b.scope_version = a.scope_version /\ b.sent_scope = None
        /\ b.sending = a.sending /\ b.worker_tx = a.worker_tx
        /\ b.dispatched = a.dispatched /\ b.shown_query = a.shown_query
        /\ b.filtered = a.filtered
    BY DEF App, send_search_data, replace_conversations_snapshot
  <1>4. Queue(b) = Queue(app) BY <1>3 DEF Queue, Moved
  <1>5. Told(b, semantic)
    BY <1>3, <1>4, ToldNewCorpus DEF Good, Moved
  <1>6. b.sending = <<>> /\ ShowsWhatItSays(b)
    BY <1>3 DEF Moved, ShowsWhatItSays
  <1> QED BY <1>1, <1>2, <1>5, <1>6

(* Sent again in a new generation, they are shown.                         *)
LEMMA RefreshShown ==
  ASSUME ShownInv, app.sending = <<>>, NEW a \in App, Moved(app, a),
         NEW b, b = refresh_search_data(a)
  PROVE  /\ Good(b) /\ Shown(b, lexical, semantic)
         /\ b.sending = <<>> /\ b.dispatched = None
  <1>1. /\ IndexInv /\ TypeOK /\ Good(app)
        /\ Told(app, semantic) /\ ShowsWhatItSays(app)
    BY AppIsShown
  <1>2. PICK c : c = send_search_data(replace_conversations_snapshot(a))
    OBVIOUS
  <1>3. /\ Bounded(a) /\ Ready(c)
        /\ Told(c, semantic) /\ c.sending = <<>> /\ ShowsWhatItSays(c)
    BY <1>1, <1>2, ResendShown
  <1>4. b = invalidate_search_generation(c) BY <1>2 DEF refresh_search_data
  <1>5. Bounded(c) BY <1>3 DEF Ready, Bounded
  <1>6. Good(b) BY <1>1, <1>3, RefreshGood
  <1> QED BY <1>1, <1>3, <1>4, <1>5, <1>6, InvalidateShown

(* The rows move, the searches do not.                                     *)
LEMMA RelayoutMoves ==
  ASSUME NEW a \in App
  PROVE  Relayout(a) \in App /\ Moved(a, Relayout(a))
  <1>1. Relayout(a) \in App BY RelayoutTyped
  <1>2. a.filtered \in Filtered BY DEF App
  <1>3. Relayout(a).filtered.query = a.filtered.query
    BY <1>2 DEF App, Filtered, Relayout
  <1>4. /\ Relayout(a).dispatched = a.dispatched
        /\ Relayout(a).shown_query = a.shown_query
    BY DEF App, Relayout
  <1> QED BY <1>1, <1>3, <1>4, RelayoutTyped DEF Moved

(* A session is deleted.                                                   *)
LEMMA RemoveShown ==
  ASSUME ShownInv, remove_selected_from_list
  PROVE  ShownInv'
  <1>1. app \in App /\ app.sending = <<>>
    BY AppIsShown DEF remove_selected_from_list, CanHandle
  <1>2. PICK r : r = Relayout(app) OBVIOUS
  <1>3. PICK b : b = [r EXCEPT !.count = @ - 1] OBVIOUS
  <1>4. r \in App /\ Moved(app, r) BY <1>1, <1>2, RelayoutMoves
  <1>5. r.count - 1 \in Nat
    <2>1. r.count = app.count BY <1>1, <1>2, RelayoutTyped
    <2>2. app.count \in Nat BY <1>1 DEF App
    <2> QED BY <2>1, <2>2 DEF remove_selected_from_list
  <1>6. b \in App BY <1>3, <1>4, <1>5, Zenon DEF App
  <1>7. Moved(app, b) BY <1>3, <1>4 DEF App, Moved
  <1>8. /\ Good(refresh_search_data(b))
        /\ Shown(refresh_search_data(b), lexical, semantic)
    BY <1>1, <1>6, <1>7, RefreshShown
  <1>9. Becomes(refresh_search_data(b))
    BY <1>2, <1>3 DEF remove_selected_from_list
  <1> QED BY <1>8, <1>9, BecomesShown

(* A session is renamed.                                                   *)
LEMMA RenameShown ==
  ASSUME ShownInv, NEW loads \in BOOLEAN, show_renamed_session(loads)
  PROVE  ShownInv'
  <1>1. app \in App /\ app.sending = <<>> /\ TypeOK
    BY AppIsShown DEF show_renamed_session, CanHandle
  <1>2. PICK b : b = refresh_search_data(app) OBVIOUS
  <1>3. Moved(app, app) BY DEF Moved
  <1>4. Good(b) /\ Shown(b, lexical, semantic)
    BY <1>1, <1>2, <1>3, RefreshShown
  <1>5. /\ Good(update_filter(b, loads))
        /\ Shown(update_filter(b, loads), lexical, semantic)
    BY <1>1, <1>4, UpdateFilterGood, UpdateFilterShown DEF Good, UpdatesRows
  <1>6. Becomes(update_filter(b, loads)) BY <1>2 DEF show_renamed_session
  <1> QED BY <1>5, <1>6, BecomesShown

(* The list is refreshed.                                                  *)
LEMMA EditListShown ==
  ASSUME ShownInv, NEW loads \in BOOLEAN, edit_list(loads)
  PROVE  ShownInv'
  <1>1. app \in App /\ app.sending = <<>> /\ IndexInv /\ TypeOK
    BY AppIsShown DEF edit_list, CanHandle
  <1>2. PICK r : r = Relayout(app) OBVIOUS
  <1>3. PICK b : b = refresh_search_data(r) OBVIOUS
  <1>4. r \in App /\ Moved(app, r) BY <1>1, <1>2, RelayoutMoves
  <1>5. /\ Good(b) /\ Shown(b, lexical, semantic)
        /\ b.sending = <<>> /\ b.dispatched = None
    BY <1>1, <1>3, <1>4, RefreshShown
  <1>6. /\ Good(rerun_query(b, loads))
        /\ Shown(rerun_query(b, loads), lexical, semantic)
    BY <1>1, <1>5, RerunGood, RerunShown
  <1>7. Becomes(rerun_query(b, loads)) BY <1>2, <1>3 DEF edit_list
  <1> QED BY <1>6, <1>7, BecomesShown

(* The loader streams a session.                                           *)
LEMMA AppendShown ==
  ASSUME ShownInv, append_conversations
  PROVE  ShownInv'
  <1>1. /\ Good(app) /\ app \in App /\ Shown(app, lexical, semantic)
        /\ Told(app, semantic) /\ app.count + 1 \in Nat
    BY AppIsShown DEF App
  <1>2. PICK b : b = [app EXCEPT !.count = @ + 1] OBVIOUS
  <1>3. b \in App BY <1>1, <1>2, Zenon DEF App
  <1>4. /\ SameMessages(app, b) /\ SameSearches(app, b)
        /\ b.query = app.query /\ b.loading = app.loading
        /\ b.mode = app.mode /\ b.filtered = app.filtered
        /\ b.shown_query = app.shown_query /\ b.settled = app.settled
    BY <1>1, <1>2 DEF App, SameMessages, SameSearches
  <1>5. Good(b) BY <1>1, <1>3, <1>4, QuietChange DEF SameSearches
  <1>6. Told(b, semantic) BY <1>1, <1>4, ToldOfSame DEF SameMessages
  <1>7. LexicalAsks(b, lexical)
    BY <1>1, <1>4, LexicalAsksSame DEF Shown, Searching, SameMessages,
       SameSearches
  <1>8. Rows(b)
    BY <1>1, <1>4 DEF Shown, Rows, ShowsWhatItSays, AnswersIn, SameSearches,
       SameMessages
  <1>9. Shown(b, lexical, semantic)
    BY <1>1, <1>4, <1>6, <1>7, <1>8, ShownRows
  <1>10. Becomes(b) BY <1>2 DEF append_conversations
  <1> QED BY <1>5, <1>9, <1>10, BecomesShown

(* The loader ends.                                                        *)
LEMMA FinishLoadingShown ==
  ASSUME ShownInv, NEW loads \in BOOLEAN, finish_loading(loads)
  PROVE  ShownInv'
  <1>1. /\ IndexInv /\ TypeOK /\ Good(app) /\ app \in App
        /\ Told(app, semantic) /\ ShowsWhatItSays(app) /\ app.sending = <<>>
    BY AppIsShown DEF finish_loading
  <1>2. PICK moved : moved = [app EXCEPT !.layout = @ + 1] OBVIOUS
  <1>3. PICK sorted :
          sorted = send_search_data(replace_conversations_snapshot(moved))
    OBVIOUS
  <1>4. PICK ready : ready = [sorted EXCEPT !.loading = FALSE] OBVIOUS
  <1>5. PICK b : b = invalidate_search_generation(ready) OBVIOUS
  <1>6. moved \in App
    <2>1. app.layout + 1 \in Nat BY <1>1, SMTT(40) DEF App
    <2> QED BY <1>1, <1>2, <2>1, Zenon DEF App
  <1>7. Moved(app, moved) BY <1>1, <1>2 DEF App, Moved
  <1>8. /\ Ready(sorted) /\ Told(sorted, semantic)
        /\ sorted.sending = <<>> /\ ShowsWhatItSays(sorted)
    BY <1>1, <1>3, <1>6, <1>7, ResendShown
  <1>9. sorted \in App /\ ready \in App
    <2>1. sorted \in App BY <1>8 DEF Ready
    <2> QED BY <1>4, <2>1, Zenon DEF App
  <1>10. /\ SameMessages(sorted, ready) /\ SameSearches(sorted, ready)
         /\ ready.shown_query = sorted.shown_query
         /\ ready.filtered = sorted.filtered
    BY <1>4, <1>9 DEF App, SameMessages, SameSearches
  <1>11. Ready(ready)
    BY <1>8, <1>9, <1>10 DEF Ready, SameMessages, SameSearches,
       SendingEndsInSearch, DataIsLatest, NothingIsNewer, SearchIsPast,
       CorpusIsPast, RequestIsPast
  <1>12. /\ Told(ready, semantic) /\ ready.sending = <<>>
         /\ ShowsWhatItSays(ready)
    BY <1>8, <1>10, ToldOfSame DEF SameMessages, SameSearches, ShowsWhatItSays
  <1>13. Bounded(ready) BY <1>11 DEF Ready, Bounded
  <1>14. /\ Shown(b, lexical, semantic) /\ b.sending = <<>>
         /\ b.dispatched = None
    BY <1>1, <1>5, <1>12, <1>13, InvalidateShown
  <1>15. Good(b) BY <1>1, <1>5, <1>11, InvalidateGood
  <1>16. /\ Good(rerun_query(b, loads))
         /\ Shown(rerun_query(b, loads), lexical, semantic)
    BY <1>1, <1>14, <1>15, RerunGood, RerunShown
  <1>17. Becomes(rerun_query(b, loads))
    BY <1>2, <1>3, <1>4, <1>5 DEF finish_loading
  <1> QED BY <1>16, <1>17, BecomesShown

-----------------------------------------------------------------------------
(* One send of a dispatch *)

(* The last command to send is in the queue.                               *)
LEMMA QueueLast ==
  ASSUME NEW a \in App, a.sending # <<>>
  PROVE  \E i \in 1 .. Len(Queue(a)) :
           Queue(a)[i] = a.sending[Len(a.sending)]
  <1>1. a.worker_tx \in Seq(SemanticCommand) /\ a.sending \in Seq(SemanticCommand)
    BY QueueTyped
  <1>2. ASSUME NEW s \in Seq(SemanticCommand), NEW t \in Seq(SemanticCommand),
               t # <<>>
        PROVE  \E i \in 1 .. Len(s \o t) : (s \o t)[i] = t[Len(t)]
    <2>1. /\ Len(s) \in Nat /\ Len(t) \in Nat /\ Len(t) >= 1
          /\ Len(s \o t) = Len(s) + Len(t)
      BY <1>2
    <2>2. /\ Len(s) + Len(t) \in 1 .. Len(s \o t)
          /\ (s \o t)[Len(s) + Len(t)] = t[Len(t)]
      BY <2>1
    <2> QED BY <2>2
  <1>3. \E i \in 1 .. Len(a.worker_tx \o a.sending) :
          (a.worker_tx \o a.sending)[i] = a.sending[Len(a.sending)]
    BY <1>1, <1>2
  <1> QED BY <1>3, Zenon DEF Queue

(* To a live worker, a command goes into the channel.                      *)
LEMMA MoveSendingShown ==
  ASSUME NEW a \in App, Shown(a, lexical, semantic), a.sending # <<>>,
         NEW b, b = [a EXCEPT !.worker_tx = Append(@, Head(a.sending)),
                              !.sending = Tail(@)]
  PROVE  Shown(b, lexical, semantic)
  <1>1. /\ b.generation = a.generation /\ b.prewarm = a.prewarm
        /\ b.pending = a.pending /\ b.cancelled = a.cancelled
        /\ b.dispatched = a.dispatched /\ b.filter = a.filter
        /\ b.query = a.query /\ b.mode = a.mode /\ b.loading = a.loading
        /\ b.layout = a.layout /\ b.corpus_version = a.corpus_version
        /\ b.scope_version = a.scope_version /\ b.sent_scope = a.sent_scope
        /\ b.shown_query = a.shown_query /\ b.settled = a.settled
        /\ b.filtered = a.filtered
        /\ b.search_rx = a.search_rx /\ b.search_tx = a.search_tx
        /\ b.worker_rx = a.worker_rx
        /\ b.worker_tx = Append(a.worker_tx, Head(a.sending))
        /\ b.sending = Tail(a.sending)
    BY DEF App
  <1>2. Queue(b) = Queue(a) BY <1>1, QueueMoves
  <1>3. Told(b, semantic)
    <2>1. \A m : InQueue(b, m) => InQueue(a, m) BY <1>2 DEF InQueue
    <2> QED BY <1>1, <2>1, ToldQuiet DEF Shown
  <1>4. Rows(b) BY <1>1 DEF Shown, Rows, ShowsWhatItSays, AnswersIn
  <1>5. SemanticSide(b, semantic)
    BY <1>1, <1>2, SemanticSideQuiet DEF Shown, Searching
  <1>6. LexicalAsks(b, lexical)
    BY <1>1, LexicalAsksSame DEF Shown, Searching
  <1>7. /\ NotCancelled(b, semantic) /\ PrewarmFirst(b) /\ PrewarmAlone(b)
    BY <1>1 DEF Shown, Searching, NotCancelled, PrewarmFirst, PrewarmAlone,
       IsPrewarming
  <1>8. SendingIsCurrent(b)
    <2>1. a.sending \in Seq(SemanticCommand) BY DEF App
    <2>2. b.sending # <<>> => b.sending[Len(b.sending)] = a.sending[Len(a.sending)]
      BY <1>1, <2>1
    <2> QED BY <1>1, <2>2 DEF Shown, SendingIsCurrent
  <1> QED BY <1>3, <1>4, <1>5, <1>6, <1>7, <1>8 DEF Shown, Searching

(* To a worker that died, all that the search needs is sent again, and the *)
(* search is the same.                                                     *)
LEMMA SendAgainShown ==
  ASSUME ShownInv, app.sending # <<>>, ~semantic.alive,
         NEW search, search = app.sending[Len(app.sending)],
         NEW b, b = send_semantic_search(
                      send_semantic_state(reset_semantic_worker(
                        [app EXCEPT !.sending = <<>>])), search.prewarm)
  PROVE  Shown(b, lexical, semantic)
  <1>1. /\ IndexInv /\ TypeOK /\ Good(app) /\ app \in App
        /\ Shown(app, lexical, semantic) /\ WorkerKnows(semantic)
    BY AppIsShown
  <1>2. /\ search.type = "Search" /\ search.generation = app.generation
        /\ ~search.prewarm => search.query = app.query
    BY <1>1 DEF IndexInv, SendingEndsInSearch, Shown, SendingIsCurrent
  <1>3. PICK n \in 1 .. Len(Queue(app)) : Queue(app)[n] = search
    BY <1>1, QueueLast
  <1>4. /\ QueueHas(app, n) /\ InQueue(app, search)
        /\ IsSearch(app, semantic, search) /\ IsCurrent(app, semantic, search)
    BY <1>2, <1>3 DEF QueueHas, InQueue, IsSearch, IsCurrent
  <1>5. search.prewarm \in BOOLEAN
    <2>1. search \in SemanticCommand BY <1>1, <1>4, QueueTyped
    <2>2. search \in SemanticSearch BY <1>2, <2>1 DEF SemanticCommand
    <2> QED BY <2>2 DEF SemanticSearch
  <1>6. /\ Asks(app, search) /\ app.generation >= 1
        /\ ~IsRequest(app, semantic.pending_search)
    BY <1>1, <1>2, <1>4
       DEF Shown, Searching, SemanticSide, SemanticAsks, OneSearch, Told,
           SearchesKnown
  <1>7. semantic.request = None BY <1>1 DEF WorkerKnows
  <1>8. PICK a : a = [app EXCEPT !.sending = <<>>] OBVIOUS
  <1>9. Good(a) BY <1>1, <1>8, ClearSendingGood
  <1>10. PICK c : c = reset_semantic_worker(a) OBVIOUS
  <1>11. Good(c) BY <1>1, <1>9, <1>10, ResetWorkerGood
  <1>12. /\ c.generation = app.generation /\ c.prewarm = app.prewarm
         /\ c.pending = app.pending /\ c.cancelled = FALSE
         /\ c.dispatched = app.dispatched /\ c.filter = app.filter
         /\ c.query = app.query /\ c.mode = app.mode
         /\ c.loading = app.loading
         /\ c.layout = app.layout /\ c.corpus_version = app.corpus_version
         /\ c.scope_version = app.scope_version /\ c.sent_scope = None
         /\ c.shown_query = app.shown_query /\ c.settled = app.settled
         /\ c.filtered = app.filtered
         /\ c.search_rx = app.search_rx /\ c.search_tx = app.search_tx
         /\ c.worker_tx = <<>> /\ c.worker_rx = <<>> /\ c.sending = <<>>
    BY <1>1, <1>8, <1>10 DEF App, reset_semantic_worker
  <1>13. \A i : i \notin 1 .. Len(Queue(c))
    BY <1>11, <1>12, QueueElements DEF Good
  <1>14. Unsent(c)
    <2>1. Told(c, semantic)
      <3>1. \A m : ~InQueue(c, m) BY <1>13 DEF InQueue
      <3> QED BY <1>1, <1>12, <3>1, ToldQuiet DEF Shown
    <2>2. Rows(c)
      BY <1>1, <1>12 DEF Shown, Rows, ShowsWhatItSays, AnswersIn
    <2>3. NotCancelled(c, semantic) BY <1>12 DEF NotCancelled
    <2>4. NothingCurrent(c, semantic)
      <3>1. \A i : ~QueueHas(c, i) BY <1>13 DEF QueueHas
      <3>2. \A i : ~IsAnswer(c, i) BY <1>12 DEF IsAnswer
      <3> QED BY <1>6, <1>7, <1>12, <3>1, <3>2 DEF NothingCurrent, IsRequest
    <2>5. LexicalAsks(c, lexical)
      BY <1>1, <1>12, LexicalAsksSame DEF Shown, Searching
    <2>6. PrewarmFirst(c) /\ PrewarmAlone(c)
      BY <1>1, <1>12 DEF Shown, Searching, PrewarmFirst, PrewarmAlone,
         IsPrewarming
    <2> QED BY <2>1, <2>2, <2>3, <2>4, <2>5, <2>6 DEF Unsent
  <1>15. PICK e : e = send_semantic_state(c) OBVIOUS
  <1>16. /\ Unsent(e) /\ SameSearch(c, e) /\ e.sent_scope = ScopeOf(e)
         /\ e \in App
    <2>1. Dispatching(c) BY <1>11 DEF Good, Dispatching, SendingEndsInSearch
    <2> QED BY <1>14, <1>15, <2>1, UnsentState DEF Dispatching
  <1>17. /\ e.generation >= 1
         /\ IF search.prewarm THEN e.prewarm = e.generation
                              ELSE AsksForDispatched(e, e.query)
    BY <1>2, <1>6, <1>12, <1>16 DEF SameSearch, Asks, AsksForDispatched
  <1>18. b = send_semantic_search(e, search.prewarm)
    BY <1>8, <1>10, <1>15
  <1> QED BY <1>5, <1>16, <1>17, <1>18, SearchSent

(* One send, to a live worker or a new one.                                *)
LEMMA SendNextShown ==
  ASSUME ShownInv, SendNext
  PROVE  ShownInv'
  <1>1. IndexInv' BY SendNextInv DEF ShownInv
  <1>2. /\ app \in App /\ Shown(app, lexical, semantic) /\ app.sending # <<>>
    BY AppIsShown DEF SendNext
  <1>3. CASE semantic.alive
    <2>1. PICK b : b = [app EXCEPT !.worker_tx = Append(@, Head(app.sending)),
                                   !.sending = Tail(@)]
      OBVIOUS
    <2>2. Becomes(b) BY <1>3, <2>1 DEF SendNext
    <2>3. Shown(b, lexical, semantic) BY <1>2, <2>1, MoveSendingShown
    <2> QED BY <1>1, <2>2, <2>3, BecomesWhatIsShown
  <1>4. CASE ~semantic.alive
    <2>1. PICK search : search = app.sending[Len(app.sending)] OBVIOUS
    <2>2. PICK b : b = send_semantic_search(
                         send_semantic_state(reset_semantic_worker(
                           [app EXCEPT !.sending = <<>>])), search.prewarm)
      OBVIOUS
    <2>3. Becomes(b) BY <1>4, <2>1, <2>2 DEF SendNext
    <2>4. Shown(b, lexical, semantic)
      BY <1>2, <1>4, <2>1, <2>2, SendAgainShown
    <2> QED BY <1>1, <2>3, <2>4, BecomesWhatIsShown
  <1> QED BY <1>3, <1>4

-----------------------------------------------------------------------------
(* The answers *)

(* A response leaves the search worker's channel.                          *)
LEMMA TakeResponseShown ==
  ASSUME NEW a \in App, Shown(a, lexical, semantic), a.search_rx # <<>>,
         NEW b, b = [a EXCEPT !.search_rx = Tail(@)]
  PROVE  Shown(b, lexical, semantic)
  <1>1. /\ b.generation = a.generation /\ b.prewarm = a.prewarm
        /\ b.pending = a.pending /\ b.cancelled = a.cancelled
        /\ b.dispatched = a.dispatched /\ b.filter = a.filter
        /\ b.query = a.query /\ b.mode = a.mode /\ b.loading = a.loading
        /\ b.layout = a.layout /\ b.corpus_version = a.corpus_version
        /\ b.scope_version = a.scope_version /\ b.sent_scope = a.sent_scope
        /\ b.shown_query = a.shown_query /\ b.settled = a.settled
        /\ b.filtered = a.filtered
        /\ b.search_rx = Tail(a.search_rx) /\ b.search_tx = a.search_tx
        /\ b.worker_rx = a.worker_rx
        /\ b.worker_tx = a.worker_tx /\ b.sending = a.sending
    BY DEF App
  <1>2. Queue(b) = Queue(a) BY <1>1 DEF Queue
  <1>3. Told(b, semantic)
    <2>1. \A m : InQueue(b, m) => InQueue(a, m) BY <1>2 DEF InQueue
    <2> QED BY <1>1, <2>1, ToldQuiet DEF Shown
  <1>4. Rows(b) BY <1>1 DEF Shown, Rows, ShowsWhatItSays, AnswersIn
  <1>5. SemanticSide(b, semantic)
    BY <1>1, <1>2, SemanticSideQuiet DEF Shown, Searching
  <1>6. LexicalAsks(b, lexical)
    <2>1. a.search_rx \in Seq(SearchResponse) BY DEF App
    <2>2. \A i \in 1 .. Len(b.search_rx) :
            i + 1 \in 1 .. Len(a.search_rx)
            /\ b.search_rx[i] = a.search_rx[i + 1]
      BY <1>1, <2>1
    <2> QED BY <1>1, <2>2
        DEF Shown, Searching, LexicalAsks, AsksForDispatched
  <1>7. /\ NotCancelled(b, semantic) /\ PrewarmFirst(b) /\ PrewarmAlone(b)
        /\ SendingIsCurrent(b)
    BY <1>1 DEF Shown, Searching, NotCancelled, PrewarmFirst, PrewarmAlone,
       IsPrewarming, SendingIsCurrent
  <1> QED BY <1>3, <1>4, <1>5, <1>6, <1>7 DEF Shown, Searching

(* A lexical response is shown or dropped.                                 *)
LEMMA ReceiveLexicalShown ==
  ASSUME ShownInv, NEW hasRows \in BOOLEAN, receive_lexical(hasRows)
  PROVE  ShownInv'
  <1>1. /\ IndexInv /\ Good(app) /\ app \in App
        /\ Shown(app, lexical, semantic) /\ app.search_rx # <<>>
    BY AppIsShown DEF receive_lexical
  <1>2. IndexInv' BY <1>1, ReceiveLexicalInv
  <1>3. PICK response : response = Head(app.search_rx) OBVIOUS
  <1>4. PICK rest : rest = [app EXCEPT !.search_rx = Tail(@)] OBVIOUS
  <1>5. Shown(rest, lexical, semantic) BY <1>1, <1>4, TakeResponseShown
  <1>6. CASE Becomes(rest) BY <1>2, <1>5, <1>6, BecomesWhatIsShown
  <1>7. PICK isFinal \in BOOLEAN : isFinal = (response.mode = "Lexical")
    OBVIOUS
  <1>8. PICK by : by = (IF isFinal THEN "lexical" ELSE "placeholder") OBVIOUS
  <1>9. PICK b : b = [rest EXCEPT !.shown_query = app.dispatched,
                                  !.settled = isFinal,
                                  !.started = @ /\ ~isFinal]
    OBVIOUS
  <1>10. PICK c : c = apply_filtered(b, response.query, by, response.layout)
    OBVIOUS
  <1>11. CASE AcceptsLexical(app, response) /\ Becomes(c)
    <2>1. rest \in App
      BY <1>1, <1>4, TakeResponseGood DEF Good
    <2>2. /\ app.search_rx \in Seq(SearchResponse)
          /\ 1 \in 1 .. Len(app.search_rx) /\ response = app.search_rx[1]
      BY <1>1, <1>3 DEF App
    <2>3. /\ response.generation = app.generation /\ response.mode = app.mode
      BY <1>11 DEF AcceptsLexical
    <2>4. response.query = app.dispatched /\ app.dispatched \in Text
      BY <1>1, <2>2, <2>3
         DEF Shown, Searching, LexicalAsks, AsksForDispatched
    <2>5. response.layout = app.layout
      BY <1>1, <2>2, <2>3 DEF Good, Safe, AnswersAreCurrent
    <2>6. /\ SameSearches(rest, c) /\ c.search_tx = rest.search_tx
          /\ c.query = rest.query /\ c.loading = rest.loading
          /\ c.corpus_version = rest.corpus_version /\ c.layout = rest.layout
          /\ c.mode = rest.mode
          /\ c.shown_query = app.dispatched /\ c.settled = isFinal
          /\ c.filtered = [query |-> response.query, by |-> by,
                           layout |-> response.layout, filter |-> rest.filter]
      BY <1>9, <1>10, <2>1 DEF App, SameSearches, apply_filtered
    <2>7. /\ rest.dispatched = app.dispatched /\ rest.layout = app.layout
          /\ rest.mode = app.mode
      BY <1>1, <1>4 DEF App
    <2>8. None \notin Text BY QueryAssumption
    <2>9. Rows(c)
      <3>1. ShowsWhatItSays(c)
        BY <2>4, <2>6, <2>7, <2>8 DEF ShowsWhatItSays, SameSearches
      <3>2. ASSUME c.settled PROVE AnswersIn(c)
        <4>1. isFinal BY <2>6, <3>2
        <4>2. response.mode = "Lexical" /\ by = "lexical" BY <1>7, <1>8, <4>1
        <4>3. /\ c.filtered.query \in Text /\ c.mode = "Lexical"
              /\ c.filtered.by = "lexical"
          BY <2>3, <2>4, <2>6, <2>7, <4>2
        <4>4. c.filtered.layout = c.layout /\ c.filtered.filter = c.filter
          BY <2>5, <2>6, <2>7 DEF SameSearches
        <4> QED BY <4>3, <4>4 DEF AnswersIn
      <3> QED BY <3>1, <3>2 DEF Rows
    <2>10. Told(c, semantic) BY <1>5, <2>6, ToldOfSame DEF Shown
    <2>11. LexicalAsks(c, lexical)
      BY <1>5, <2>6, LexicalAsksSame DEF Shown, Searching, SameSearches
    <2>12. Shown(c, lexical, semantic)
      BY <1>5, <2>1, <2>6, <2>9, <2>10, <2>11, ShownRows
    <2> QED BY <1>2, <1>11, <2>12, BecomesWhatIsShown
  <1>12. \/ Becomes(rest)
         \/ AcceptsLexical(app, response) /\ Becomes(c)
    <2>1. c = apply_filtered(
                [rest EXCEPT !.shown_query = app.dispatched,
                             !.settled = (response.mode = "Lexical"),
                             !.started = @ /\ ~(response.mode = "Lexical")],
                response.query,
                IF response.mode = "Lexical" THEN "lexical" ELSE "placeholder",
                response.layout)
      BY <1>7, <1>8, <1>9, <1>10
    <2> QED BY <1>3, <1>4, <2>1, Zenon DEF receive_lexical
  <1> QED BY <1>6, <1>11, <1>12

(* A message leaves the semantic worker's channel.  If it is an answer of  *)
(* this generation, it was the only one.                                   *)
LEMMA TakeMessageShown ==
  ASSUME NEW a \in App, Shown(a, lexical, semantic), a.worker_rx # <<>>,
         NEW b, b = [a EXCEPT !.worker_rx = Tail(@)]
  PROVE  /\ Shown(b, lexical, semantic)
         /\ IsAnswer(a, 1) => NothingCurrent(b, semantic)
         /\ Head(a.worker_rx) = a.worker_rx[1] /\ 1 \in 1 .. Len(a.worker_rx)
  <1>1. /\ b.generation = a.generation /\ b.prewarm = a.prewarm
        /\ b.pending = a.pending /\ b.cancelled = a.cancelled
        /\ b.dispatched = a.dispatched /\ b.filter = a.filter
        /\ b.query = a.query /\ b.mode = a.mode /\ b.loading = a.loading
        /\ b.layout = a.layout /\ b.corpus_version = a.corpus_version
        /\ b.scope_version = a.scope_version /\ b.sent_scope = a.sent_scope
        /\ b.shown_query = a.shown_query /\ b.settled = a.settled
        /\ b.filtered = a.filtered
        /\ b.search_rx = a.search_rx /\ b.search_tx = a.search_tx
        /\ b.worker_rx = Tail(a.worker_rx)
        /\ b.worker_tx = a.worker_tx /\ b.sending = a.sending
    BY DEF App
  <1>2. Queue(b) = Queue(a) BY <1>1 DEF Queue
  <1>3. \A m : InQueue(b, m) <=> InQueue(a, m) BY <1>2 DEF InQueue
  <1>4. Told(b, semantic) BY <1>1, <1>3, ToldQuiet DEF Shown
  <1>5. Rows(b) BY <1>1 DEF Shown, Rows, ShowsWhatItSays, AnswersIn
  <1>6. /\ \A i \in 1 .. Len(b.worker_rx) :
             i + 1 \in 1 .. Len(a.worker_rx)
             /\ b.worker_rx[i] = a.worker_rx[i + 1]
        /\ Head(a.worker_rx) = a.worker_rx[1] /\ 1 \in 1 .. Len(a.worker_rx)
    <2>1. a.worker_rx \in Seq(SemanticMessage) BY DEF App
    <2> QED BY <1>1, <2>1
  <1>7. \A i : IsAnswer(b, i) =>
          /\ IsAnswer(a, i + 1) /\ b.worker_rx[i] = a.worker_rx[i + 1]
          /\ i \in Nat /\ i >= 1
    <2>1. \A i \in 1 .. Len(b.worker_rx) : i \in Nat /\ i >= 1
      <3>1. b.worker_rx \in Seq(SemanticMessage) BY <1>1 DEF App
      <3>2. Len(b.worker_rx) \in Nat BY <3>1
      <3> QED BY <3>2
    <2> QED BY <1>1, <1>6, <2>1 DEF IsAnswer
  <1>8. /\ \A i : QueueHas(b, i) <=> QueueHas(a, i)
        /\ \A m : IsRequest(b, m) <=> IsRequest(a, m)
    BY <1>1, <1>2 DEF QueueHas, IsRequest
  <1>9. /\ \A i, j : QueueHas(a, i) /\ QueueHas(a, j) => i = j
        /\ \A i, j : IsAnswer(a, i) /\ IsAnswer(a, j) => i = j
        /\ \A i, j : ~(QueueHas(a, i) /\ IsAnswer(a, j))
        /\ IsRequest(a, semantic.request) =>
             /\ \A i : ~QueueHas(a, i) /\ ~IsAnswer(a, i)
             /\ ~IsRequest(a, semantic.pending_search)
        /\ IsRequest(a, semantic.pending_search) =>
             \A i : ~QueueHas(a, i) /\ ~IsAnswer(a, i)
    BY DEF Shown, Searching, SemanticSide, OneSearch
  <1>10. IsAnswer(a, 1) => NothingCurrent(b, semantic)
    <2> SUFFICES ASSUME IsAnswer(a, 1) PROVE NothingCurrent(b, semantic)
      OBVIOUS
    <2>1. \A i : ~IsAnswer(b, i)
      <3> SUFFICES ASSUME NEW i, IsAnswer(b, i) PROVE FALSE OBVIOUS
      <3>1. IsAnswer(a, i + 1) /\ i \in Nat /\ i >= 1 BY <1>7
      <3>2. i + 1 = 1 BY <1>9, <3>1
      <3> QED BY <3>1, <3>2
    <2> QED BY <1>8, <1>9, <2>1 DEF NothingCurrent
  <1>11. SemanticSide(b, semantic)
    <2>1. OneSearch(b, semantic)
      <3>1. ASSUME NEW i, NEW j, IsAnswer(b, i), IsAnswer(b, j) PROVE i = j
        <4>1. /\ IsAnswer(a, i + 1) /\ i \in Nat
              /\ IsAnswer(a, j + 1) /\ j \in Nat
          BY <1>7, <3>1
        <4>2. i + 1 = j + 1 BY <1>9, <4>1
        <4> QED BY <4>1, <4>2
      <3>2. \A i : IsAnswer(b, i) => IsAnswer(a, i + 1) BY <1>7
      <3>3. /\ \A i, j : QueueHas(b, i) /\ QueueHas(b, j) => i = j
            /\ \A i, j : ~(QueueHas(b, i) /\ IsAnswer(b, j))
        BY <1>8, <1>9, <3>2, Zenon
      <3>4. IsRequest(b, semantic.request) =>
              /\ \A i : ~QueueHas(b, i) /\ ~IsAnswer(b, i)
              /\ ~IsRequest(b, semantic.pending_search)
        BY <1>8, <1>9, <3>2, Zenon
      <3>5. IsRequest(b, semantic.pending_search) =>
              \A i : ~QueueHas(b, i) /\ ~IsAnswer(b, i)
        BY <1>8, <1>9, <3>2, Zenon
      <3> QED BY <3>1, <3>3, <3>4, <3>5, Zenon DEF OneSearch
    <2>2. \A m : Asks(a, m) => Asks(b, m)
      BY <1>1 DEF Asks, AsksForDispatched
    <2>3. SemanticAnswers(b)
      <3>1. ASSUME NEW i, IsAnswer(b, i)
            PROVE  /\ b.generation # NoGeneration
                   /\ Asks(b, b.worker_rx[i])
                   /\ b.worker_rx[i].filter = b.filter
        <4>1. PICK j : j = i + 1 OBVIOUS
        <4>2. IsAnswer(a, j) /\ b.worker_rx[i] = a.worker_rx[j]
          BY <1>7, <3>1, <4>1
        <4>3. /\ a.generation # NoGeneration /\ Asks(a, a.worker_rx[j])
              /\ a.worker_rx[j].filter = a.filter
          BY <4>2, Zenon
             DEF Shown, Searching, SemanticSide, SemanticAnswers
        <4> QED BY <1>1, <2>2, <4>2, <4>3
      <3> QED BY <3>1 DEF SemanticAnswers
    <2>4. SemanticAsks(b, semantic)
      <3>1. \A v, scope : HoldsScope(b, semantic, v, scope)
                            => HoldsScope(a, semantic, v, scope)
        BY <1>1, <1>3 DEF HoldsScope
      <3>2. \A m : IsCurrent(b, semantic, m) => IsCurrent(a, semantic, m)
        BY <1>1, <1>3 DEF IsCurrent, IsSearch
      <3> QED BY <1>1, <2>2, <3>1, <3>2
          DEF Shown, Searching, SemanticSide, SemanticAsks
    <2> QED BY <2>1, <2>3, <2>4 DEF SemanticSide
  <1>12. LexicalAsks(b, lexical)
    BY <1>1, LexicalAsksSame DEF Shown, Searching
  <1>13. /\ NotCancelled(b, semantic) /\ PrewarmFirst(b) /\ PrewarmAlone(b)
         /\ SendingIsCurrent(b)
    BY <1>1 DEF Shown, Searching, NotCancelled, PrewarmFirst, PrewarmAlone,
       IsPrewarming, SendingIsCurrent
  <1> QED BY <1>4, <1>5, <1>6, <1>10, <1>11, <1>12, <1>13 DEF Shown, Searching

(* A prewarm that no search or answer of this generation is of may end.    *)
LEMMA EndPrewarmShown ==
  ASSUME NEW a \in App, Shown(a, lexical, semantic),
         a.prewarm # a.generation \/ NothingCurrent(a, semantic),
         NEW b, b.prewarm = NoGeneration, NotCancelled(b, semantic),
         b.generation = a.generation, b.dispatched = a.dispatched,
         b.filter = a.filter, b.query = a.query, b.mode = a.mode,
         b.layout = a.layout, b.corpus_version = a.corpus_version,
         b.scope_version = a.scope_version, b.sent_scope = a.sent_scope,
         b.shown_query = a.shown_query, b.settled = a.settled,
         b.filtered = a.filtered,
         b.search_rx = a.search_rx, b.search_tx = a.search_tx,
         b.worker_rx = a.worker_rx, b.worker_tx = a.worker_tx,
         b.sending = a.sending
  PROVE  Shown(b, lexical, semantic)
  <1>1. Queue(b) = Queue(a) BY DEF Queue
  <1>2. \A m : InQueue(b, m) <=> InQueue(a, m) BY <1>1 DEF InQueue
  <1>3. Told(b, semantic) BY <1>2, ToldQuiet DEF Shown
  <1>4. Rows(b) BY DEF Shown, Rows, ShowsWhatItSays, AnswersIn
  <1>5. /\ \A i : QueueHas(b, i) <=> QueueHas(a, i)
        /\ \A i : IsAnswer(b, i) <=> IsAnswer(a, i)
        /\ \A m : IsRequest(b, m) <=> IsRequest(a, m)
    BY <1>1 DEF QueueHas, IsAnswer, IsRequest
  <1>6. SemanticSide(b, semantic)
    <2>1. CASE NothingCurrent(a, semantic)
      BY <1>5, <2>1, NothingIsAsked DEF NothingCurrent
    <2>2. CASE a.prewarm # a.generation
      <3>1. \A m : Asks(a, m) => Asks(b, m)
        BY <2>2 DEF Asks, AsksForDispatched
      <3>2. \A v, scope : HoldsScope(b, semantic, v, scope)
                            => HoldsScope(a, semantic, v, scope)
        BY <1>2 DEF HoldsScope
      <3>3. \A m : IsCurrent(b, semantic, m) => IsCurrent(a, semantic, m)
        BY <1>2 DEF IsCurrent, IsSearch
      <3>4. SemanticAsks(b, semantic)
        BY <3>1, <3>2, <3>3 DEF Shown, Searching, SemanticSide, SemanticAsks
      <3>5. SemanticAnswers(b)
        BY <1>5, <3>1 DEF Shown, Searching, SemanticSide, SemanticAnswers
      <3>6. OneSearch(b, semantic)
        BY <1>5 DEF Shown, Searching, SemanticSide, OneSearch
      <3> QED BY <3>4, <3>5, <3>6 DEF SemanticSide
    <2> QED BY <2>1, <2>2
  <1>7. LexicalAsks(b, lexical)
    BY LexicalAsksSame DEF Shown, Searching
  <1>8. a.generation \in Nat BY DEF App
  <1>9. PrewarmFirst(b) /\ PrewarmAlone(b) /\ SendingIsCurrent(b)
    BY <1>8 DEF PrewarmFirst, PrewarmAlone, IsPrewarming, NoGeneration, Shown,
       SendingIsCurrent
  <1> QED BY <1>3, <1>4, <1>6, <1>7, <1>9 DEF Shown, Searching

(* A prewarm's completion ends it.  A query typed over the prewarm has     *)
(* started a generation of its own, so the code never finds one here to    *)
(* dispatch.                                                               *)
LEMMA ReceivesPrewarmedShown ==
  ASSUME IndexInv, NEW a, Good(a), Shown(a, lexical, semantic),
         NEW m \in SemanticMessage, m.generation = a.prewarm,
         m.generation = a.generation =>
           NothingCurrent(a, semantic) /\ a.generation # NoGeneration
  PROVE  /\ Shown(ReceivesPrewarmed(a, m), lexical, semantic)
         /\ m.generation = a.generation => a.query = Empty
  <1>1. a \in App BY DEF Good
  <1>2. PICK b : b = [a EXCEPT !.prewarm = NoGeneration] OBVIOUS
  <1>3. PICK c : c = [a EXCEPT !.prewarm = NoGeneration,
                               !.pending = NoGeneration, !.error = m.failed]
    OBVIOUS
  <1>4. ASSUME m.generation # a.generation
        PROVE  Shown(ReceivesPrewarmed(a, m), lexical, semantic)
    <2>1. ReceivesPrewarmed(a, m) = b BY <1>2, <1>4 DEF ReceivesPrewarmed
    <2>2. NotCancelled(b, semantic)
      BY <1>1, <1>2 DEF App, Shown, Searching, NotCancelled
    <2>3. Shown(b, lexical, semantic)
      BY <1>1, <1>2, <1>4, <2>2, EndPrewarmShown DEF App
    <2> QED BY <2>1, <2>3
  <1>5. ASSUME m.generation = a.generation
        PROVE  Shown(ReceivesPrewarmed(a, m), lexical, semantic)
    <2>1. ReceivesPrewarmed(a, m) = c BY <1>3, <1>5 DEF ReceivesPrewarmed
    <2>2. NotCancelled(c, semantic)
      <3>1. Bounded(a) BY DEF Good, Safe, Bounded
      <3>2. c.pending = NoGeneration BY <1>1, <1>3 DEF App
      <3> QED BY <3>1, <3>2, WaitsForAnother DEF Shown
    <2>3. Shown(c, lexical, semantic)
      BY <1>1, <1>3, <1>5, <2>2, EndPrewarmShown DEF App
    <2> QED BY <2>1, <2>3
  <1>6. m.generation = a.generation => a.query = Empty
    BY DEF Shown, PrewarmAlone, IsPrewarming
  <1> QED BY <1>4, <1>5, <1>6

(* An answer that is shown is of the query dispatched last.                *)
LEMMA ReceivesAnswerShown ==
  ASSUME IndexInv, NEW a, Good(a), Shown(a, lexical, semantic),
         NothingCurrent(a, semantic), a.mode = "Semantic",
         NEW m \in SemanticMessage, m.type = "Complete",
         m.query = a.dispatched, a.dispatched \in Text,
         m.layout = a.layout, m.filter = a.filter
  PROVE  Shown(ReceivesAnswer(a, m), lexical, semantic)
  <1>1. a \in App /\ m.failed \in BOOLEAN BY CompleteTyped DEF Good
  <1>2. PICK by : by = (IF m.failed THEN "failed" ELSE "semantic") OBVIOUS
  <1>3. PICK b : b = apply_filtered(
                       [a EXCEPT !.started = FALSE, !.pending = NoGeneration,
                                 !.error = m.failed,
                                 !.shown_query = a.dispatched,
                                 !.settled = TRUE],
                       m.query, by, m.layout)
    OBVIOUS
  <1>4. PICK c : c = [b EXCEPT !.filtered.filter = @ \/ m.filter] OBVIOUS
  <1>5. c = ReceivesAnswer(a, m) BY <1>2, <1>3, <1>4 DEF ReceivesAnswer
  <1>6. /\ b.filtered = [query |-> m.query, by |-> by, layout |-> m.layout,
                         filter |-> a.filter]
        /\ c = [b EXCEPT !.filtered =
                           [b.filtered EXCEPT !.filter = @ \/ m.filter]]
    BY <1>1, <1>3, <1>4 DEF App, apply_filtered
  <1>7. /\ c.generation = a.generation /\ c.prewarm = a.prewarm
        /\ c.pending = NoGeneration
        /\ c.dispatched = a.dispatched /\ c.filter = a.filter
        /\ c.query = a.query /\ c.mode = a.mode /\ c.loading = a.loading
        /\ c.layout = a.layout /\ c.corpus_version = a.corpus_version
        /\ c.scope_version = a.scope_version /\ c.sent_scope = a.sent_scope
        /\ c.shown_query = a.dispatched
        /\ c.filtered = [b.filtered EXCEPT !.filter = @ \/ m.filter]
        /\ c.search_rx = a.search_rx /\ c.search_tx = a.search_tx
        /\ c.worker_rx = a.worker_rx
        /\ c.worker_tx = a.worker_tx /\ c.sending = a.sending
    BY <1>1, <1>3, <1>6 DEF App, apply_filtered
  <1>8. /\ c.filtered.query = m.query /\ c.filtered.by = by
        /\ c.filtered.layout = m.layout
        /\ c.filtered.filter = (a.filter \/ m.filter)
    BY <1>6, <1>7
  <1>9. c.filtered.filter = a.filter
    <2>1. a.filter \in BOOLEAN BY <1>1 DEF App
    <2> QED BY <1>8, <2>1
  <1>10. Rows(c)
    <2>1. None \notin Text BY QueryAssumption
    <2>2. ShowsWhatItSays(c) BY <1>7, <1>8, <2>1 DEF ShowsWhatItSays
    <2>3. by \in {"semantic", "failed"} BY <1>2
    <2>4. AnswersIn(c) BY <1>7, <1>8, <1>9, <2>3 DEF AnswersIn
    <2> QED BY <2>2, <2>4 DEF Rows
  <1>11. Queue(c) = Queue(a) BY <1>7 DEF Queue
  <1>12. Told(c, semantic)
    <2>1. \A n : InQueue(c, n) => InQueue(a, n) BY <1>11 DEF InQueue
    <2> QED BY <1>7, <2>1, ToldQuiet DEF Shown
  <1>13. SemanticSide(c, semantic)
    BY <1>7, <1>11, SemanticSideQuiet DEF Shown, Searching
  <1>14. NotCancelled(c, semantic)
    <2>1. Bounded(a) BY DEF Good, Safe, Bounded
    <2> QED BY <1>7, <2>1, WaitsForAnother DEF Shown
  <1>15. LexicalAsks(c, lexical)
    BY <1>7, LexicalAsksSame DEF Shown, Searching
  <1>16. PrewarmFirst(c) /\ PrewarmAlone(c) /\ SendingIsCurrent(c)
    BY <1>7 DEF Shown, Searching, PrewarmFirst, PrewarmAlone, IsPrewarming,
       SendingIsCurrent
  <1> QED BY <1>5, <1>10, <1>12, <1>13, <1>14, <1>15, <1>16
      DEF Shown, Searching

(* A message of the semantic worker is applied or dropped.                 *)
LEMMA ReceiveSemanticShown ==
  ASSUME ShownInv, receive_semantic
  PROVE  ShownInv'
  <1>1. /\ IndexInv /\ Good(app) /\ app \in App
        /\ Shown(app, lexical, semantic) /\ app.worker_rx # <<>>
    BY AppIsShown DEF receive_semantic
  <1>2. IndexInv' BY <1>1, ReceiveSemanticInv
  <1>3. PICK m : m = Head(app.worker_rx) OBVIOUS
  <1>4. PICK rest : rest = [app EXCEPT !.worker_rx = Tail(@)] OBVIOUS
  <1>5. /\ Shown(rest, lexical, semantic)
        /\ IsAnswer(app, 1) => NothingCurrent(rest, semantic)
        /\ m = app.worker_rx[1] /\ 1 \in 1 .. Len(app.worker_rx)
    BY <1>1, <1>3, <1>4, TakeMessageShown
  <1>6. Good(rest) /\ rest \in App /\ m \in SemanticMessage
    BY <1>1, <1>3, <1>4, TakeMessageGood DEF Good
  <1>7. /\ rest.generation = app.generation /\ rest.prewarm = app.prewarm
        /\ rest.dispatched = app.dispatched /\ rest.filter = app.filter
        /\ rest.layout = app.layout /\ rest.mode = app.mode
        /\ rest.query = app.query
    BY <1>1, <1>4 DEF App
  <1>8. m.type = "Complete" /\ m.generation = app.generation =>
          /\ NothingCurrent(rest, semantic)
          /\ app.generation # NoGeneration /\ Asks(app, m)
          /\ m.filter = app.filter /\ m.layout = app.layout
    BY <1>1, <1>5
       DEF IsAnswer, Shown, Searching, SemanticSide, SemanticAnswers, Good,
           Safe, AnswersAreCurrent
  <1>9. CASE Becomes(rest) BY <1>2, <1>5, <1>9, BecomesWhatIsShown
  <1>10. CASE Becomes(ReceivesProgress(rest, m))
    <2>1. CASE ReceivesProgress(rest, m) = rest
      BY <1>2, <1>5, <1>10, <2>1, BecomesWhatIsShown
    <2>2. CASE ReceivesProgress(rest, m) # rest
      <3>1. PICK b : b = [rest EXCEPT !.prewarm = NoGeneration] OBVIOUS
      <3>2. ReceivesProgress(rest, m) = b /\ rest.prewarm # rest.generation
        BY <2>2, <3>1 DEF ReceivesProgress
      <3>3. NotCancelled(b, semantic)
        BY <1>5, <1>6, <3>1 DEF App, Shown, Searching, NotCancelled
      <3>4. Shown(b, lexical, semantic)
        BY <1>5, <1>6, <3>1, <3>2, <3>3, EndPrewarmShown DEF App
      <3> QED BY <1>2, <1>10, <3>2, <3>4, BecomesWhatIsShown
    <2> QED BY <2>1, <2>2
  <1>11. CASE /\ m.type = "Complete" /\ m.generation = app.prewarm
              /\ Becomes(ReceivesPrewarmed(rest, m))
    <2>1. Shown(ReceivesPrewarmed(rest, m), lexical, semantic)
      BY <1>1, <1>5, <1>6, <1>7, <1>8, <1>11, ReceivesPrewarmedShown
    <2> QED BY <1>2, <1>11, <2>1, BecomesWhatIsShown
  <1>12. CASE AcceptsAnswer(app, m) /\ Becomes(ReceivesAnswer(rest, m))
    <2>1. /\ m.type = "Complete" /\ app.mode = "Semantic"
          /\ ~(m.prewarm /\ m.generation = app.prewarm)
          /\ m.generation = app.generation
      BY <1>12 DEF AcceptsAnswer
    <2>2. ~m.prewarm BY <1>8, <2>1 DEF Asks
    <2>3. m.query = app.dispatched /\ app.dispatched \in Text
      BY <1>8, <2>1, <2>2 DEF Asks, AsksForDispatched
    <2>4. Shown(ReceivesAnswer(rest, m), lexical, semantic)
      BY <1>1, <1>5, <1>6, <1>7, <1>8, <2>1, <2>3, ReceivesAnswerShown
    <2> QED BY <1>2, <1>12, <2>4, BecomesWhatIsShown
  <1> QED BY <1>3, <1>4, <1>9, <1>10, <1>11, <1>12 DEF receive_semantic

-----------------------------------------------------------------------------
(* The search worker *)

(* A step of a worker, from its parts.                                     *)
LEMMA StepShown ==
  ASSUME IndexInv', NEW b, NEW lx, NEW w, WorkerKnows(w), Shown(b, lx, w),
         app' = b, lexical' = lx, semantic' = w
  PROVE  ShownInv'
  <1>1. WorkerKnows(semantic') /\ Shown(app', lexical', semantic') OBVIOUS
  <1> QED BY <1>1 DEF ShownInv

(* The steps of the search worker change its own channels.                 *)
LEMMA LexicalStepShown ==
  ASSUME NEW a \in App, Shown(a, lexical, semantic), NEW b, NEW lx,
         LexicalAsks(b, lx),
         b.generation = a.generation, b.prewarm = a.prewarm,
         b.pending = a.pending, b.cancelled = a.cancelled,
         b.dispatched = a.dispatched, b.filter = a.filter,
         b.query = a.query, b.mode = a.mode, b.loading = a.loading,
         b.layout = a.layout, b.corpus_version = a.corpus_version,
         b.scope_version = a.scope_version, b.sent_scope = a.sent_scope,
         b.shown_query = a.shown_query, b.settled = a.settled,
         b.filtered = a.filtered, b.worker_rx = a.worker_rx,
         b.worker_tx = a.worker_tx, b.sending = a.sending
  PROVE  Shown(b, lx, semantic)
  <1>1. Queue(b) = Queue(a) BY DEF Queue
  <1>2. Told(b, semantic)
    <2>1. \A m : InQueue(b, m) => InQueue(a, m) BY <1>1 DEF InQueue
    <2> QED BY <2>1, ToldQuiet DEF Shown
  <1>3. Rows(b) BY DEF Shown, Rows, ShowsWhatItSays, AnswersIn
  <1>4. SemanticSide(b, semantic)
    BY <1>1, SemanticSideQuiet DEF Shown, Searching
  <1>5. /\ NotCancelled(b, semantic) /\ PrewarmFirst(b) /\ PrewarmAlone(b)
        /\ SendingIsCurrent(b)
    BY DEF Shown, Searching, NotCancelled, PrewarmFirst, PrewarmAlone,
       IsPrewarming, SendingIsCurrent
  <1> QED BY <1>2, <1>3, <1>4, <1>5 DEF Shown, Searching

(* The search worker takes a command.                                      *)
LEMMA LexicalTakeShown ==
  ASSUME ShownInv, LexicalTake
  PROVE  ShownInv'
  <1>1. /\ IndexInv /\ app \in App /\ Shown(app, lexical, semantic)
        /\ WorkerKnows(semantic) /\ app.search_tx # <<>>
    BY AppIsShown DEF LexicalTake
  <1>2. IndexInv' BY <1>1, LexicalTakeInv
  <1>3. PICK command : command = Head(app.search_tx) OBVIOUS
  <1>4. PICK b : b = [app EXCEPT !.search_tx = Tail(@)] OBVIOUS
  <1>5. PICK lx : lx = (IF command.type = "UpdateData"
                        THEN [lexical EXCEPT !.layout = command.layout]
                        ELSE [lexical EXCEPT !.request = command])
    OBVIOUS
  <1>6. app' = b /\ lexical' = lx /\ semantic' = semantic
    BY <1>3, <1>4, <1>5 DEF LexicalTake
  <1>7. /\ app.search_tx \in Seq(SearchCommand)
        /\ lexical \in LexicalWorker
    BY <1>1 DEF App, IndexInv, TypeOK
  <1>8. /\ command = app.search_tx[1] /\ 1 \in 1 .. Len(app.search_tx)
        /\ \A i \in 1 .. Len(Tail(app.search_tx)) :
             i + 1 \in 1 .. Len(app.search_tx)
             /\ Tail(app.search_tx)[i] = app.search_tx[i + 1]
    BY <1>1, <1>3, <1>7
  <1>9. /\ b.search_tx = Tail(app.search_tx) /\ b.search_rx = app.search_rx
        /\ b.generation = app.generation /\ b.dispatched = app.dispatched
    BY <1>1, <1>4 DEF App
  <1>10. \/ lx.request = lexical.request
         \/ ~IsData(command) /\ lx.request = command
    BY <1>5, <1>7 DEF LexicalWorker, IsData
  <1>11. LexicalAsks(b, lx)
    <2>1. LexicalAsks(app, lexical) BY <1>1 DEF Shown, Searching
    <2>2. \A i \in 1 .. Len(b.search_tx) :
            ~IsData(b.search_tx[i]) /\ b.search_tx[i].generation = b.generation
              => AsksForDispatched(b, b.search_tx[i].query)
      BY <1>8, <1>9, <2>1 DEF LexicalAsks, AsksForDispatched
    <2>3. lx.request # None /\ lx.request.generation = b.generation
            => AsksForDispatched(b, lx.request.query)
      BY <1>8, <1>9, <1>10, <2>1 DEF LexicalAsks, AsksForDispatched
    <2> QED BY <1>9, <2>1, <2>2, <2>3 DEF LexicalAsks, AsksForDispatched
  <1>12. Shown(b, lx, semantic)
    BY <1>1, <1>4, <1>11, LexicalStepShown DEF App
  <1> QED BY <1>1, <1>2, <1>6, <1>12, StepShown

(* The search worker answers what it took last.                            *)
LEMMA LexicalAnswerShown ==
  ASSUME ShownInv, LexicalAnswer
  PROVE  ShownInv'
  <1>1. /\ IndexInv /\ app \in App /\ Shown(app, lexical, semantic)
        /\ WorkerKnows(semantic) /\ lexical.request # None
    BY AppIsShown DEF LexicalAnswer
  <1>2. IndexInv' BY <1>1, LexicalAnswerInv
  <1>3. PICK m : m = [query |-> lexical.request.query,
                      generation |-> lexical.request.generation,
                      mode |-> lexical.request.mode,
                      layout |-> lexical.layout]
    OBVIOUS
  <1>4. PICK b : b = [app EXCEPT !.search_rx = Append(@, m)] OBVIOUS
  <1>5. PICK lx : lx = [lexical EXCEPT !.request = None] OBVIOUS
  <1>6. app' = b /\ lexical' = lx /\ semantic' = semantic
    BY <1>3, <1>4, <1>5 DEF LexicalAnswer
  <1>7. lexical \in LexicalWorker /\ app.search_rx \in Seq(SearchResponse)
    BY <1>1 DEF App, IndexInv, TypeOK
  <1>8. /\ b.search_rx = Append(app.search_rx, m)
        /\ b.search_tx = app.search_tx
        /\ b.generation = app.generation /\ b.dispatched = app.dispatched
    BY <1>1, <1>4 DEF App
  <1>9. \A i \in 1 .. Len(b.search_rx) :
          \/ i \in 1 .. Len(app.search_rx) /\ b.search_rx[i] = app.search_rx[i]
          \/ b.search_rx[i] = m
    BY <1>7, <1>8
  <1>10. lx.request = None BY <1>5, <1>7 DEF LexicalWorker
  <1>11. LexicalAsks(b, lx)
    <2>1. LexicalAsks(app, lexical) BY <1>1 DEF Shown, Searching
    <2>2. m.generation = app.generation => AsksForDispatched(app, m.query)
      BY <1>1, <1>3, <2>1 DEF LexicalAsks
    <2> QED BY <1>8, <1>9, <1>10, <2>1, <2>2
        DEF LexicalAsks, AsksForDispatched
  <1>12. Shown(b, lx, semantic)
    BY <1>1, <1>4, <1>11, LexicalStepShown DEF App
  <1> QED BY <1>1, <1>2, <1>6, <1>12, StepShown

-----------------------------------------------------------------------------
(* The semantic worker *)

(* A step of the worker shows App nothing, and asks for nothing new.       *)
LEMMA WorkerStepShown ==
  ASSUME NEW a, NEW b, NEW w, NEW u, NEW lx, Shown(a, lx, w),
         b.generation = a.generation, b.prewarm = a.prewarm,
         b.dispatched = a.dispatched, b.filter = a.filter,
         b.query = a.query, b.mode = a.mode, b.loading = a.loading,
         b.layout = a.layout, b.corpus_version = a.corpus_version,
         b.scope_version = a.scope_version,
         b.shown_query = a.shown_query, b.settled = a.settled,
         b.filtered = a.filtered,
         b.search_rx = a.search_rx, b.search_tx = a.search_tx,
         b.sending = a.sending,
         \A v, scope : HoldsScope(b, u, v, scope) => HoldsScope(a, w, v, scope),
         \A v, layout : HoldsCorpus(b, u, v, layout)
                          => HoldsCorpus(a, w, v, layout),
         \A m : IsSearch(b, u, m) => IsSearch(a, w, m),
         SemanticAnswers(b), OneSearch(b, u), NotCancelled(b, u)
  PROVE  Shown(b, lx, u)
  <1>1. Told(b, u)
    <2>1. VersionsAgree(b, u) BY VersionsShrink DEF Shown, Told
    <2>2. SearchesKnown(b, u) BY DEF Shown, Told, SearchesKnown
    <2> QED BY <2>1, <2>2 DEF Told
  <1>2. Rows(b) BY DEF Shown, Rows, ShowsWhatItSays, AnswersIn
  <1>3. SemanticAsks(b, u)
    <2>1. SemanticAsks(a, w) BY DEF Shown, Searching, SemanticSide
    <2>2. \A m : Asks(a, m) => Asks(b, m) BY DEF Asks, AsksForDispatched
    <2> QED BY <2>1, <2>2 DEF SemanticAsks, IsCurrent
  <1>4. LexicalAsks(b, lx) BY LexicalAsksSame DEF Shown, Searching
  <1>5. PrewarmFirst(b) /\ PrewarmAlone(b) /\ SendingIsCurrent(b)
    BY DEF Shown, Searching, PrewarmFirst, PrewarmAlone, IsPrewarming,
       SendingIsCurrent
  <1> QED BY <1>1, <1>2, <1>3, <1>4, <1>5 DEF Shown, Searching, SemanticSide

(* What holds a version holds it under the same name.                      *)
LEMMA HoldsLess ==
  ASSUME NEW a, NEW b, NEW w, NEW u,
         b.scope_version = a.scope_version, b.sent_scope = a.sent_scope,
         b.corpus_version = a.corpus_version, b.layout = a.layout,
         \A m : InQueue(b, m) => InQueue(a, m),
         \/ u.scope_version = w.scope_version /\ u.scope = w.scope
         \/ \E m : /\ InQueue(a, m) /\ m.type = "UpdateScope"
                   /\ u.scope_version = m.scope_version /\ u.scope = m.scope,
         \/ u.corpus_version = w.corpus_version /\ u.layout = w.layout
         \/ \E m : /\ InQueue(a, m) /\ m.type = "UpdateCorpus"
                   /\ u.corpus_version = m.corpus_version
                   /\ u.layout = m.layout
  PROVE  /\ \A v, scope : HoldsScope(b, u, v, scope)
                            => HoldsScope(a, w, v, scope)
         /\ \A v, layout : HoldsCorpus(b, u, v, layout)
                             => HoldsCorpus(a, w, v, layout)
  <1>1. \A v, scope : HoldsScope(b, u, v, scope) => HoldsScope(a, w, v, scope)
    BY DEF HoldsScope
  <1>2. \A v, layout : HoldsCorpus(b, u, v, layout)
                         => HoldsCorpus(a, w, v, layout)
    <2> SUFFICES ASSUME NEW v, NEW layout, HoldsCorpus(b, u, v, layout)
                 PROVE  HoldsCorpus(a, w, v, layout)
      OBVIOUS
    <2>1. CASE v = b.corpus_version /\ layout = b.layout
      BY <2>1 DEF HoldsCorpus
    <2>2. CASE v = u.corpus_version /\ layout = u.layout /\ v # 0
      BY <2>2 DEF HoldsCorpus
    <2>3. CASE \E m : /\ InQueue(b, m) /\ m.type = "UpdateCorpus"
                      /\ v = m.corpus_version /\ layout = m.layout
      BY <2>3 DEF HoldsCorpus
    <2>4. CASE \E n, scope : /\ HoldsScope(b, u, n, scope)
                             /\ v = scope.corpus_version
                             /\ layout = scope.layout
      BY <1>1, <2>4 DEF HoldsCorpus
    <2> QED BY <2>1, <2>2, <2>3, <2>4 DEF HoldsCorpus
  <1> QED BY <1>1, <1>2

(* What a command changes in the worker that takes it.                     *)
TakesCommand(w, u, c) ==
  /\ u.alive = w.alive
  /\ \/ /\ u.scope_version = w.scope_version /\ u.scope = w.scope
        /\ u.scope_corpus_version = w.scope_corpus_version
     \/ /\ c.type = "UpdateScope"
        /\ u.scope_version = c.scope_version /\ u.scope = c.scope
        /\ u.scope_corpus_version = c.scope.corpus_version
  /\ \/ u.corpus_version = w.corpus_version /\ u.layout = w.layout
     \/ /\ c.type = "UpdateCorpus"
        /\ u.corpus_version = c.corpus_version /\ u.layout = c.layout
  /\ \/ /\ c.type # "Search" /\ u.request = w.request
        /\ u.pending_search = w.pending_search
     \/ /\ c.type # "Search" /\ u.request = w.pending_search
        /\ u.pending_search = None
     \/ /\ c.type = "Search" /\ u.request = c
        /\ u.pending_search = w.pending_search

(* So apply_command does.                                                  *)
LEMMA CommandIsTaken ==
  ASSUME NEW w \in SemanticWorker, NEW c \in SemanticCommand
  PROVE  TakesCommand(w, apply_command(w, c), c)
  <1>1. PICK u : u = apply_command(w, c) OBVIOUS
  <1>2. ASSUME NEW x \in SemanticWorker, NEW v, v = take_ready_pending(x)
        PROVE  /\ v.alive = x.alive
               /\ v.scope_version = x.scope_version /\ v.scope = x.scope
               /\ v.scope_corpus_version = x.scope_corpus_version
               /\ v.corpus_version = x.corpus_version /\ v.layout = x.layout
               /\ \/ /\ v.request = x.request
                     /\ v.pending_search = x.pending_search
                  \/ /\ v.request = x.pending_search
                     /\ v.pending_search = None
    <2>1. PICK y : y = [x EXCEPT !.request = x.pending_search,
                                 !.pending_search = None]
      OBVIOUS
    <2>2. v = x \/ v = y BY <1>2, <2>1 DEF take_ready_pending
    <2>3. /\ y.alive = x.alive
          /\ y.scope_version = x.scope_version /\ y.scope = x.scope
          /\ y.scope_corpus_version = x.scope_corpus_version
          /\ y.corpus_version = x.corpus_version /\ y.layout = x.layout
          /\ y.request = x.pending_search /\ y.pending_search = None
      BY <2>1 DEF SemanticWorker
    <2> QED BY <2>2, <2>3
  <1>3. CASE c.type = "UpdateCorpus"
    <2>1. PICK y : y = [w EXCEPT !.corpus_version = c.corpus_version,
                                 !.layout = c.layout]
      OBVIOUS
    <2>2. PICK x : x = (IF AppliesUpdate(w, c) THEN y ELSE w) OBVIOUS
    <2>3. c.corpus_version \in Nat /\ c.layout \in Nat
      BY <1>3 DEF SemanticCommand, SemanticSearch
    <2>4. x \in SemanticWorker
      <3>1. y \in SemanticWorker BY <2>1, <2>3, Zenon DEF SemanticWorker
      <3> QED BY <2>2, <3>1
    <2>5. /\ y.alive = w.alive
          /\ y.scope_version = w.scope_version /\ y.scope = w.scope
          /\ y.scope_corpus_version = w.scope_corpus_version
          /\ y.corpus_version = c.corpus_version /\ y.layout = c.layout
          /\ y.request = w.request /\ y.pending_search = w.pending_search
      BY <2>1 DEF SemanticWorker
    <2>6. u = take_ready_pending(x)
      BY <1>1, <1>3, <2>1, <2>2 DEF apply_command
    <2>7. /\ u.alive = x.alive
          /\ u.scope_version = x.scope_version /\ u.scope = x.scope
          /\ u.scope_corpus_version = x.scope_corpus_version
          /\ u.corpus_version = x.corpus_version /\ u.layout = x.layout
          /\ \/ u.request = x.request /\ u.pending_search = x.pending_search
             \/ u.request = x.pending_search /\ u.pending_search = None
      BY <1>2, <2>4, <2>6
    <2>8. x = y \/ x = w BY <2>2
    <2> QED BY <1>1, <1>3, <2>5, <2>7, <2>8 DEF TakesCommand
  <1>4. CASE c.type = "UpdateScope"
    <2>1. PICK y : y = [w EXCEPT !.scope_version = c.scope_version,
                                 !.scope_corpus_version =
                                   c.scope.corpus_version,
                                 !.scope = c.scope]
      OBVIOUS
    <2>2. PICK x : x = (IF AppliesUpdate(w, c) THEN y ELSE w) OBVIOUS
    <2>3. c.scope_version \in Nat /\ c.scope \in Scope
      BY <1>4 DEF SemanticCommand, SemanticSearch
    <2>4. c.scope.corpus_version \in Nat /\ c.scope \in Scope \cup {None}
      BY <2>3 DEF Scope
    <2>5. x \in SemanticWorker
      <3>1. y \in SemanticWorker BY <2>1, <2>3, <2>4, Zenon DEF SemanticWorker
      <3> QED BY <2>2, <3>1
    <2>6. /\ y.alive = w.alive
          /\ y.scope_version = c.scope_version /\ y.scope = c.scope
          /\ y.scope_corpus_version = c.scope.corpus_version
          /\ y.corpus_version = w.corpus_version /\ y.layout = w.layout
          /\ y.request = w.request /\ y.pending_search = w.pending_search
      BY <2>1 DEF SemanticWorker
    <2>7. u = take_ready_pending(x)
      BY <1>1, <1>4, <2>1, <2>2 DEF apply_command
    <2>8. /\ u.alive = x.alive
          /\ u.scope_version = x.scope_version /\ u.scope = x.scope
          /\ u.scope_corpus_version = x.scope_corpus_version
          /\ u.corpus_version = x.corpus_version /\ u.layout = x.layout
          /\ \/ u.request = x.request /\ u.pending_search = x.pending_search
             \/ u.request = x.pending_search /\ u.pending_search = None
      BY <1>2, <2>5, <2>7
    <2>9. x = y \/ x = w BY <2>2
    <2> QED BY <1>1, <1>4, <2>6, <2>8, <2>9 DEF TakesCommand
  <1>5. CASE c.type = "Search"
    <2>1. u = [w EXCEPT !.request = c] BY <1>1, <1>5 DEF apply_command
    <2>2. /\ u.alive = w.alive
          /\ u.scope_version = w.scope_version /\ u.scope = w.scope
          /\ u.scope_corpus_version = w.scope_corpus_version
          /\ u.corpus_version = w.corpus_version /\ u.layout = w.layout
          /\ u.request = c /\ u.pending_search = w.pending_search
      BY <2>1 DEF SemanticWorker
    <2> QED BY <1>1, <1>5, <2>2 DEF TakesCommand
  <1> QED BY <1>3, <1>4, <1>5 DEF SemanticCommand, SemanticSearch

(* The search that a command moves, or is, stays the only one.             *)
LEMMA TakesOneSearch ==
  ASSUME NEW a, NEW b, NEW w, NEW u, NEW c, OneSearch(a, w),
         TakesCommand(w, u, c), Queue(a)[1] = c, 1 \in 1 .. Len(Queue(a)),
         \A i \in 1 .. Len(Queue(b)) :
           /\ i + 1 \in 1 .. Len(Queue(a))
           /\ Queue(b)[i] = Queue(a)[i + 1]
           /\ i \in Nat /\ i >= 1,
         b.generation = a.generation, b.worker_rx = a.worker_rx
  PROVE  OneSearch(b, u)
  <1>1. \A i : IsAnswer(b, i) <=> IsAnswer(a, i) BY DEF IsAnswer
  <1>2. \A m : IsRequest(b, m) <=> IsRequest(a, m) BY DEF IsRequest
  <1>3. \A i : QueueHas(b, i) =>
          QueueHas(a, i + 1) /\ i \in Nat /\ i + 1 # 1
    BY DEF QueueHas
  <1>4. /\ \A i, j : QueueHas(a, i) /\ QueueHas(a, j) => i = j
        /\ \A i, j : IsAnswer(a, i) /\ IsAnswer(a, j) => i = j
        /\ \A i, j : ~(QueueHas(a, i) /\ IsAnswer(a, j))
        /\ IsRequest(a, w.request) =>
             /\ \A i : ~QueueHas(a, i) /\ ~IsAnswer(a, i)
             /\ ~IsRequest(a, w.pending_search)
        /\ IsRequest(a, w.pending_search) =>
             \A i : ~QueueHas(a, i) /\ ~IsAnswer(a, i)
    BY DEF OneSearch
  <1>5. ASSUME NEW i, NEW j, QueueHas(b, i), QueueHas(b, j) PROVE i = j
    <2>1. QueueHas(a, i + 1) /\ QueueHas(a, j + 1) /\ i \in Nat /\ j \in Nat
      BY <1>3, <1>5
    <2>2. i + 1 = j + 1 BY <1>4, <2>1
    <2> QED BY <2>1, <2>2
  <1>6. ASSUME NEW i, NEW j, QueueHas(b, i), IsAnswer(b, j) PROVE FALSE
    BY <1>1, <1>3, <1>4, <1>6
  <1>7. \A i, j : IsAnswer(b, i) /\ IsAnswer(b, j) => i = j
    BY <1>1, <1>4
  <1>8. (\A i : ~QueueHas(a, i)) => \A i : ~QueueHas(b, i)
    BY <1>3
  <1>9. ~IsRequest(a, None) BY DEF IsRequest
  <1>10. CASE c.type # "Search"
    <2>1. \/ u.request = w.request /\ u.pending_search = w.pending_search
          \/ u.request = w.pending_search /\ u.pending_search = None
      BY <1>10 DEF TakesCommand
    <2>2. IsRequest(b, u.request) =>
            /\ \A i : ~QueueHas(b, i) /\ ~IsAnswer(b, i)
            /\ ~IsRequest(b, u.pending_search)
      BY <1>1, <1>2, <1>4, <1>8, <1>9, <2>1
    <2>3. IsRequest(b, u.pending_search) =>
            \A i : ~QueueHas(b, i) /\ ~IsAnswer(b, i)
      BY <1>1, <1>2, <1>4, <1>8, <1>9, <2>1
    <2> QED BY <1>5, <1>6, <1>7, <2>2, <2>3 DEF OneSearch
  <1>11. CASE c.type = "Search"
    <2>1. u.request = c /\ u.pending_search = w.pending_search
      BY <1>11 DEF TakesCommand
    <2>2. IsRequest(b, u.request) => QueueHas(a, 1)
      BY <1>2, <1>11, <2>1 DEF QueueHas, IsRequest
    <2>3. QueueHas(a, 1) => \A i : ~QueueHas(b, i)
      BY <1>3, <1>4
    <2>4. IsRequest(b, u.request) =>
            /\ \A i : ~QueueHas(b, i) /\ ~IsAnswer(b, i)
            /\ ~IsRequest(b, u.pending_search)
      BY <1>1, <1>2, <1>4, <2>1, <2>2, <2>3
    <2>5. IsRequest(b, u.pending_search) =>
            \A i : ~QueueHas(b, i) /\ ~IsAnswer(b, i)
      BY <1>1, <1>2, <1>4, <1>8, <2>1
    <2> QED BY <1>5, <1>6, <1>7, <2>4, <2>5 DEF OneSearch
  <1> QED BY <1>10, <1>11

(* The semantic worker takes a command.                                    *)
LEMMA SemanticTakeShown ==
  ASSUME ShownInv, SemanticTake
  PROVE  ShownInv'
  <1>1. /\ IndexInv /\ app \in App /\ Shown(app, lexical, semantic)
        /\ WorkerKnows(semantic) /\ app.worker_tx # <<>>
        /\ semantic \in SemanticWorker /\ semantic.alive
    BY AppIsShown DEF SemanticTake, IndexInv, TypeOK
  <1>2. IndexInv' BY <1>1, SemanticTakeInv
  <1>3. PICK command : command = Head(app.worker_tx) OBVIOUS
  <1>4. PICK b : b = [app EXCEPT
          !.worker_tx = Tail(@),
          !.cancelled = @ \/ command.type = "Search"
                          \/ AppliesUpdate(semantic, command)]
    OBVIOUS
  <1>5. PICK v : v = apply_command(semantic, command) OBVIOUS
  <1>6. PICK u : u = [v EXCEPT !.pc = "draining"] OBVIOUS
  <1>7. app' = b /\ lexical' = lexical /\ semantic' = u
    BY <1>3, <1>4, <1>5, <1>6 DEF SemanticTake
  <1>8. command \in SemanticCommand
    <2>1. app.worker_tx \in Seq(SemanticCommand) BY <1>1, QueueTyped
    <2> QED BY <1>1, <1>3, <2>1
  <1>9. TakesCommand(semantic, v, command) /\ v \in SemanticWorker
    BY <1>1, <1>5, <1>8, CommandIsTaken, ApplyCommand
  <1>10. TakesCommand(semantic, u, command) /\ u.pc = "draining" /\ u.alive
    <2>1. /\ u.alive = v.alive
          /\ u.scope_version = v.scope_version /\ u.scope = v.scope
          /\ u.scope_corpus_version = v.scope_corpus_version
          /\ u.corpus_version = v.corpus_version /\ u.layout = v.layout
          /\ u.request = v.request /\ u.pending_search = v.pending_search
          /\ u.pc = "draining"
      BY <1>6, <1>9 DEF SemanticWorker
    <2> QED BY <1>1, <1>9, <2>1 DEF TakesCommand
  <1>11. /\ b.generation = app.generation /\ b.prewarm = app.prewarm
         /\ b.dispatched = app.dispatched /\ b.filter = app.filter
         /\ b.query = app.query /\ b.mode = app.mode
         /\ b.loading = app.loading
         /\ b.layout = app.layout /\ b.corpus_version = app.corpus_version
         /\ b.scope_version = app.scope_version
         /\ b.sent_scope = app.sent_scope
         /\ b.shown_query = app.shown_query /\ b.settled = app.settled
         /\ b.filtered = app.filtered
         /\ b.search_rx = app.search_rx /\ b.search_tx = app.search_tx
         /\ b.worker_rx = app.worker_rx
         /\ b.worker_tx = Tail(app.worker_tx) /\ b.sending = app.sending
    BY <1>1, <1>4 DEF App
  <1>12. /\ \A i \in 1 .. Len(Queue(b)) :
              i + 1 \in 1 .. Len(Queue(app))
              /\ Queue(b)[i] = Queue(app)[i + 1]
         /\ 1 \in 1 .. Len(Queue(app)) /\ command = Queue(app)[1]
         /\ Len(Queue(b)) = Len(Queue(app)) - 1
    BY <1>1, <1>3, <1>11, QueueTakes
  <1>13. \A i \in 1 .. Len(Queue(b)) : i \in Nat /\ i >= 1
    <2>1. Queue(app) \in Seq(SemanticCommand) BY <1>1, QueueTyped
    <2>2. Len(Queue(app)) \in Nat BY <2>1
    <2> QED BY <1>12, <2>2
  <1>14. InQueue(app, command) /\ \A m : InQueue(b, m) => InQueue(app, m)
    BY <1>12 DEF InQueue
  <1>15. /\ \A n, scope : HoldsScope(b, u, n, scope)
                            => HoldsScope(app, semantic, n, scope)
         /\ \A n, layout : HoldsCorpus(b, u, n, layout)
                             => HoldsCorpus(app, semantic, n, layout)
    <2>1. \/ u.scope_version = semantic.scope_version
             /\ u.scope = semantic.scope
          \/ \E m : /\ InQueue(app, m) /\ m.type = "UpdateScope"
                    /\ u.scope_version = m.scope_version
                    /\ u.scope = m.scope
      BY <1>10, <1>14 DEF TakesCommand
    <2>2. \/ u.corpus_version = semantic.corpus_version
             /\ u.layout = semantic.layout
          \/ \E m : /\ InQueue(app, m) /\ m.type = "UpdateCorpus"
                    /\ u.corpus_version = m.corpus_version
                    /\ u.layout = m.layout
      BY <1>10, <1>14 DEF TakesCommand
    <2> QED BY <1>11, <1>14, <2>1, <2>2, HoldsLess
  <1>16. \A m : IsSearch(b, u, m) => IsSearch(app, semantic, m)
    <2>1. \/ u.request = semantic.request
          \/ u.request = semantic.pending_search
          \/ u.request = command /\ command.type = "Search"
      BY <1>10 DEF TakesCommand
    <2>2. u.pending_search \in {semantic.pending_search, None}
      BY <1>10 DEF TakesCommand
    <2> QED BY <1>14, <2>1, <2>2 DEF IsSearch
  <1>17. OneSearch(b, u)
    BY <1>1, <1>10, <1>11, <1>12, <1>13, TakesOneSearch
       DEF Shown, Searching, SemanticSide
  <1>18. SemanticAnswers(b)
    BY <1>1, <1>11
       DEF Shown, Searching, SemanticSide, SemanticAnswers, IsAnswer, Asks,
           AsksForDispatched
  <1>19. NotCancelled(b, u) BY <1>10 DEF NotCancelled
  <1>20. WorkerKnows(u)
    BY <1>1, <1>10 DEF WorkerKnows, TakesCommand
  <1>21. Shown(b, lexical, u)
    BY <1>1, <1>11, <1>15, <1>16, <1>17, <1>18, <1>19, WorkerStepShown
  <1> QED BY <1>2, <1>7, <1>20, <1>21, StepShown

(* A step that takes no command: App is as it was but for what the worker  *)
(* says and the token, and no search is new.                               *)
LEMMA WorkerKeepsShown ==
  ASSUME NEW a \in App, NEW w, NEW u, NEW lx, Shown(a, lx, w),
         KeepsCorpus(w, u), NEW b, SemanticAnswers(b), OneSearch(b, u),
         NotCancelled(b, u),
         NEW rx, NEW cancelled,
         b = [a EXCEPT !.worker_rx = rx, !.cancelled = cancelled]
  PROVE  Shown(b, lx, u)
  <1>1. /\ b.generation = a.generation /\ b.prewarm = a.prewarm
        /\ b.dispatched = a.dispatched /\ b.filter = a.filter
        /\ b.query = a.query /\ b.mode = a.mode
        /\ b.loading = a.loading
        /\ b.layout = a.layout /\ b.corpus_version = a.corpus_version
        /\ b.scope_version = a.scope_version
        /\ b.sent_scope = a.sent_scope
        /\ b.shown_query = a.shown_query /\ b.settled = a.settled
        /\ b.filtered = a.filtered
        /\ b.search_rx = a.search_rx /\ b.search_tx = a.search_tx
        /\ b.worker_tx = a.worker_tx /\ b.sending = a.sending
    BY DEF App
  <1>2. Queue(b) = Queue(a) BY <1>1 DEF Queue
  <1>3. \A m : InQueue(b, m) <=> InQueue(a, m) BY <1>2 DEF InQueue
  <1>4. /\ \A v, scope : HoldsScope(b, u, v, scope)
                           => HoldsScope(a, w, v, scope)
        /\ \A v, layout : HoldsCorpus(b, u, v, layout)
                            => HoldsCorpus(a, w, v, layout)
    BY <1>1, <1>3, HoldsLess DEF KeepsCorpus
  <1>5. \A m : IsSearch(b, u, m) => IsSearch(a, w, m)
    BY <1>3 DEF IsSearch, KeepsCorpus
  <1> QED BY <1>1, <1>4, <1>5, WorkerStepShown

(* When App and the token are the same too.                                *)
LEMMA WorkerDropsShown ==
  ASSUME NEW a \in App, NEW w, NEW u, NEW lx, Shown(a, lx, w),
         KeepsCorpus(w, u), NotCancelled(a, u),
         IsRequest(a, u.request) => IsRequest(a, w.request),
         IsRequest(a, u.pending_search) =>
           \/ IsRequest(a, w.pending_search) /\ u.pending_search = w.pending_search
           \/ IsRequest(a, w.request) /\ u.request = None
  PROVE  Shown(a, lx, u)
  <1>1. a = [a EXCEPT !.worker_rx = a.worker_rx, !.cancelled = a.cancelled]
    BY DEF App
  <1>2. SemanticAnswers(a) BY DEF Shown, Searching, SemanticSide
  <1>3. ~IsRequest(a, None) BY DEF IsRequest
  <1>4. OneSearch(a, u)
    <2>1. /\ \A i, j : QueueHas(a, i) /\ QueueHas(a, j) => i = j
          /\ \A i, j : IsAnswer(a, i) /\ IsAnswer(a, j) => i = j
          /\ \A i, j : ~(QueueHas(a, i) /\ IsAnswer(a, j))
          /\ IsRequest(a, w.request) =>
               /\ \A i : ~QueueHas(a, i) /\ ~IsAnswer(a, i)
               /\ ~IsRequest(a, w.pending_search)
          /\ IsRequest(a, w.pending_search) =>
               \A i : ~QueueHas(a, i) /\ ~IsAnswer(a, i)
      BY DEF Shown, Searching, SemanticSide, OneSearch
    <2>2. IsRequest(a, u.request) => ~IsRequest(a, u.pending_search)
      BY <1>3, <2>1
    <2>3. IsRequest(a, u.request) =>
            \A i : ~QueueHas(a, i) /\ ~IsAnswer(a, i)
      BY <2>1
    <2>4. IsRequest(a, u.pending_search) =>
            \A i : ~QueueHas(a, i) /\ ~IsAnswer(a, i)
      BY <2>1
    <2> QED BY <2>1, <2>2, <2>3, <2>4 DEF OneSearch
  <1> QED BY <1>1, <1>2, <1>4, WorkerKeepsShown

(* The semantic worker parks, drops or chooses its search.                 *)
LEMMA SemanticDecideShown ==
  ASSUME ShownInv, SemanticDecide
  PROVE  ShownInv'
  <1>1. /\ IndexInv /\ app \in App /\ Shown(app, lexical, semantic)
        /\ WorkerKnows(semantic) /\ semantic.alive
        /\ semantic \in SemanticWorker
    BY AppIsShown DEF SemanticDecide, IndexInv, TypeOK
  <1>2. IndexInv' BY <1>1, SemanticDecideInv
  <1>3. PICK request : request = semantic.request OBVIOUS
  <1>4. PICK idle : idle = [semantic EXCEPT !.pc = "idle", !.request = None]
    OBVIOUS
  <1>5. PICK parked : parked = [idle EXCEPT !.pending_search = request] OBVIOUS
  <1>6. PICK chosen : chosen = [semantic EXCEPT !.pc = "chosen"] OBVIOUS
  <1>7. /\ app' = app /\ lexical' = lexical
        /\ \/ semantic' = idle \/ semantic' = parked
           \/ /\ semantic' = chosen
              /\ version_state_for(semantic, request) = "Current"
    <2>1. CASE request = None
      BY <1>3, <1>4, <2>1 DEF SemanticDecide
    <2>2. CASE request # None
      <3>1. version_state_for(semantic, request) \in {"Future", "Stale", "Current"}
        BY DEF version_state_for
      <3> QED BY <1>3, <1>4, <1>5, <1>6, <2>2, <3>1 DEF SemanticDecide
    <2> QED BY <2>1, <2>2
  <1>8. /\ KeepsCorpus(semantic, idle) /\ idle.pc = "idle" /\ idle.alive
        /\ idle.scope_corpus_version = semantic.scope_corpus_version
        /\ idle.request = None
        /\ idle.pending_search = semantic.pending_search
    BY <1>1, <1>4 DEF SemanticWorker, KeepsCorpus
  <1>9. /\ KeepsCorpus(semantic, parked) /\ parked.pc = "idle" /\ parked.alive
        /\ parked.scope_corpus_version = semantic.scope_corpus_version
        /\ parked.request = None /\ parked.pending_search = semantic.request
    BY <1>1, <1>3, <1>4, <1>5 DEF SemanticWorker, KeepsCorpus
  <1>10. /\ KeepsCorpus(semantic, chosen) /\ chosen.pc = "chosen"
         /\ chosen.alive
         /\ chosen.scope_corpus_version = semantic.scope_corpus_version
         /\ chosen.request = semantic.request
         /\ chosen.pending_search = semantic.pending_search
    BY <1>1, <1>6 DEF SemanticWorker, KeepsCorpus
  <1>11. CASE semantic' = idle
    <2>1. ~IsRequest(app, idle.request) BY <1>8 DEF IsRequest
    <2>2. NotCancelled(app, idle) BY <1>8 DEF NotCancelled
    <2>3. Shown(app, lexical, idle)
      BY <1>1, <1>8, <2>1, <2>2, WorkerDropsShown
    <2>4. WorkerKnows(idle) BY <1>1, <1>8 DEF WorkerKnows, KeepsCorpus
    <2> QED BY <1>2, <1>7, <1>11, <2>3, <2>4, StepShown
  <1>12. CASE semantic' = parked
    <2>1. ~IsRequest(app, parked.request) BY <1>9 DEF IsRequest
    <2>2. NotCancelled(app, parked) BY <1>9 DEF NotCancelled
    <2>3. Shown(app, lexical, parked)
      BY <1>1, <1>9, <2>1, <2>2, WorkerDropsShown
    <2>4. WorkerKnows(parked) BY <1>1, <1>9 DEF WorkerKnows, KeepsCorpus
    <2> QED BY <1>2, <1>7, <1>12, <2>3, <2>4, StepShown
  <1>13. CASE /\ semantic' = chosen
              /\ version_state_for(semantic, request) = "Current"
    <2>1. semantic.scope_corpus_version = semantic.corpus_version
      BY <1>13 DEF version_state_for
    <2>2. NotCancelled(app, chosen) BY <1>10 DEF NotCancelled
    <2>3. Shown(app, lexical, chosen)
      BY <1>1, <1>10, <2>2, WorkerDropsShown
    <2>4. WorkerKnows(chosen)
      BY <1>1, <1>10, <2>1 DEF WorkerKnows, KeepsCorpus
    <2> QED BY <1>2, <1>7, <1>13, <2>3, <2>4, StepShown
  <1> QED BY <1>7, <1>11, <1>12, <1>13

(* The chosen search starts, with a token of its own.                      *)
LEMMA SemanticStartShown ==
  ASSUME ShownInv, SemanticStart
  PROVE  ShownInv'
  <1>1. /\ IndexInv /\ app \in App /\ Shown(app, lexical, semantic)
        /\ WorkerKnows(semantic) /\ semantic.alive /\ semantic.pc = "chosen"
        /\ semantic \in SemanticWorker
    BY AppIsShown DEF SemanticStart, IndexInv, TypeOK
  <1>2. IndexInv' BY <1>1, SemanticStartInv
  <1>3. PICK u : u = [semantic EXCEPT !.pc = "running", !.progressed = FALSE]
    OBVIOUS
  <1>4. PICK b : b = [app EXCEPT !.cancelled = FALSE] OBVIOUS
  <1>5. app' = b /\ lexical' = lexical /\ semantic' = u
    BY <1>3, <1>4 DEF SemanticStart
  <1>6. /\ KeepsCorpus(semantic, u) /\ u.pc = "running" /\ u.alive
        /\ u.scope_corpus_version = semantic.scope_corpus_version
        /\ u.request = semantic.request
        /\ u.pending_search = semantic.pending_search
    BY <1>1, <1>3 DEF SemanticWorker, KeepsCorpus
  <1>7. /\ b = [app EXCEPT !.worker_rx = app.worker_rx, !.cancelled = FALSE]
        /\ b.cancelled = FALSE /\ b.worker_rx = app.worker_rx
        /\ b.generation = app.generation /\ b.prewarm = app.prewarm
        /\ b.dispatched = app.dispatched /\ b.filter = app.filter
        /\ b.worker_tx = app.worker_tx /\ b.sending = app.sending
    BY <1>1, <1>4 DEF App
  <1>8. SemanticAnswers(b)
    BY <1>1, <1>7
       DEF Shown, Searching, SemanticSide, SemanticAnswers, IsAnswer, Asks,
           AsksForDispatched
  <1>9. OneSearch(b, u)
    <2>1. Queue(b) = Queue(app) BY <1>7 DEF Queue
    <2>2. \A i : QueueHas(b, i) <=> QueueHas(app, i)
      BY <1>7, <2>1 DEF QueueHas
    <2>3. \A i : IsAnswer(b, i) <=> IsAnswer(app, i) BY <1>7 DEF IsAnswer
    <2>4. \A m : IsRequest(b, m) <=> IsRequest(app, m) BY <1>7 DEF IsRequest
    <2> QED BY <1>1, <1>6, <2>2, <2>3, <2>4
        DEF Shown, Searching, SemanticSide, OneSearch
  <1>10. NotCancelled(b, u) BY <1>7 DEF NotCancelled
  <1>11. Shown(b, lexical, u)
    BY <1>1, <1>6, <1>7, <1>8, <1>9, <1>10, WorkerKeepsShown
  <1>12. WorkerKnows(u) BY <1>1, <1>6 DEF WorkerKnows, KeepsCorpus
  <1> QED BY <1>2, <1>5, <1>11, <1>12, StepShown

(* The worker sends a message: one more answer, or none.                   *)
LEMMA AnswersGrow ==
  ASSUME NEW a \in App, NEW m, NEW b,
         b.worker_rx = Append(a.worker_rx, m), b.generation = a.generation
  PROVE  /\ \A i \in 1 .. Len(a.worker_rx) : b.worker_rx[i] = a.worker_rx[i]
         /\ \A i : IsAnswer(b, i) =>
              \/ IsAnswer(a, i) /\ b.worker_rx[i] = a.worker_rx[i]
              \/ /\ i = Len(a.worker_rx) + 1 /\ b.worker_rx[i] = m
                 /\ m.type = "Complete" /\ m.generation = a.generation
  <1>1. a.worker_rx \in Seq(SemanticMessage) BY DEF App
  <1>2. \A i \in 1 .. Len(a.worker_rx) : b.worker_rx[i] = a.worker_rx[i]
    BY <1>1
  <1>3. \A i \in 1 .. Len(b.worker_rx) :
          \/ i \in 1 .. Len(a.worker_rx)
          \/ i = Len(a.worker_rx) + 1 /\ b.worker_rx[i] = m
    BY <1>1
  <1> QED BY <1>2, <1>3 DEF IsAnswer

(* Progress is not an answer.                                              *)
LEMMA SemanticProgressShown ==
  ASSUME ShownInv, SemanticProgress
  PROVE  ShownInv'
  <1>1. /\ IndexInv /\ app \in App /\ Shown(app, lexical, semantic)
        /\ WorkerKnows(semantic) /\ semantic.alive
        /\ semantic.pc = "running" /\ semantic \in SemanticWorker
    BY AppIsShown DEF SemanticProgress, IndexInv, TypeOK
  <1>2. IndexInv' BY <1>1, SemanticProgressInv
  <1>3. PICK u : u = [semantic EXCEPT !.progressed = TRUE] OBVIOUS
  <1>4. PICK m : m = [type |-> "Progress",
                      generation |-> semantic.request.generation]
    OBVIOUS
  <1>5. PICK b : b = [app EXCEPT !.worker_rx = Append(@, m)] OBVIOUS
  <1>6. app' = b /\ lexical' = lexical /\ semantic' = u
    BY <1>3, <1>4, <1>5 DEF SemanticProgress
  <1>7. /\ KeepsCorpus(semantic, u) /\ u.pc = "running" /\ u.alive
        /\ u.scope_corpus_version = semantic.scope_corpus_version
        /\ u.request = semantic.request
        /\ u.pending_search = semantic.pending_search
    BY <1>1, <1>3 DEF SemanticWorker, KeepsCorpus
  <1>8. /\ b = [app EXCEPT !.worker_rx = Append(app.worker_rx, m),
                           !.cancelled = app.cancelled]
        /\ b.cancelled = app.cancelled /\ b.pending = app.pending
        /\ b.worker_rx = Append(app.worker_rx, m)
        /\ b.generation = app.generation /\ b.prewarm = app.prewarm
        /\ b.dispatched = app.dispatched /\ b.filter = app.filter
        /\ b.worker_tx = app.worker_tx /\ b.sending = app.sending
    BY <1>1, <1>5 DEF App
  <1>9. \A i : IsAnswer(b, i) =>
          IsAnswer(app, i) /\ b.worker_rx[i] = app.worker_rx[i]
    <2>1. m.type # "Complete" BY <1>4
    <2>2. /\ app \in App /\ b.generation = app.generation
          /\ b.worker_rx = Append(app.worker_rx, m)
      BY <1>1, <1>8
    <2> QED BY <2>1, <2>2, AnswersGrow, Zenon
  <1>10. SemanticAnswers(b)
    <2>1. \A n : Asks(app, n) => Asks(b, n)
      BY <1>8 DEF Asks, AsksForDispatched
    <2>2. SemanticAnswers(app)
      BY <1>1 DEF Shown, Searching, SemanticSide
    <2>3. b.generation = app.generation /\ b.filter = app.filter BY <1>8
    <2> QED BY <1>9, <2>1, <2>2, <2>3 DEF SemanticAnswers
  <1>11. OneSearch(b, u)
    <2>1. Queue(b) = Queue(app) BY <1>8 DEF Queue
    <2>2. \A i : QueueHas(b, i) <=> QueueHas(app, i)
      BY <1>8, <2>1 DEF QueueHas
    <2>3. \A n : IsRequest(b, n) <=> IsRequest(app, n) BY <1>8 DEF IsRequest
    <2> QED BY <1>1, <1>7, <1>9, <2>2, <2>3
        DEF Shown, Searching, SemanticSide, OneSearch
  <1>12. NotCancelled(b, u)
    BY <1>1, <1>7, <1>8 DEF Shown, Searching, NotCancelled
  <1>13. Shown(b, lexical, u)
    BY <1>1, <1>7, <1>8, <1>10, <1>11, <1>12, WorkerKeepsShown
  <1>14. WorkerKnows(u) BY <1>1, <1>7 DEF WorkerKnows, KeepsCorpus
  <1> QED BY <1>2, <1>6, <1>13, <1>14, StepShown

(* The answer to the only search of its generation is the only answer.     *)
LEMMA SemanticCompleteShown ==
  ASSUME ShownInv, NEW failed \in BOOLEAN, SemanticComplete(failed)
  PROVE  ShownInv'
  <1>1. /\ IndexInv /\ app \in App /\ Shown(app, lexical, semantic)
        /\ WorkerKnows(semantic) /\ semantic.alive
        /\ semantic.pc = "running" /\ semantic \in SemanticWorker
    BY AppIsShown DEF SemanticComplete, IndexInv, TypeOK
  <1>2. IndexInv' BY <1>1, SemanticCompleteInv
  <1>3. PICK request : request = semantic.request OBVIOUS
  <1>4. PICK u : u = [semantic EXCEPT !.pc = "idle", !.request = None] OBVIOUS
  <1>5. PICK m : m = [type |-> "Complete", query |-> request.query,
                      generation |-> request.generation,
                      prewarm |-> request.prewarm, failed |-> failed,
                      layout |-> semantic.layout,
                      filter |-> semantic.scope.filter]
    OBVIOUS
  <1>6. PICK b : b = [app EXCEPT !.worker_rx = Append(@, m)] OBVIOUS
  <1>7. app' = b /\ lexical' = lexical /\ semantic' = u
    BY <1>3, <1>4, <1>5, <1>6 DEF SemanticComplete
  <1>8. /\ KeepsCorpus(semantic, u) /\ u.pc = "idle" /\ u.alive
        /\ u.scope_corpus_version = semantic.scope_corpus_version
        /\ u.request = None
        /\ u.pending_search = semantic.pending_search
    BY <1>1, <1>4 DEF SemanticWorker, KeepsCorpus
  <1>9. /\ b = [app EXCEPT !.worker_rx = Append(app.worker_rx, m),
                           !.cancelled = app.cancelled]
        /\ b.worker_rx = Append(app.worker_rx, m)
        /\ b.generation = app.generation /\ b.prewarm = app.prewarm
        /\ b.dispatched = app.dispatched /\ b.filter = app.filter
        /\ b.worker_tx = app.worker_tx /\ b.sending = app.sending
    BY <1>1, <1>6 DEF App
  <1>10. /\ request # None /\ IsSearch(app, semantic, request)
         /\ request.scope_version = semantic.scope_version
         /\ semantic.scope # None
    <2>1. request # None /\ request.scope_version = semantic.scope_version
      BY <1>1, <1>3 DEF IndexInv, RunsWhatItAskedFor
    <2>2. semantic.scope \in Scope BY <1>1, RunningSearch
    <2>3. semantic.scope # None BY <2>2, NoneAssumption
    <2> QED BY <1>3, <2>1, <2>3 DEF IsSearch
  <1>11. \A i : IsAnswer(b, i) =>
           \/ IsAnswer(app, i) /\ b.worker_rx[i] = app.worker_rx[i]
           \/ /\ i = Len(app.worker_rx) + 1 /\ b.worker_rx[i] = m
              /\ m.generation = app.generation
    <2>1. /\ app \in App /\ b.generation = app.generation
          /\ b.worker_rx = Append(app.worker_rx, m)
      BY <1>1, <1>9
    <2>2. \A i : IsAnswer(b, i) =>
            \/ IsAnswer(app, i) /\ b.worker_rx[i] = app.worker_rx[i]
            \/ /\ i = Len(app.worker_rx) + 1 /\ b.worker_rx[i] = m
               /\ m.type = "Complete" /\ m.generation = app.generation
      BY <2>1, AnswersGrow, Zenon
    <2> QED BY <2>2, Zenon
  <1>12. m.generation = app.generation =>
           /\ IsRequest(app, semantic.request)
           /\ app.generation # NoGeneration /\ Asks(app, m)
           /\ m.filter = app.filter
    <2> SUFFICES ASSUME m.generation = app.generation
                 PROVE  /\ IsRequest(app, semantic.request)
                        /\ app.generation # NoGeneration /\ Asks(app, m)
                        /\ m.filter = app.filter
      OBVIOUS
    <2>1. IsRequest(app, semantic.request) /\ IsCurrent(app, semantic, request)
      BY <1>3, <1>5, <1>10 DEF IsRequest, IsCurrent
    <2>2. app.generation # NoGeneration
      <3>1. request.generation >= 1
        BY <1>1, <1>10 DEF Shown, Told, SearchesKnown
      <3> QED BY <1>5, <3>1 DEF NoGeneration
    <2>3. Asks(app, request)
      BY <1>1, <2>1 DEF Shown, Searching, SemanticSide, SemanticAsks
    <2>4. Asks(app, m) BY <1>5, <2>3 DEF Asks
    <2>5. HoldsScope(app, semantic, request.scope_version, semantic.scope)
      BY <1>10 DEF HoldsScope
    <2>6. m.filter = app.filter
      BY <1>1, <1>5, <2>1, <2>5
         DEF Shown, Searching, SemanticSide, SemanticAsks
    <2> QED BY <2>1, <2>2, <2>4, <2>6
  <1>13. SemanticAnswers(b)
    <2>1. \A n : Asks(app, n) => Asks(b, n)
      BY <1>9 DEF Asks, AsksForDispatched
    <2>2. SemanticAnswers(app)
      BY <1>1 DEF Shown, Searching, SemanticSide
    <2>3. ASSUME NEW i, IsAnswer(b, i)
          PROVE  /\ b.generation # NoGeneration
                 /\ Asks(b, b.worker_rx[i])
                 /\ b.worker_rx[i].filter = b.filter
      BY <1>9, <1>11, <1>12, <2>1, <2>2, <2>3 DEF SemanticAnswers
    <2> QED BY <2>3 DEF SemanticAnswers
  <1>14. OneSearch(b, u)
    <2>1. Queue(b) = Queue(app) BY <1>9 DEF Queue
    <2>2. \A i : QueueHas(b, i) <=> QueueHas(app, i)
      BY <1>9, <2>1 DEF QueueHas
    <2>3. \A n : IsRequest(b, n) <=> IsRequest(app, n) BY <1>9 DEF IsRequest
    <2>4. /\ \A i, j : QueueHas(app, i) /\ QueueHas(app, j) => i = j
          /\ \A i, j : IsAnswer(app, i) /\ IsAnswer(app, j) => i = j
          /\ \A i, j : ~(QueueHas(app, i) /\ IsAnswer(app, j))
          /\ IsRequest(app, semantic.request) =>
               /\ \A i : ~QueueHas(app, i) /\ ~IsAnswer(app, i)
               /\ ~IsRequest(app, semantic.pending_search)
          /\ IsRequest(app, semantic.pending_search) =>
               \A i : ~QueueHas(app, i) /\ ~IsAnswer(app, i)
      BY <1>1 DEF Shown, Searching, SemanticSide, OneSearch
    <2>5. ~IsRequest(b, u.request) BY <1>8 DEF IsRequest
    <2>6. CASE m.generation = app.generation
      <3>1. /\ \A i : ~QueueHas(app, i) /\ ~IsAnswer(app, i)
            /\ ~IsRequest(app, semantic.pending_search)
        BY <1>12, <2>4, <2>6
      <3>2. \A i : IsAnswer(b, i) => i = Len(app.worker_rx) + 1
        BY <1>11, <3>1
      <3>3. \A i : ~QueueHas(b, i) BY <2>2, <3>1
      <3>4. ~IsRequest(b, u.pending_search) BY <1>8, <2>3, <3>1
      <3> QED BY <2>5, <3>2, <3>3, <3>4 DEF OneSearch
    <2>7. CASE m.generation # app.generation
      <3>1. \A i : IsAnswer(b, i) => IsAnswer(app, i) BY <1>11, <2>7
      <3> QED BY <1>8, <2>2, <2>3, <2>4, <2>5, <3>1 DEF OneSearch
    <2> QED BY <2>6, <2>7
  <1>15. NotCancelled(b, u) BY <1>8 DEF NotCancelled
  <1>16. Shown(b, lexical, u)
    BY <1>1, <1>8, <1>9, <1>13, <1>14, <1>15, WorkerKeepsShown
  <1>17. WorkerKnows(u) BY <1>1, <1>8 DEF WorkerKnows, KeepsCorpus
  <1> QED BY <1>2, <1>7, <1>16, <1>17, StepShown

(* The worker dies, and its search with it.                                *)
LEMMA SemanticPanicShown ==
  ASSUME ShownInv, SemanticPanic
  PROVE  ShownInv'
  <1>1. /\ IndexInv /\ app \in App /\ Shown(app, lexical, semantic)
        /\ WorkerKnows(semantic) /\ semantic \in SemanticWorker
    BY AppIsShown DEF IndexInv, TypeOK
  <1>2. IndexInv' BY <1>1, SemanticPanicInv
  <1>3. PICK u : u = [semantic EXCEPT !.alive = FALSE, !.request = None]
    OBVIOUS
  <1>4. app' = app /\ lexical' = lexical /\ semantic' = u
    BY <1>3 DEF SemanticPanic
  <1>5. /\ KeepsCorpus(semantic, u) /\ ~u.alive /\ u.request = None
        /\ u.scope_corpus_version = semantic.scope_corpus_version
        /\ u.pending_search = semantic.pending_search
    BY <1>1, <1>3 DEF SemanticWorker, KeepsCorpus
  <1>6. ~IsRequest(app, u.request) BY <1>5 DEF IsRequest
  <1>7. NotCancelled(app, u) BY <1>5 DEF NotCancelled
  <1>8. Shown(app, lexical, u)
    BY <1>1, <1>5, <1>6, <1>7, WorkerDropsShown
  <1>9. WorkerKnows(u) BY <1>1, <1>5 DEF WorkerKnows, KeepsCorpus
  <1> QED BY <1>2, <1>4, <1>8, <1>9, StepShown

-----------------------------------------------------------------------------
(* The inductive invariant *)

(* Before anything is asked, nothing is on its way.                        *)
LEMMA InitIsShown == Init => ShownInv
  <1> SUFFICES ASSUME Init PROVE ShownInv
    OBVIOUS
  <1>1. PICK mode \in Mode, filter \in BOOLEAN : app = InitialApp(mode, filter)
    BY DEF Init
  <1>2. /\ app.layout = 0 /\ app.generation = 0 /\ app.loading = TRUE
        /\ app.corpus_version = 1 /\ app.scope_version = 0
        /\ app.sent_scope = None /\ app.query = Empty
        /\ app.filtered.query = Empty /\ app.shown_query = None
        /\ app.dispatched = None /\ app.settled = FALSE
        /\ app.prewarm = NoGeneration
        /\ app.search_tx = <<>> /\ app.search_rx = <<>>
        /\ app.sending = <<>> /\ app.worker_tx = <<>> /\ app.worker_rx = <<>>
    BY <1>1 DEF InitialApp
  <1>3. /\ lexical.request = None
        /\ semantic.alive /\ semantic.pc = "idle"
        /\ semantic.request = None /\ semantic.pending_search = None
        /\ semantic.corpus_version = 0 /\ semantic.scope = None
    BY DEF Init, NewSemanticWorker
  <1>4. IndexInv BY InitIsSafe
  <1>5. app \in App BY <1>4 DEF IndexInv, TypeOK
  <1>6. \A i : i \notin 1 .. Len(Queue(app))
    BY <1>2, <1>5, QueueElements
  <1>7. \A m : ~InQueue(app, m) BY <1>6 DEF InQueue
  <1>8. Told(app, semantic)
    <2>1. \A v, scope : ~HoldsScope(app, semantic, v, scope)
      BY <1>2, <1>3, <1>7 DEF HoldsScope
    <2>2. \A v, layout : HoldsCorpus(app, semantic, v, layout)
                           => v = 1 /\ layout = 0
      BY <1>2, <1>3, <1>7, <2>1 DEF HoldsCorpus
    <2>3. VersionsAgree(app, semantic) BY <1>2, <2>1, <2>2 DEF VersionsAgree
    <2>4. SearchesKnown(app, semantic)
      BY <1>3, <1>7 DEF SearchesKnown, IsSearch
    <2> QED BY <2>3, <2>4 DEF Told
  <1>9. WorkerKnows(semantic) BY <1>3 DEF WorkerKnows
  <1>10. Rows(app) BY <1>2 DEF Rows, ShowsWhatItSays
  <1>11. NothingCurrent(app, semantic)
    BY <1>2, <1>3, <1>6 DEF NothingCurrent, QueueHas, IsAnswer, IsRequest
  <1>12. SemanticSide(app, semantic) BY <1>11, NothingIsAsked
  <1>13. LexicalAsks(app, lexical) BY <1>2, <1>3 DEF LexicalAsks
  <1>14. /\ NotCancelled(app, semantic) /\ PrewarmFirst(app)
         /\ PrewarmAlone(app) /\ SendingIsCurrent(app)
    BY <1>2, <1>3 DEF NotCancelled, PrewarmFirst, PrewarmAlone, IsPrewarming,
       SendingIsCurrent, NoGeneration
  <1> QED BY <1>4, <1>8, <1>9, <1>10, <1>12, <1>13, <1>14
      DEF ShownInv, Shown, Searching

(* Every step preserves the invariant, one action at a time.               *)
LEMMA NextIsShown == ShownInv /\ [Next]_vars => ShownInv'
  <1> SUFFICES ASSUME ShownInv, [Next]_vars PROVE ShownInv'
    OBVIOUS
  <1>1. CASE UserStep
    <2>1. PICK loads \in BOOLEAN :
            \/ \E q \in Query : EditQuery(q, loads)
            \/ toggle_workspace_filter(loads)
            \/ toggle_list_search_mode(loads)
            \/ show_renamed_session(loads)
            \/ edit_list(loads)
      BY <1>1 DEF UserStep
    <2> QED BY <2>1, EditQueryShown, ToggleFilterShown, ToggleModeShown,
            RenameShown, EditListShown
  <1>2. CASE remove_selected_from_list BY <1>2, RemoveShown
  <1>3. CASE append_conversations BY <1>3, AppendShown
  <1>4. CASE \E loads \in BOOLEAN : finish_loading(loads)
    BY <1>4, FinishLoadingShown
  <1>5. CASE SendNext BY <1>5, SendNextShown
  <1>6. CASE Receive
    BY <1>6, ReceiveLexicalShown, ReceiveSemanticShown DEF Receive
  <1>7. CASE LexicalStep
    BY <1>7, LexicalTakeShown, LexicalAnswerShown DEF LexicalStep
  <1>8. CASE SemanticStep
    BY <1>8, SemanticTakeShown, SemanticDecideShown, SemanticStartShown,
       SemanticProgressShown, SemanticCompleteShown DEF SemanticStep
  <1>9. CASE SemanticPanic BY <1>9, SemanticPanicShown
  <1>10. CASE UNCHANGED vars
    <2>1. /\ app' = app /\ lexical' = lexical /\ semantic' = semantic
      BY <1>10 DEF vars
    <2>2. IndexInv' BY NextIsSafe DEF ShownInv
    <2> QED BY <2>1, <2>2, AppIsShown, StepShown
  <1> QED BY <1>1, <1>2, <1>3, <1>4, <1>5, <1>6, <1>7, <1>8, <1>9, <1>10
          DEF Next

(* In every behaviour, at most one search of the current generation is on  *)
(* its way, and it is of what the user asked last.                         *)
THEOREM SpecIsShown == Spec => []ShownInv
  BY InitIsShown, NextIsShown, PTL DEF Spec

(* The rows on screen answer the query that the list says they answer, and *)
(* rows that stand in for a search are what it would find: no answer of an *)
(* earlier query, of the other mode, of rows that moved or of another      *)
(* filter is taken for the answer, however the workers interleave.         *)
THEOREM RowsAnswerWhatTheySay == Spec => []ShownQueryIsTrue
  <1>1. ShownInv => ShownQueryIsTrue
    BY DEF ShownInv, Shown, Rows, ShowsWhatItSays, AnswersIn,
       ShownQueryIsTrue, Answers
  <1> QED BY <1>1, SpecIsShown, PTL

(* A search that runs ranks the corpus and the scope that it was sent      *)
(* with, which are of the same rows, whatever updates came between; and    *)
(* the search that the list waits for runs with a token nobody cancelled.  *)
THEOREM RanksItsOwnVersions == Spec => []RankedOnItsOwnVersions
  <1>1. ShownInv => RankedOnItsOwnVersions
    <2> SUFFICES ASSUME ShownInv, semantic.pc = "running", semantic.alive
                 PROVE  /\ semantic.corpus_version
                             = semantic.request.corpus_version
                        /\ semantic.scope_version
                             = semantic.request.scope_version
                        /\ semantic.scope.corpus_version
                             = semantic.corpus_version
                        /\ semantic.scope.layout = semantic.layout
                        /\ app.pending = semantic.request.generation
                             => ~app.cancelled
      BY DEF RankedOnItsOwnVersions
    <2>1. /\ IndexInv /\ Shown(app, lexical, semantic)
          /\ WorkerKnows(semantic)
      BY AppIsShown
    <2>2. /\ semantic.request # None
          /\ semantic.corpus_version = semantic.request.corpus_version
          /\ semantic.scope_version = semantic.request.scope_version
      BY <2>1 DEF IndexInv, RunsWhatItAskedFor
    <2>3. semantic.scope # None /\ semantic.scope \in Scope
      BY <2>1, RunningSearch, NoneAssumption
    <2>4. semantic.scope.corpus_version = semantic.corpus_version
      BY <2>1, <2>3 DEF WorkerKnows
    <2>5. semantic.corpus_version # 0
      <3>1. semantic.request.corpus_version \in 1 .. app.corpus_version
        BY <2>1, <2>2 DEF IndexInv, Safe, NothingIsNewer, RequestIsPast
      <3>2. app.corpus_version \in Nat BY <2>1 DEF IndexInv, TypeOK, App
      <3> QED BY <2>2, <3>1, <3>2
    <2>6. HoldsCorpus(app, semantic, semantic.corpus_version, semantic.layout)
      BY <2>5 DEF HoldsCorpus
    <2>7. HoldsScope(app, semantic, semantic.scope_version, semantic.scope)
      BY <2>3 DEF HoldsScope
    <2>8. HoldsCorpus(app, semantic, semantic.corpus_version,
                      semantic.scope.layout)
      BY <2>4, <2>7 DEF HoldsCorpus
    <2>9. semantic.scope.layout = semantic.layout
      BY <2>1, <2>6, <2>8 DEF Shown, Told, VersionsAgree
    <2>10. app.pending = semantic.request.generation => ~app.cancelled
      BY <2>1 DEF Shown, Searching, NotCancelled
    <2> QED BY <2>2, <2>4, <2>9, <2>10
  <1> QED BY <1>1, SpecIsShown, PTL
=============================================================================
