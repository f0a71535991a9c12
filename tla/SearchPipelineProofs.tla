------------------------ MODULE SearchPipelineProofs ------------------------
(***************************************************************************)
(* Proofs about SearchPipeline, for every set of queries, every choice of  *)
(* Ops and every bound: its type invariant and AnswerIsOfCurrentLayout.    *)
(*                                                                         *)
(* An answer's layout is the one its worker held when it answered.  The    *)
(* argument has four parts, each an invariant of its own below:            *)
(*   - no message is of a generation or a corpus version yet to come;      *)
(*   - the search data on its way to the search worker ends with the       *)
(*     current layout, and the worker answers when nothing is on its way;  *)
(*   - a corpus with the version that a search of the current generation   *)
(*     asks for has the current layout;                                    *)
(*   - every change of the layout is followed, in the same handler, by new *)
(*     search data, a new corpus version and a new generation.             *)
(***************************************************************************)
EXTENDS SearchPipeline, TLAPS

(* The two halves of the search worker's input: the layout it will have    *)
(* once it has taken everything is the list's.                             *)
IsData(m) == m.type = "UpdateData"

DataIsLatest(a, lx) ==
  /\ a.snapshot = a.layout
  /\ \A i \in 1 .. Len(a.search_tx) :
       /\ IsData(a.search_tx[i])
       /\ \A j \in (i + 1) .. Len(a.search_tx) : ~IsData(a.search_tx[j])
       => a.search_tx[i].layout = a.layout
  /\ (\A i \in 1 .. Len(a.search_tx) : ~IsData(a.search_tx[i]))
       => lx.layout = a.layout

(* Nothing in flight is newer than what App has dispatched.                *)
SearchIsPast(a, m) ==
  m.type = "Search" => /\ m.generation <= a.generation
                       /\ m.corpus_version \in 1 .. a.corpus_version
                       /\ m.scope_version >= 1
CorpusIsPast(a, m) ==
  m.type = "UpdateCorpus" => m.corpus_version <= a.corpus_version
RequestIsPast(a, request) ==
  request # None => /\ request.generation <= a.generation
                    /\ request.corpus_version \in 1 .. a.corpus_version
                    /\ request.scope_version >= 1

NothingIsNewer(a, lx, w) ==
  /\ a.corpus_version >= 1
  /\ \A i \in 1 .. Len(a.search_tx) :
       ~IsData(a.search_tx[i]) => a.search_tx[i].generation <= a.generation
  /\ lx.request # None => lx.request.generation <= a.generation
  /\ \A i \in 1 .. Len(a.search_rx) :
       a.search_rx[i].generation <= a.generation
  /\ \A i \in 1 .. Len(a.sending) :
       SearchIsPast(a, a.sending[i]) /\ CorpusIsPast(a, a.sending[i])
  /\ \A i \in 1 .. Len(a.worker_tx) :
       SearchIsPast(a, a.worker_tx[i]) /\ CorpusIsPast(a, a.worker_tx[i])
  /\ \A i \in 1 .. Len(a.worker_rx) :
       a.worker_rx[i].generation <= a.generation
  /\ w.corpus_version <= a.corpus_version
  /\ RequestIsPast(a, w.request) /\ RequestIsPast(a, w.pending_search)

(* An answer of the current generation is of the current layout.           *)
AnswersAreCurrent(a) ==
  /\ \A i \in 1 .. Len(a.search_rx) :
       a.search_rx[i].generation = a.generation
         => a.search_rx[i].layout = a.layout
  /\ \A i \in 1 .. Len(a.worker_rx) :
       /\ a.worker_rx[i].type = "Complete"
       /\ a.worker_rx[i].generation = a.generation
       => a.worker_rx[i].layout = a.layout

(* A corpus of the current version, or of the version that a search of the *)
(* current generation asks for, is of the current layout.                  *)
Wanted(a, w, version) ==
  \/ version = a.corpus_version
  \/ \E i \in 1 .. Len(a.sending) :
       /\ a.sending[i].type = "Search"
       /\ a.sending[i].generation = a.generation
       /\ a.sending[i].corpus_version = version
  \/ \E i \in 1 .. Len(a.worker_tx) :
       /\ a.worker_tx[i].type = "Search"
       /\ a.worker_tx[i].generation = a.generation
       /\ a.worker_tx[i].corpus_version = version
  \/ /\ w.request # None
     /\ w.request.generation = a.generation
     /\ w.request.corpus_version = version
  \/ /\ w.pending_search # None
     /\ w.pending_search.generation = a.generation
     /\ w.pending_search.corpus_version = version

WantedCorpusIsCurrent(a, w) ==
  /\ \A i \in 1 .. Len(a.sending) :
       a.sending[i].type = "UpdateCorpus" =>
         (Wanted(a, w, a.sending[i].corpus_version)
            => a.sending[i].layout = a.layout)
  /\ \A i \in 1 .. Len(a.worker_tx) :
       a.worker_tx[i].type = "UpdateCorpus" =>
         (Wanted(a, w, a.worker_tx[i].corpus_version)
            => a.worker_tx[i].layout = a.layout)
  /\ Wanted(a, w, w.corpus_version) => w.layout = a.layout

Safe(a, lx, w) ==
  /\ DataIsLatest(a, lx)
  /\ NothingIsNewer(a, lx, w)
  /\ AnswersAreCurrent(a)
  /\ WantedCorpusIsCurrent(a, w)

(* What a handler leaves to send ends with its search; a scope that was    *)
(* sent had a version.                                                     *)
SendingEndsInSearch(a) ==
  /\ a.sending # <<>> => a.sending[Len(a.sending)].type = "Search"
  /\ a.sent_scope # None => a.scope_version >= 1

(* A search that runs, runs on the corpus version it asked for.            *)
RunsWhatItAskedFor(w) ==
  /\ w.scope_version >= 1 => w.scope # None
  /\ w.alive /\ w.pc \in {"chosen", "running"} =>
       /\ w.request # None
       /\ w.corpus_version = w.request.corpus_version
       /\ w.scope_version = w.request.scope_version

IndexInv ==
  /\ TypeOK
  /\ SendingEndsInSearch(app)
  /\ RunsWhatItAskedFor(semantic)
  /\ Safe(app, lexical, semantic)

-----------------------------------------------------------------------------
(* App's functions preserve what the handlers rely on *)

(* An App that a handler may hold between two of its assignments.          *)
Good(a) ==
  /\ a \in App
  /\ SendingEndsInSearch(a)
  /\ Safe(a, lexical, semantic)

(* One that is about to start a new generation.                            *)
Ready(a) ==
  /\ a \in App
  /\ SendingEndsInSearch(a)
  /\ DataIsLatest(a, lexical)
  /\ NothingIsNewer(a, lexical, semantic)
  /\ \A i \in 1 .. Len(a.sending) :
       /\ a.sending[i].type = "UpdateCorpus"
       /\ a.sending[i].corpus_version = a.corpus_version
       => a.sending[i].layout = a.layout
  /\ \A i \in 1 .. Len(a.worker_tx) :
       /\ a.worker_tx[i].type = "UpdateCorpus"
       /\ a.worker_tx[i].corpus_version = a.corpus_version
       => a.worker_tx[i].layout = a.layout
  /\ semantic.corpus_version = a.corpus_version => semantic.layout = a.layout

SameMessages(a, b) ==
  /\ b.layout = a.layout /\ b.snapshot = a.snapshot
  /\ b.corpus_version = a.corpus_version
  /\ b.scope_version = a.scope_version /\ b.sent_scope = a.sent_scope
  /\ b.search_tx = a.search_tx /\ b.search_rx = a.search_rx
  /\ b.sending = a.sending
  /\ b.worker_tx = a.worker_tx /\ b.worker_rx = a.worker_rx

(* An App that differs in what no message depends on, and holds what its   *)
(* type allows, is as good as before.                                      *)
LEMMA QuietChange ==
  ASSUME NEW a, NEW b, Good(a), b \in App, SameMessages(a, b),
         b.generation = a.generation
  PROVE  Good(b)
  BY DEF Good, SendingEndsInSearch, Safe, DataIsLatest, NothingIsNewer,
         SearchIsPast, CorpusIsPast, RequestIsPast, AnswersAreCurrent,
         WantedCorpusIsCurrent, Wanted, SameMessages

(* A good App may start a new generation.                                  *)
LEMMA GoodIsReady == ASSUME NEW a, Good(a) PROVE Ready(a)
  BY DEF Good, Ready, Safe, WantedCorpusIsCurrent, Wanted

(* The generations and versions that a channel holds are numbers.          *)
LEMMA MessageNumbers ==
  ASSUME NEW a \in App
  PROVE  /\ a.generation \in Nat /\ a.corpus_version \in Nat
         /\ \A i \in 1 .. Len(a.search_tx) :
              ~IsData(a.search_tx[i]) => a.search_tx[i].generation \in Nat
         /\ \A i \in 1 .. Len(a.search_rx) : a.search_rx[i].generation \in Nat
         /\ \A i \in 1 .. Len(a.worker_rx) : a.worker_rx[i].generation \in Nat
         /\ \A i \in 1 .. Len(a.sending) :
              /\ a.sending[i].type = "Search" =>
                   /\ a.sending[i].generation \in Nat
                   /\ a.sending[i].corpus_version \in Nat
              /\ a.sending[i].type = "UpdateCorpus" =>
                   a.sending[i].corpus_version \in Nat
         /\ \A i \in 1 .. Len(a.worker_tx) :
              /\ a.worker_tx[i].type = "Search" =>
                   /\ a.worker_tx[i].generation \in Nat
                   /\ a.worker_tx[i].corpus_version \in Nat
              /\ a.worker_tx[i].type = "UpdateCorpus" =>
                   a.worker_tx[i].corpus_version \in Nat
  <1>1. \A m \in SearchCommand : ~IsData(m) => m.generation \in Nat
    BY DEF IsData, SearchCommand, LexicalSearch
  <1>2. \A m \in SearchResponse : m.generation \in Nat
    BY DEF SearchResponse
  <1>3. \A m \in SemanticMessage : m.generation \in Nat
    BY DEF SemanticMessage
  <1>4. \A m \in SemanticCommand :
          /\ m.type = "Search" => /\ m.generation \in Nat
                                  /\ m.corpus_version \in Nat
          /\ m.type = "UpdateCorpus" => m.corpus_version \in Nat
    BY DEF SemanticCommand, SemanticSearch
  <1>5. /\ a.generation \in Nat /\ a.corpus_version \in Nat
        /\ \A i \in 1 .. Len(a.search_tx) : a.search_tx[i] \in SearchCommand
        /\ \A i \in 1 .. Len(a.search_rx) : a.search_rx[i] \in SearchResponse
        /\ \A i \in 1 .. Len(a.worker_rx) : a.worker_rx[i] \in SemanticMessage
        /\ \A i \in 1 .. Len(a.sending) : a.sending[i] \in SemanticCommand
        /\ \A i \in 1 .. Len(a.worker_tx) : a.worker_tx[i] \in SemanticCommand
    <2>1. /\ a.search_tx \in Seq(SearchCommand)
          /\ a.search_rx \in Seq(SearchResponse)
          /\ a.sending \in Seq(SemanticCommand)
          /\ a.worker_tx \in Seq(SemanticCommand)
          /\ a.worker_rx \in Seq(SemanticMessage)
          /\ a.generation \in Nat /\ a.corpus_version \in Nat
      BY DEF App
    <2> QED BY <2>1
  <1> QED BY <1>1, <1>2, <1>3, <1>4, <1>5

(* The generations and versions that the worker holds are numbers.         *)
LEMMA WorkerNumbers ==
  ASSUME TypeOK
  PROVE  /\ lexical.request # None => lexical.request.generation \in Nat
         /\ semantic.corpus_version \in Nat
         /\ semantic.request # None => /\ semantic.request.generation \in Nat
                                       /\ semantic.request.corpus_version \in Nat
         /\ semantic.pending_search # None =>
              /\ semantic.pending_search.generation \in Nat
              /\ semantic.pending_search.corpus_version \in Nat
  <1>1. lexical.request # None => lexical.request \in LexicalSearch
    BY Zenon DEF TypeOK, LexicalWorker
  <1>2. /\ semantic.corpus_version \in Nat
        /\ semantic.request # None => semantic.request \in SemanticSearch
        /\ semantic.pending_search # None
             => semantic.pending_search \in SemanticSearch
    BY Zenon DEF TypeOK, SemanticWorker
  <1>3. \A m \in LexicalSearch : m.generation \in Nat BY DEF LexicalSearch
  <1>4. \A m \in SemanticSearch : m.generation \in Nat /\ m.corpus_version \in Nat
    BY DEF SemanticSearch
  <1> QED BY <1>1, <1>2, <1>3, <1>4

(* What was not newer than App stays so as its numbers grow.               *)
LEMMA NothingIsNewerGrows ==
  ASSUME NEW a \in App, NEW b \in App, TypeOK,
         NothingIsNewer(a, lexical, semantic),
         b.generation >= a.generation, b.corpus_version >= a.corpus_version,
         b.search_tx = a.search_tx, b.search_rx = a.search_rx,
         b.sending = a.sending,
         b.worker_tx = a.worker_tx, b.worker_rx = a.worker_rx
  PROVE  NothingIsNewer(b, lexical, semantic)
  <1>1. /\ b.generation \in Nat /\ b.corpus_version \in Nat
    BY DEF App
  <1>2. /\ b.corpus_version >= 1
        /\ semantic.corpus_version <= b.corpus_version
        /\ lexical.request # None => lexical.request.generation <= b.generation
        /\ RequestIsPast(b, semantic.request)
        /\ RequestIsPast(b, semantic.pending_search)
    BY <1>1, MessageNumbers, WorkerNumbers, SMTT(40) DEF NothingIsNewer, RequestIsPast
  <1>3. /\ \A i \in 1 .. Len(b.search_tx) :
             ~IsData(b.search_tx[i]) => b.search_tx[i].generation <= b.generation
        /\ \A i \in 1 .. Len(b.search_rx) :
             b.search_rx[i].generation <= b.generation
        /\ \A i \in 1 .. Len(b.worker_rx) :
             b.worker_rx[i].generation <= b.generation
    BY <1>1, MessageNumbers, SMTT(40) DEF NothingIsNewer
  <1>4. \A i \in 1 .. Len(b.sending) :
          SearchIsPast(b, b.sending[i]) /\ CorpusIsPast(b, b.sending[i])
    BY <1>1, MessageNumbers DEF NothingIsNewer, SearchIsPast, CorpusIsPast
  <1>5. \A i \in 1 .. Len(b.worker_tx) :
          SearchIsPast(b, b.worker_tx[i]) /\ CorpusIsPast(b, b.worker_tx[i])
    BY <1>1, MessageNumbers DEF NothingIsNewer, SearchIsPast, CorpusIsPast
  <1> QED BY <1>2, <1>3, <1>4, <1>5 DEF NothingIsNewer

(* A new generation: no answer on its way is of it, and no search asks     *)
(* for more than App has sent.                                             *)
LEMMA NewGeneration ==
  ASSUME NEW a, NEW b, Ready(a), b \in App, SameMessages(a, b),
         b.generation = a.generation + 1, TypeOK
  PROVE  Good(b)
  <1>1. a \in App /\ a.generation \in Nat /\ a.corpus_version \in Nat
    BY DEF Ready, App
  <1>2. SendingEndsInSearch(b) /\ DataIsLatest(b, lexical)
    BY DEF Ready, SameMessages, SendingEndsInSearch, DataIsLatest
  <1>3. NothingIsNewer(b, lexical, semantic)
    <2>1. b.generation >= a.generation /\ b.corpus_version >= a.corpus_version
      BY <1>1 DEF SameMessages
    <2> QED BY <1>1, <2>1, NothingIsNewerGrows DEF Ready, SameMessages
  <1>4. AnswersAreCurrent(b)
    <2>1. /\ b.generation = a.generation + 1
          /\ b.search_rx = a.search_rx /\ b.worker_rx = a.worker_rx
      BY DEF SameMessages
    <2>2. /\ \A i \in 1 .. Len(a.search_rx) :
               a.search_rx[i].generation <= a.generation
          /\ \A i \in 1 .. Len(a.worker_rx) :
               a.worker_rx[i].generation <= a.generation
      BY DEF Ready, NothingIsNewer
    <2>3. /\ \A i \in 1 .. Len(b.search_rx) :
               b.search_rx[i].generation # b.generation
          /\ \A i \in 1 .. Len(b.worker_rx) :
               b.worker_rx[i].generation # b.generation
      BY <1>1, <2>1, <2>2, MessageNumbers
    <2> QED BY <2>3 DEF AnswersAreCurrent
  <1>5. \A version : Wanted(b, semantic, version) => version = a.corpus_version
    <2>1. /\ \A i \in 1 .. Len(b.sending) :
               b.sending[i].type = "Search"
                 => b.sending[i].generation # b.generation
          /\ \A i \in 1 .. Len(b.worker_tx) :
               b.worker_tx[i].type = "Search"
                 => b.worker_tx[i].generation # b.generation
      <3>1. b.generation = a.generation + 1 /\ b.sending = a.sending
            /\ b.worker_tx = a.worker_tx
        BY DEF SameMessages
      <3>2. /\ \A i \in 1 .. Len(a.sending) : SearchIsPast(a, a.sending[i])
            /\ \A i \in 1 .. Len(a.worker_tx) : SearchIsPast(a, a.worker_tx[i])
        BY DEF Ready, NothingIsNewer
      <3> QED BY <1>1, <3>1, <3>2, MessageNumbers DEF SearchIsPast
    <2>2. /\ semantic.request # None
               => semantic.request.generation # b.generation
          /\ semantic.pending_search # None
               => semantic.pending_search.generation # b.generation
      BY <1>1, WorkerNumbers DEF Ready, NothingIsNewer, RequestIsPast
    <2>3. b.corpus_version = a.corpus_version BY DEF SameMessages
    <2> QED BY <2>1, <2>2, <2>3, Zenon DEF Wanted
  <1>6. WantedCorpusIsCurrent(b, semantic)
    BY <1>5 DEF Ready, SameMessages, WantedCorpusIsCurrent
  <1> QED BY <1>2, <1>3, <1>4, <1>6 DEF Good, Safe

(* invalidate_search_generation leaves nothing in flight that would be     *)
(* accepted, so it repairs an App whose rows have moved.                   *)
LEMMA InvalidateGood ==
  ASSUME NEW a, Ready(a), TypeOK
  PROVE  Good(invalidate_search_generation(a))
  <1> DEFINE b == invalidate_search_generation(a)
  <1>1. a \in App BY DEF Ready
  <1>2. a.generation + 1 \in Nat /\ NoGeneration \in Nat
    BY <1>1 DEF App, NoGeneration
  <1>3. b \in App
    BY <1>1, <1>2, Zenon DEF App, invalidate_search_generation
  <1>4. SameMessages(a, b) /\ b.generation = a.generation + 1
    BY <1>1 DEF App, invalidate_search_generation, SameMessages
  <1> QED BY <1>3, <1>4, NewGeneration

(* What a handler has done to App before it sends the rows again: anything *)
(* that leaves the messages alone.                                         *)
Bounded(a) ==
  /\ a \in App
  /\ SendingEndsInSearch(a)
  /\ NothingIsNewer(a, lexical, semantic)

(* New search data and a new corpus version make the messages right for    *)
(* rows that moved, but for the generation.                                *)
LEMMA ResendReady ==
  ASSUME NEW a, Bounded(a), TypeOK
  PROVE  Ready(send_search_data(replace_conversations_snapshot(a)))
  <1> DEFINE b == replace_conversations_snapshot(a)
             c == send_search_data(b)
             data == [type |-> "UpdateData", layout |-> a.layout]
  <1>1. a \in App BY DEF Bounded
  <1>2. a.corpus_version + 1 \in Nat /\ a.layout \in Nat BY <1>1 DEF App
  <1>3. b \in App
    BY <1>1, <1>2, Zenon DEF App, replace_conversations_snapshot
  <1>4. /\ b.snapshot = a.layout /\ b.layout = a.layout
        /\ b.search_tx = a.search_tx
    BY <1>1 DEF App, replace_conversations_snapshot
  <1>5. Append(b.search_tx, [type |-> "UpdateData", layout |-> b.snapshot])
          \in Seq(SearchCommand)
    BY <1>2, <1>3, <1>4 DEF App, SearchCommand
  <1>6. c \in App BY <1>3, <1>5, Zenon DEF App, send_search_data
  <1>7. /\ c.search_tx = Append(a.search_tx, data)
        /\ c.layout = a.layout /\ c.snapshot = a.layout
        /\ c.corpus_version = a.corpus_version + 1
        /\ c.generation = a.generation
        /\ c.search_rx = a.search_rx /\ c.sending = a.sending
        /\ c.worker_tx = a.worker_tx /\ c.worker_rx = a.worker_rx
        /\ c.sent_scope = None
    BY <1>1 DEF App, send_search_data, replace_conversations_snapshot
  <1>8. a.search_tx \in Seq(SearchCommand) BY <1>1 DEF App
  <1>9. SendingEndsInSearch(c)
    BY <1>7 DEF Bounded, SendingEndsInSearch
  <1>10. DataIsLatest(c, lexical)
    <2>1. /\ Len(c.search_tx) = Len(a.search_tx) + 1
          /\ Len(a.search_tx) \in Nat
          /\ c.search_tx[Len(a.search_tx) + 1] = data
      BY <1>7, <1>8
    <2>2. IsData(c.search_tx[Len(a.search_tx) + 1]) BY <2>1 DEF IsData
    <2> QED BY <1>7, <2>1, <2>2 DEF DataIsLatest
  <1>11. NothingIsNewer(c, lexical, semantic)
    <2> DEFINE d == [a EXCEPT !.corpus_version = @ + 1]
    <2>1. d \in App BY <1>1, <1>2, Zenon DEF App
    <2>2. /\ d.generation = a.generation
          /\ d.corpus_version = a.corpus_version + 1
          /\ d.search_tx = a.search_tx /\ d.search_rx = a.search_rx
          /\ d.sending = a.sending
          /\ d.worker_tx = a.worker_tx /\ d.worker_rx = a.worker_rx
          /\ a.generation \in Nat /\ a.corpus_version \in Nat
      BY <1>1 DEF App
    <2>3. d.generation >= a.generation /\ d.corpus_version >= a.corpus_version
      BY <2>2
    <2> HIDE DEF d
    <2>4. NothingIsNewer(d, lexical, semantic)
      BY <1>1, <2>1, <2>2, <2>3, NothingIsNewerGrows DEF Bounded
    <2>5. \A i \in 1 .. Len(c.search_tx) :
            ~IsData(c.search_tx[i]) => c.search_tx[i].generation <= c.generation
      <3>1. \A i \in 1 .. Len(c.search_tx) :
              \/ i \in 1 .. Len(a.search_tx) /\ c.search_tx[i] = a.search_tx[i]
              \/ c.search_tx[i] = data
        BY <1>7, <1>8
      <3> QED BY <1>7, <2>2, <2>4, <3>1 DEF NothingIsNewer, IsData
    <2>6. /\ c.generation = d.generation /\ c.corpus_version = d.corpus_version
          /\ c.search_rx = d.search_rx /\ c.sending = d.sending
          /\ c.worker_tx = d.worker_tx /\ c.worker_rx = d.worker_rx
      BY <1>7, <2>2
    <2> QED BY <2>4, <2>5, <2>6 DEF NothingIsNewer, SearchIsPast,
       CorpusIsPast, RequestIsPast
  <1>12. /\ \A i \in 1 .. Len(c.sending) :
              c.sending[i].type = "UpdateCorpus"
                => c.sending[i].corpus_version # c.corpus_version
         /\ \A i \in 1 .. Len(c.worker_tx) :
              c.worker_tx[i].type = "UpdateCorpus"
                => c.worker_tx[i].corpus_version # c.corpus_version
         /\ semantic.corpus_version # c.corpus_version
    <2>1. a.corpus_version \in Nat BY <1>1 DEF App
    <2>2. /\ \A i \in 1 .. Len(a.sending) : CorpusIsPast(a, a.sending[i])
          /\ \A i \in 1 .. Len(a.worker_tx) : CorpusIsPast(a, a.worker_tx[i])
          /\ semantic.corpus_version <= a.corpus_version
      BY DEF Bounded, NothingIsNewer
    <2> QED BY <1>1, <1>7, <2>1, <2>2, MessageNumbers, WorkerNumbers, SMTT(40)
        DEF CorpusIsPast
  <1> QED BY <1>6, <1>9, <1>10, <1>11, <1>12 DEF Ready

(* Rows that stay where they are may be sent again at any time, without a  *)
(* new generation.                                                         *)
LEMMA ResendGood ==
  ASSUME NEW a, Good(a), TypeOK
  PROVE  Good(send_search_data(replace_conversations_snapshot(a)))
  <1> DEFINE c == send_search_data(replace_conversations_snapshot(a))
  <1>1. a \in App /\ Bounded(a) BY DEF Good, Bounded, Safe
  <1>2. Ready(c) BY <1>1, ResendReady
  <1>3. /\ c.layout = a.layout
        /\ c.corpus_version = a.corpus_version + 1
        /\ c.generation = a.generation
        /\ c.search_rx = a.search_rx /\ c.sending = a.sending
        /\ c.worker_tx = a.worker_tx /\ c.worker_rx = a.worker_rx
    BY <1>1 DEF App, send_search_data, replace_conversations_snapshot
  <1>4. AnswersAreCurrent(c) BY <1>3 DEF Good, Safe, AnswersAreCurrent
  <1>5. \A version : Wanted(c, semantic, version) =>
          version = c.corpus_version \/ Wanted(a, semantic, version)
    BY <1>3 DEF Wanted
  <1> HIDE DEF c
  <1>6. WantedCorpusIsCurrent(c, semantic)
    <2>1. WantedCorpusIsCurrent(a, semantic) BY DEF Good, Safe
    <2>2. ASSUME NEW i \in 1 .. Len(c.sending),
                 c.sending[i].type = "UpdateCorpus",
                 Wanted(c, semantic, c.sending[i].corpus_version)
          PROVE  c.sending[i].layout = c.layout
      <3>1. CASE c.sending[i].corpus_version = c.corpus_version
        BY <1>2, <2>2, <3>1 DEF Ready
      <3>2. CASE Wanted(a, semantic, c.sending[i].corpus_version)
        BY <1>3, <2>1, <2>2, <3>2 DEF WantedCorpusIsCurrent
      <3> QED BY <1>5, <2>2, <3>1, <3>2
    <2>3. ASSUME NEW i \in 1 .. Len(c.worker_tx),
                 c.worker_tx[i].type = "UpdateCorpus",
                 Wanted(c, semantic, c.worker_tx[i].corpus_version)
          PROVE  c.worker_tx[i].layout = c.layout
      <3>1. CASE c.worker_tx[i].corpus_version = c.corpus_version
        BY <1>2, <2>3, <3>1 DEF Ready
      <3>2. CASE Wanted(a, semantic, c.worker_tx[i].corpus_version)
        BY <1>3, <2>1, <2>3, <3>2 DEF WantedCorpusIsCurrent
      <3> QED BY <1>5, <2>3, <3>1, <3>2
    <2>4. Wanted(c, semantic, semantic.corpus_version)
            => semantic.layout = c.layout
      BY <1>2, <1>3, <1>5, <2>1 DEF WantedCorpusIsCurrent, Ready
    <2> QED BY <2>2, <2>3, <2>4 DEF WantedCorpusIsCurrent
  <1> QED BY <1>2, <1>4, <1>6 DEF Good, Ready, Safe, c

RowSources == {"list", "lexical", "placeholder", "semantic", "failed", "lookup"}

(* What is on screen is not in flight: apply_filtered disturbs nothing.    *)
LEMMA ApplyFilteredGood ==
  ASSUME NEW a, Good(a), NEW query \in Query, NEW by \in RowSources,
         NEW layout \in Nat
  PROVE  Good(apply_filtered(a, query, by, layout))
  <1> DEFINE b == apply_filtered(a, query, by, layout)
  <1>1. a \in App BY DEF Good
  <1>2. [query |-> query, by |-> by, layout |-> layout, filter |-> a.filter]
          \in Filtered
    BY <1>1, Zenon DEF App, Filtered, RowSources
  <1>3. b \in App BY <1>1, <1>2, Zenon DEF App, apply_filtered
  <1>4. SameMessages(a, b) /\ b.generation = a.generation
    BY <1>1 DEF App, apply_filtered, SameMessages
  <1> QED BY <1>3, <1>4, QuietChange

(* apply_session_lookup pushes at most a row at the end, and sends the     *)
(* rows again.                                                             *)
LEMMA SessionLookupGood ==
  ASSUME NEW a, Good(a), NEW loads \in BOOLEAN, TypeOK
  PROVE  Good(apply_session_lookup(a, loads))
  <1> DEFINE pushed == [a EXCEPT !.count = @ + 1]
             b == IF loads
                  THEN send_search_data(replace_conversations_snapshot(pushed))
                  ELSE a
             c == [b EXCEPT !.shown_query = a.query, !.settled = TRUE]
  <1>1. a \in App /\ a.count + 1 \in Nat /\ a.query \in Query /\ a.layout \in Nat
    BY DEF Good, App
  <1>2. Good(pushed)
    <2>1. pushed \in App BY <1>1, Zenon DEF App
    <2>2. SameMessages(a, pushed) /\ pushed.generation = a.generation
      BY <1>1 DEF App, SameMessages
    <2> QED BY <2>1, <2>2, QuietChange
  <1>3. Good(b) BY <1>2, ResendGood
  <1> HIDE DEF b
  <1>4. Good(c)
    <2>1. b \in App BY <1>3 DEF Good
    <2>2. c \in App BY <1>1, <2>1, Zenon DEF App
    <2>3. SameMessages(b, c) /\ c.generation = b.generation
      BY <2>1 DEF App, SameMessages
    <2> QED BY <1>3, <2>2, <2>3, QuietChange
  <1> HIDE DEF c
  <1>5. Good(apply_filtered(c, a.query, "lookup", a.layout))
    BY <1>1, <1>4, ApplyFilteredGood, Zenon DEF RowSources
  <1> QED BY <1>5 DEF apply_session_lookup, b, c

(* apply_lexical_filter only changes what is on screen.                    *)
LEMMA LexicalFilterGood ==
  ASSUME NEW a, Good(a)
  PROVE  Good(apply_lexical_filter(a))
  <1> DEFINE b == [a EXCEPT
                     !.shown_query = IF a.query = Empty THEN None ELSE a.query,
                     !.settled = TRUE]
  <1>1. a \in App /\ a.query \in Query /\ a.layout \in Nat BY DEF Good, App
  <1>2. b \in App BY <1>1, Zenon DEF App
  <1>3. SameMessages(a, b) /\ b.generation = a.generation
    BY <1>1 DEF App, SameMessages
  <1>4. Good(b) BY <1>2, <1>3, QuietChange
  <1> HIDE DEF b
  <1>5. Good(apply_filtered(b, a.query, "lexical", a.layout))
    BY <1>1, <1>4, ApplyFilteredGood, Zenon DEF RowSources
  <1> QED BY <1>5 DEF apply_lexical_filter, b

(* Clearing the error disturbs nothing.                                    *)
LEMMA ClearErrorGood ==
  ASSUME NEW a, Good(a), NEW error \in BOOLEAN
  PROVE  Good([a EXCEPT !.error = error])
  <1>1. a \in App BY DEF Good
  <1>2. [a EXCEPT !.error = error] \in App BY <1>1, Zenon DEF App
  <1>3. SameMessages(a, [a EXCEPT !.error = error])
        /\ [a EXCEPT !.error = error].generation = a.generation
    BY <1>1 DEF App, SameMessages
  <1> QED BY <1>2, <1>3, QuietChange

(* update_filter, in each of its branches.                                 *)
LEMMA UpdateFilterGood ==
  ASSUME NEW a, Good(a), NEW loads \in BOOLEAN, TypeOK
  PROVE  Good(update_filter(a, loads))
  <1>1. Good(apply_lexical_filter([a EXCEPT !.error = FALSE]))
    BY ClearErrorGood, LexicalFilterGood
  <1>2. Good([apply_session_lookup(a, loads) EXCEPT !.error = FALSE])
    BY SessionLookupGood, ClearErrorGood
  <1>3. a.query \in Query /\ a.mode \in Mode BY DEF Good, App
  <1>4. CASE a.query = Empty
    BY <1>1, <1>4, QueryAssumption, Zenon DEF update_filter
  <1>5. CASE a.query \in SessionIds
    BY <1>2, <1>5, QueryAssumption DEF update_filter
  <1>6. CASE a.query \in Text
    BY <1>1, <1>3, <1>6, QueryAssumption DEF update_filter, Mode
  <1> QED BY <1>3, <1>4, <1>5, <1>6 DEF Query
(* Dispatching.  A dispatch starts a generation; what it sends is of that  *)
(* generation, of the current corpus version and the current layout.       *)
LEMMA ResetWorkerGood ==
  ASSUME NEW a, Good(a), TypeOK
  PROVE  Good(reset_semantic_worker(a))
  <1> DEFINE b == reset_semantic_worker(a)
  <1>1. a \in App BY DEF Good
  <1>2. b \in App
    <2>1. <<>> \in Seq(SemanticCommand) /\ <<>> \in Seq(SemanticMessage) /\ 0 \in Nat
      OBVIOUS
    <2> QED BY <1>1, <2>1, Zenon DEF App, reset_semantic_worker
  <1>3. /\ b.layout = a.layout /\ b.snapshot = a.snapshot
        /\ b.generation = a.generation /\ b.corpus_version = a.corpus_version
        /\ b.search_tx = a.search_tx /\ b.search_rx = a.search_rx
        /\ b.sending = a.sending /\ b.worker_tx = <<>> /\ b.worker_rx = <<>>
        /\ b.sent_scope = None
    BY <1>1 DEF App, reset_semantic_worker
  <1> HIDE DEF b
  <1>4. SendingEndsInSearch(b) BY <1>3 DEF Good, SendingEndsInSearch
  <1>5. DataIsLatest(b, lexical) BY <1>3 DEF Good, Safe, DataIsLatest
  <1>6. NothingIsNewer(b, lexical, semantic)
    BY <1>3 DEF Good, Safe, NothingIsNewer, SearchIsPast, CorpusIsPast,
       RequestIsPast
  <1>7. AnswersAreCurrent(b) BY <1>3 DEF Good, Safe, AnswersAreCurrent
  <1>8. \A version : Wanted(b, semantic, version) => Wanted(a, semantic, version)
    BY <1>3 DEF Wanted
  <1>9. WantedCorpusIsCurrent(b, semantic)
    BY <1>3, <1>8 DEF Good, Safe, WantedCorpusIsCurrent
  <1> QED BY <1>2, <1>4, <1>5, <1>6, <1>7, <1>9 DEF Good, Safe, b
(* One more message for the semantic worker.                               *)
LEMMA AppendSending ==
  ASSUME NEW a \in App, NEW b \in App, NEW m \in SemanticCommand,
         Safe(a, lexical, semantic),
         b.layout = a.layout, b.snapshot = a.snapshot,
         b.generation = a.generation, b.corpus_version = a.corpus_version,
         b.search_tx = a.search_tx, b.search_rx = a.search_rx,
         b.worker_tx = a.worker_tx, b.worker_rx = a.worker_rx,
         b.sending = Append(a.sending, m),
         SearchIsPast(a, m), CorpusIsPast(a, m),
         m.type = "UpdateCorpus" => m.layout = a.layout,
         m.type = "Search" => m.corpus_version = a.corpus_version
  PROVE  Safe(b, lexical, semantic)
  <1>1. \A i \in 1 .. Len(b.sending) :
          \/ i \in 1 .. Len(a.sending) /\ b.sending[i] = a.sending[i]
          \/ b.sending[i] = m
    <2>1. a.sending \in Seq(SemanticCommand) BY DEF App
    <2> QED BY <2>1
  <1>2. DataIsLatest(b, lexical) BY DEF Safe, DataIsLatest
  <1>3. AnswersAreCurrent(b) BY DEF Safe, AnswersAreCurrent
  <1>4. NothingIsNewer(b, lexical, semantic)
    <2>1. \A i \in 1 .. Len(b.sending) :
            SearchIsPast(b, b.sending[i]) /\ CorpusIsPast(b, b.sending[i])
      BY <1>1 DEF Safe, NothingIsNewer, SearchIsPast, CorpusIsPast
    <2> QED BY <2>1 DEF Safe, NothingIsNewer, SearchIsPast, CorpusIsPast,
        RequestIsPast
  <1>5. \A version : Wanted(b, semantic, version) => Wanted(a, semantic, version)
    BY <1>1 DEF Wanted
  <1>6. WantedCorpusIsCurrent(b, semantic)
    BY <1>1, <1>5 DEF Safe, WantedCorpusIsCurrent
  <1> QED BY <1>2, <1>3, <1>4, <1>6 DEF Safe

(* An App in the middle of a dispatch.                                     *)
Dispatching(a) ==
  /\ a \in App
  /\ Safe(a, lexical, semantic)
  /\ a.sent_scope # None => a.scope_version >= 1

(* The corpus goes before the scope and the search, with the current       *)
(* layout.                                                                 *)
LEMMA SendCorpusDispatching ==
  ASSUME NEW a, Dispatching(a)
  PROVE  Dispatching(send_semantic_corpus(a))
  <1> DEFINE m == [type |-> "UpdateCorpus", corpus_version |-> a.corpus_version,
                   layout |-> a.snapshot]
             b == [a EXCEPT !.sending = Append(@, m),
                            !.sent_corpus = a.corpus_version,
                            !.sent_scope = None]
  <1>1. /\ a \in App /\ a.corpus_version \in Nat /\ a.snapshot \in Nat
        /\ a.sending \in Seq(SemanticCommand)
    BY DEF Dispatching, App
  <1>2. m \in SemanticCommand BY <1>1 DEF SemanticCommand
  <1>3. Append(a.sending, m) \in Seq(SemanticCommand) BY <1>1, <1>2
  <1>4. b \in App
    <2> HIDE DEF m
    <2> QED BY <1>1, <1>3, Zenon DEF App
  <1>5. /\ b.layout = a.layout /\ b.snapshot = a.snapshot
        /\ b.generation = a.generation /\ b.corpus_version = a.corpus_version
        /\ b.search_tx = a.search_tx /\ b.search_rx = a.search_rx
        /\ b.worker_tx = a.worker_tx /\ b.worker_rx = a.worker_rx
        /\ b.sending = Append(a.sending, m)
        /\ b.sent_scope = None
    BY <1>1 DEF App
  <1>6. /\ SearchIsPast(a, m) /\ CorpusIsPast(a, m)
        /\ m.type = "UpdateCorpus" /\ m.layout = a.layout
    BY <1>1 DEF SearchIsPast, CorpusIsPast, Dispatching, Safe, DataIsLatest
  <1> HIDE DEF b, m
  <1>7. Safe(b, lexical, semantic)
    BY <1>1, <1>2, <1>4, <1>5, <1>6, AppendSending DEF Dispatching
  <1>8. Dispatching(b) BY <1>4, <1>5, <1>7 DEF Dispatching
  <1> QED BY <1>8 DEF send_semantic_corpus, b, m

(* The scope goes after the corpus, with a version of its own.             *)
LEMMA SendScopeDispatching ==
  ASSUME NEW a, Dispatching(a)
  PROVE  /\ Dispatching(send_semantic_scope(a))
         /\ send_semantic_scope(a).scope_version >= 1
  <1> DEFINE m == [type |-> "UpdateScope",
                   scope_version |-> a.scope_version + 1, scope |-> ScopeOf(a)]
             b == [a EXCEPT !.scope_version = @ + 1,
                            !.sending = Append(@, m),
                            !.sent_scope = ScopeOf(a)]
  <1>1. /\ a \in App /\ a.corpus_version \in Nat /\ a.layout \in Nat
        /\ a.count \in Nat /\ a.filter \in BOOLEAN
        /\ a.sending \in Seq(SemanticCommand)
        /\ a.scope_version \in Nat /\ a.scope_version + 1 \in Nat
    BY DEF Dispatching, App
  <1>2. ScopeOf(a) \in Scope BY <1>1, Zenon DEF ScopeOf, Scope
  <1>3. ScopeOf(a) # None BY <1>2, NoneAssumption
  <1>4. m \in SemanticCommand BY <1>1, <1>2 DEF SemanticCommand
  <1>5. Append(a.sending, m) \in Seq(SemanticCommand) BY <1>1, <1>4
  <1>6. b \in App
    <2> HIDE DEF m
    <2> QED BY <1>1, <1>2, <1>5, Zenon DEF App
  <1>7. /\ b.layout = a.layout /\ b.snapshot = a.snapshot
        /\ b.generation = a.generation /\ b.corpus_version = a.corpus_version
        /\ b.search_tx = a.search_tx /\ b.search_rx = a.search_rx
        /\ b.worker_tx = a.worker_tx /\ b.worker_rx = a.worker_rx
        /\ b.sending = Append(a.sending, m)
        /\ b.scope_version = a.scope_version + 1
    BY <1>1 DEF App
  <1>8. SearchIsPast(a, m) /\ CorpusIsPast(a, m) /\ m.type = "UpdateScope"
    BY DEF SearchIsPast, CorpusIsPast
  <1> HIDE DEF b, m
  <1>9. Safe(b, lexical, semantic)
    BY <1>1, <1>4, <1>6, <1>7, <1>8, AppendSending DEF Dispatching
  <1>10. Dispatching(b) /\ b.scope_version >= 1
    BY <1>1, <1>6, <1>7, <1>9 DEF Dispatching
  <1>11. CASE a.sent_scope = ScopeOf(a)
    BY <1>3, <1>11 DEF send_semantic_scope, Dispatching
  <1>12. CASE a.sent_scope # ScopeOf(a)
    BY <1>10, <1>12 DEF send_semantic_scope, b, m
  <1> QED BY <1>11, <1>12

(* The search ends what a dispatch sends, and asks for the versions sent   *)
(* before it.                                                              *)
LEMMA SendSearchGood ==
  ASSUME NEW a, Dispatching(a), a.scope_version >= 1, NEW prewarm \in BOOLEAN
  PROVE  Good(send_semantic_search(a, prewarm))
  <1> DEFINE m == [type |-> "Search",
                   query |-> IF prewarm THEN Empty ELSE a.query,
                   generation |-> a.generation,
                   corpus_version |-> a.corpus_version,
                   scope_version |-> a.scope_version, prewarm |-> prewarm]
             b == [a EXCEPT !.sending = Append(@, m)]
  <1>1. /\ a \in App /\ a.corpus_version \in Nat /\ a.generation \in Nat
        /\ a.query \in Query /\ a.scope_version \in Nat
        /\ a.sending \in Seq(SemanticCommand)
    BY DEF Dispatching, App
  <1>2. m \in SemanticSearch BY <1>1, Zenon DEF SemanticSearch, Query
  <1>3. m \in SemanticCommand BY <1>2 DEF SemanticCommand
  <1>4. /\ SearchIsPast(a, m) /\ CorpusIsPast(a, m)
        /\ m.type = "Search" /\ m.corpus_version = a.corpus_version
    BY <1>1 DEF SearchIsPast, CorpusIsPast, Dispatching, Safe, NothingIsNewer
  <1> HIDE DEF m
  <1>5. Append(a.sending, m) \in Seq(SemanticCommand) BY <1>1, <1>3
  <1>6. b \in App BY <1>1, <1>5, Zenon DEF App
  <1>7. /\ b.layout = a.layout /\ b.snapshot = a.snapshot
        /\ b.generation = a.generation /\ b.corpus_version = a.corpus_version
        /\ b.search_tx = a.search_tx /\ b.search_rx = a.search_rx
        /\ b.worker_tx = a.worker_tx /\ b.worker_rx = a.worker_rx
        /\ b.sending = Append(a.sending, m)
        /\ b.scope_version = a.scope_version
    BY <1>1 DEF App
  <1> HIDE DEF b
  <1>8. Safe(b, lexical, semantic)
    BY <1>1, <1>3, <1>4, <1>6, <1>7, AppendSending DEF Dispatching
  <1>9. SendingEndsInSearch(b)
    <2>1. b.sending[Len(b.sending)] = m BY <1>1, <1>7
    <2> QED BY <1>4, <1>7, <2>1 DEF SendingEndsInSearch
  <1> QED BY <1>6, <1>8, <1>9 DEF Good, send_semantic_search, b, m

(* The search that a dispatch sends to the search worker comes after the   *)
(* data of the current layout.                                             *)
LEMMA SendLexicalSafe ==
  ASSUME NEW a \in App, Safe(a, lexical, semantic)
  PROVE  /\ send_lexical_search(a) \in App
         /\ Safe(send_lexical_search(a), lexical, semantic)
         /\ send_lexical_search(a).sending = a.sending
         /\ send_lexical_search(a).sent_scope = a.sent_scope
         /\ send_lexical_search(a).scope_version = a.scope_version
  <1> DEFINE m == [type |-> "Search", query |-> a.query,
                   generation |-> a.generation, mode |-> a.mode]
             b == [a EXCEPT !.search_tx = Append(@, m)]
  <1>1. /\ a.generation \in Nat /\ a.query \in Query /\ a.mode \in Mode
        /\ a.search_tx \in Seq(SearchCommand)
    BY DEF App
  <1>2. m \in LexicalSearch BY <1>1, Zenon DEF LexicalSearch
  <1>3. m \in SearchCommand BY <1>2 DEF SearchCommand
  <1>4. ~IsData(m) /\ m.generation = a.generation BY DEF IsData
  <1> HIDE DEF m
  <1>5. Append(a.search_tx, m) \in Seq(SearchCommand) BY <1>1, <1>3
  <1>6. b \in App BY <1>5, Zenon DEF App
  <1>7. /\ b.layout = a.layout /\ b.snapshot = a.snapshot
        /\ b.generation = a.generation /\ b.corpus_version = a.corpus_version
        /\ b.search_rx = a.search_rx /\ b.sending = a.sending
        /\ b.worker_tx = a.worker_tx /\ b.worker_rx = a.worker_rx
        /\ b.scope_version = a.scope_version /\ b.sent_scope = a.sent_scope
        /\ b.search_tx = Append(a.search_tx, m)
    BY DEF App
  <1>8. /\ Len(b.search_tx) = Len(a.search_tx) + 1 /\ Len(a.search_tx) \in Nat
        /\ \A i \in 1 .. Len(a.search_tx) : b.search_tx[i] = a.search_tx[i]
        /\ b.search_tx[Len(a.search_tx) + 1] = m
    BY <1>1, <1>7
  <1> HIDE DEF b
  <1>9. DataIsLatest(b, lexical)
    <2>1. ASSUME NEW i \in 1 .. Len(b.search_tx), IsData(b.search_tx[i]),
                 \A j \in (i + 1) .. Len(b.search_tx) : ~IsData(b.search_tx[j])
          PROVE  b.search_tx[i].layout = b.layout
      <3>1. i \in 1 .. Len(a.search_tx) /\ b.search_tx[i] = a.search_tx[i]
        BY <1>4, <1>8, <2>1
      <3>2. \A j \in (i + 1) .. Len(a.search_tx) : ~IsData(a.search_tx[j])
        BY <1>8, <2>1, <3>1
      <3> QED BY <1>7, <2>1, <3>1, <3>2 DEF Safe, DataIsLatest
    <2>2. (\A i \in 1 .. Len(b.search_tx) : ~IsData(b.search_tx[i]))
            => \A i \in 1 .. Len(a.search_tx) : ~IsData(a.search_tx[i])
      BY <1>8
    <2>3. (\A i \in 1 .. Len(b.search_tx) : ~IsData(b.search_tx[i]))
            => lexical.layout = b.layout
      BY <1>7, <2>2 DEF Safe, DataIsLatest
    <2> QED BY <1>7, <2>1, <2>3 DEF Safe, DataIsLatest
  <1>10. NothingIsNewer(b, lexical, semantic)
    <2>1. \A i \in 1 .. Len(b.search_tx) :
            ~IsData(b.search_tx[i]) => b.search_tx[i].generation <= b.generation
      <3>1. \A i \in 1 .. Len(b.search_tx) :
              \/ i \in 1 .. Len(a.search_tx) /\ b.search_tx[i] = a.search_tx[i]
              \/ b.search_tx[i] = m
        BY <1>8
      <3> QED BY <1>1, <1>4, <1>7, <3>1 DEF Safe, NothingIsNewer
    <2> QED BY <1>7, <2>1 DEF Safe, NothingIsNewer, SearchIsPast, CorpusIsPast,
        RequestIsPast
  <1>11. AnswersAreCurrent(b) BY <1>7 DEF Safe, AnswersAreCurrent
  <1>12. \A version : Wanted(b, semantic, version) <=> Wanted(a, semantic, version)
    BY <1>7 DEF Wanted
  <1>13. WantedCorpusIsCurrent(b, semantic)
    BY <1>7, <1>12 DEF Safe, WantedCorpusIsCurrent
  <1> QED BY <1>6, <1>7, <1>9, <1>10, <1>11, <1>13
      DEF Safe, send_lexical_search, b, m

(* Corpus and scope together.                                              *)
LEMMA SendStateDispatching ==
  ASSUME NEW a, Dispatching(a)
  PROVE  /\ Dispatching(send_semantic_state(a))
         /\ send_semantic_state(a).scope_version >= 1
  <1>1. Dispatching(send_semantic_corpus(a))
    BY SendCorpusDispatching
  <1> QED BY <1>1, SendScopeDispatching DEF send_semantic_state

(* dispatch_semantic_search, for a query or a prewarm, to a live worker    *)
(* or a new one.                                                           *)
LEMMA DispatchSemanticGood ==
  ASSUME NEW a, Ready(a), NEW prewarm \in BOOLEAN, TypeOK
  PROVE  Good(dispatch_semantic_search(a, prewarm))
  <1> DEFINE begun == [a EXCEPT
               !.generation = @ + 1, !.started = ~prewarm,
               !.dispatched = IF prewarm THEN @ ELSE a.query,
               !.pending = a.generation + 1,
               !.prewarm = IF prewarm THEN a.generation + 1 ELSE @,
               !.error = FALSE, !.cancelled = TRUE]
             connected == IF semantic.alive THEN begun
                          ELSE reset_semantic_worker(begun)
             sent == send_semantic_state(connected)
             searched == IF prewarm THEN sent ELSE send_lexical_search(sent)
  <1>1. /\ a \in App /\ a.generation + 1 \in Nat /\ a.query \in Query
        /\ a.prewarm \in Nat /\ a.dispatched \in Query \cup {None}
    BY DEF Ready, App
  <1>2. /\ (~prewarm) \in BOOLEAN
        /\ (IF prewarm THEN a.dispatched ELSE a.query) \in Query \cup {None}
        /\ (IF prewarm THEN a.generation + 1 ELSE a.prewarm) \in Nat
    BY <1>1
  <1>3. begun \in App
    <2>1. ASSUME NEW started \in BOOLEAN, NEW dispatched \in Query \cup {None},
                 NEW warms \in Nat
          PROVE  [a EXCEPT !.generation = a.generation + 1,
                           !.started = started, !.dispatched = dispatched,
                           !.pending = a.generation + 1, !.prewarm = warms,
                           !.error = FALSE, !.cancelled = TRUE] \in App
      BY <1>1, <2>1, ZenonT(60) DEF App
    <2> QED BY <1>2, <2>1, Zenon
  <1>4. SameMessages(a, begun) /\ begun.generation = a.generation + 1
    BY <1>1 DEF App, SameMessages
  <1>5. Good(begun) BY <1>3, <1>4, NewGeneration
  <1> HIDE DEF begun
  <1>6. Good(connected) BY <1>5, ResetWorkerGood
  <1> HIDE DEF connected
  <1>7. Dispatching(connected)
    BY <1>6 DEF Good, Dispatching, SendingEndsInSearch
  <1>8. Dispatching(sent) /\ sent.scope_version >= 1
    BY <1>7, SendStateDispatching
  <1> HIDE DEF sent
  <1>9. Dispatching(searched) /\ searched.scope_version >= 1
    BY <1>8, SendLexicalSafe DEF Dispatching
  <1> HIDE DEF searched
  <1>10. Good(send_semantic_search(searched, prewarm))
    BY <1>9, SendSearchGood
  <1> QED BY <1>10 DEF dispatch_semantic_search, searched, sent, connected, begun

(* abandon_search_in_flight starts a generation that nothing will answer.  *)
LEMMA AbandonGood ==
  ASSUME NEW a, Ready(a), TypeOK
  PROVE  Good(abandon_search_in_flight(a))
  <1> DEFINE b == abandon_search_in_flight(a)
  <1>1. a \in App /\ a.generation + 1 \in Nat /\ NoGeneration \in Nat
    BY DEF Ready, App, NoGeneration
  <1>2. b \in App BY <1>1, Zenon DEF App, abandon_search_in_flight
  <1>3. SameMessages(a, b) /\ b.generation = a.generation + 1
    BY <1>1 DEF App, abandon_search_in_flight, SameMessages
  <1> QED BY <1>2, <1>3, NewGeneration

(* dispatch_search in lexical mode.                                        *)
LEMMA DispatchLexicalGood ==
  ASSUME NEW a, Ready(a), TypeOK
  PROVE  Good(dispatch_lexical_search(a))
  <1> DEFINE b == [a EXCEPT !.dispatched = a.query, !.generation = @ + 1,
                            !.started = TRUE, !.error = FALSE]
  <1>1. a \in App /\ a.generation + 1 \in Nat /\ a.query \in Query
    BY DEF Ready, App
  <1>2. b \in App BY <1>1, Zenon DEF App
  <1>3. SameMessages(a, b) /\ b.generation = a.generation + 1
    BY <1>1 DEF App, SameMessages
  <1>4. Good(b) BY <1>2, <1>3, NewGeneration
  <1> HIDE DEF b
  <1>5. Good(send_lexical_search(b))
    BY <1>4, SendLexicalSafe DEF Good, SendingEndsInSearch
  <1> QED BY <1>5 DEF dispatch_lexical_search, b

(* dispatch_search with nothing to search for.                             *)
LEMMA DispatchEmptyGood ==
  ASSUME NEW a, Ready(a), TypeOK
  PROVE  Good(dispatch_empty_query(a))
  <1> DEFINE b == invalidate_search_generation(a)
             c == [b EXCEPT !.prewarm = IF a.mode = "Semantic"
                                        THEN a.prewarm ELSE @]
  <1>1. Good(b) BY InvalidateGood
  <1>2. b \in App /\ a.prewarm \in Nat BY <1>1 DEF Good, Ready, App
  <1> HIDE DEF b
  <1>3. (IF a.mode = "Semantic" THEN a.prewarm ELSE b.prewarm) \in Nat
    BY <1>2 DEF App
  <1>4. c \in App
    <2>1. ASSUME NEW warms \in Nat PROVE [b EXCEPT !.prewarm = warms] \in App
      BY <1>2, <2>1, Zenon DEF App
    <2> QED BY <1>3, <2>1, Zenon
  <1>5. SameMessages(b, c) /\ c.generation = b.generation
    BY <1>2 DEF App, SameMessages
  <1>6. Good(c) BY <1>1, <1>4, <1>5, QuietChange
  <1> HIDE DEF c
  <1>7. Good(update_filter(c, FALSE)) BY <1>6, UpdateFilterGood
  <1> QED BY <1>7 DEF dispatch_empty_query, b, c

(* dispatch_search, in each of its branches.                               *)
LEMMA DispatchGood ==
  ASSUME NEW a, Good(a), NEW loads \in BOOLEAN, TypeOK
  PROVE  Good(dispatch_search(a, loads))
  <1>1. Ready(a) /\ a.query \in Query /\ a.mode \in Mode
    BY GoodIsReady DEF Good, App
  <1>2. CASE a.query = Empty
    BY <1>1, <1>2, DispatchEmptyGood, QueryAssumption DEF dispatch_search
  <1>3. CASE a.query \in SessionIds
    <2>1. Good(invalidate_search_generation(apply_session_lookup(a, loads)))
      BY SessionLookupGood, GoodIsReady, InvalidateGood
    <2> QED BY <1>3, <2>1, QueryAssumption DEF dispatch_search
  <1>4. CASE a.query \in Text
    <2> DEFINE b == abandon_search_in_flight(a)
               c == [b EXCEPT !.dispatched = a.query]
    <2>1. Good(c)
      <3>1. Good(b) BY <1>1, AbandonGood
      <3>2. b \in App BY <3>1 DEF Good
      <3> HIDE DEF b
      <3>3. c \in App BY <1>1, <3>2, Zenon DEF App
      <3>4. SameMessages(b, c) /\ c.generation = b.generation
        BY <3>2 DEF App, SameMessages
      <3> QED BY <3>1, <3>3, <3>4, QuietChange
    <2>2. Good(dispatch_semantic_search(a, FALSE))
      BY <1>1, DispatchSemanticGood
    <2>3. Good(dispatch_lexical_search(a)) BY <1>1, DispatchLexicalGood
    <2> HIDE DEF c
    <2>4. CASE a.dispatched = a.query
      BY <1>4, <2>4, QueryAssumption DEF dispatch_search
    <2>5. CASE a.dispatched # a.query /\ IsAnswered(a)
      BY <1>4, <2>1, <2>5, QueryAssumption DEF dispatch_search, b, c
    <2>6. CASE a.dispatched # a.query /\ ~IsAnswered(a)
      BY <1>4, <2>2, <2>3, <2>6, QueryAssumption DEF dispatch_search
    <2> QED BY <2>4, <2>5, <2>6
  <1> QED BY <1>1, <1>2, <1>3, <1>4 DEF Query

(* prewarm_semantic_cache dispatches an empty search or nothing.           *)
LEMMA PrewarmGood ==
  ASSUME NEW a, Good(a), TypeOK
  PROVE  Good(prewarm_semantic_cache(a))
  BY GoodIsReady, DispatchSemanticGood DEF prewarm_semantic_cache

(* rerun_query updates the rows on screen and dispatches.                  *)
LEMMA RerunGood ==
  ASSUME NEW a, Good(a), NEW loads \in BOOLEAN, TypeOK
  PROVE  Good(rerun_query(a, loads))
  <1>1. Good(update_filter(a, loads)) BY UpdateFilterGood
  <1> QED BY <1>1, DispatchGood, PrewarmGood DEF rerun_query

(* refresh_search_data and finish_loading: whatever moved the rows, the    *)
(* messages it leaves are right.                                           *)
LEMMA RefreshGood ==
  ASSUME NEW a, Bounded(a), TypeOK
  PROVE  Good(refresh_search_data(a))
  BY ResendReady, InvalidateGood DEF refresh_search_data

(* What moves the rows touches no message.                                 *)
LEMMA MovedRowsBounded ==
  ASSUME NEW a, Good(a), NEW b \in App,
         b.generation = a.generation, b.corpus_version = a.corpus_version,
         b.search_tx = a.search_tx, b.search_rx = a.search_rx,
         b.sending = a.sending,
         b.worker_tx = a.worker_tx, b.worker_rx = a.worker_rx,
         b.sent_scope = a.sent_scope, b.scope_version = a.scope_version
  PROVE  Bounded(b)
  BY DEF Good, Safe, Bounded, SendingEndsInSearch, NothingIsNewer,
         SearchIsPast, CorpusIsPast, RequestIsPast

(* Rows that moved leave an App of its type.                               *)
LEMMA RelayoutTyped ==
  ASSUME NEW a \in App
  PROVE  /\ Relayout(a) \in App
         /\ Relayout(a).count = a.count /\ Relayout(a).mode = a.mode
         /\ Relayout(a).generation = a.generation
         /\ Relayout(a).corpus_version = a.corpus_version
         /\ Relayout(a).search_tx = a.search_tx
         /\ Relayout(a).search_rx = a.search_rx
         /\ Relayout(a).sending = a.sending
         /\ Relayout(a).worker_tx = a.worker_tx
         /\ Relayout(a).worker_rx = a.worker_rx
         /\ Relayout(a).sent_scope = a.sent_scope
         /\ Relayout(a).scope_version = a.scope_version
  <1> DEFINE rows == [a.filtered EXCEPT !.layout = a.layout + 1]
  <1>1. a.layout + 1 \in Nat BY DEF App
  <1>2. a.filtered \in Filtered BY DEF App
  <1>3. rows \in Filtered BY <1>1, <1>2, Zenon DEF Filtered
  <1>4. Relayout(a) = [a EXCEPT !.layout = @ + 1, !.filtered = rows]
    BY DEF Relayout
  <1> HIDE DEF rows
  <1>5. [a EXCEPT !.layout = @ + 1, !.filtered = rows] \in App
    BY <1>1, <1>3, Zenon DEF App
  <1> QED BY <1>4, <1>5 DEF App
-----------------------------------------------------------------------------
(* What a handler leaves becomes the state *)

(* Between two handlers App is good.                                       *)
LEMMA AppIsGood == ASSUME IndexInv PROVE Good(app)
  BY DEF IndexInv, TypeOK, Good

(* A worker whose thread has just started has taken nothing.               *)
LEMMA NewWorkerSafe ==
  ASSUME NEW a, Safe(a, lexical, semantic), a \in App
  PROVE  Safe(a, lexical, NewSemanticWorker)
  <1> DEFINE w == NewSemanticWorker
  <1>1. /\ w.request = None /\ w.pending_search = None
        /\ w.corpus_version = 0 /\ w.layout = 0
    BY DEF NewSemanticWorker
  <1> HIDE DEF w
  <1>2. a.corpus_version \in Nat /\ a.corpus_version >= 1
    BY DEF App, Safe, NothingIsNewer
  <1>3. NothingIsNewer(a, lexical, w)
    BY <1>1, <1>2 DEF Safe, NothingIsNewer, RequestIsPast
  <1>4. \A version : Wanted(a, w, version) => Wanted(a, semantic, version)
    BY <1>1 DEF Wanted
  <1>5. ~Wanted(a, w, 0)
    BY <1>1, <1>2 DEF Safe, NothingIsNewer, SearchIsPast, Wanted
  <1>6. WantedCorpusIsCurrent(a, w)
    BY <1>1, <1>4, <1>5 DEF Safe, WantedCorpusIsCurrent
  <1> QED BY <1>3, <1>6 DEF Safe, w

(* A worker whose thread has just started is of its type.                  *)
LEMMA NewWorkerTyped ==
  NewSemanticWorker \in SemanticWorker /\ RunsWhatItAskedFor(NewSemanticWorker)
  <1>1. 0 \in Nat OBVIOUS
  <1>2. NewSemanticWorker \in SemanticWorker
    BY <1>1, Zenon DEF NewSemanticWorker, SemanticWorker
  <1>3. RunsWhatItAskedFor(NewSemanticWorker)
    BY DEF NewSemanticWorker, RunsWhatItAskedFor
  <1> QED BY <1>2, <1>3

(* A handler that leaves a good App preserves the invariant, with the      *)
(* worker it may have restarted.                                           *)
LEMMA BecomesGood ==
  ASSUME IndexInv, NEW b, Good(b), Becomes(b)
  PROVE  IndexInv'
  <1>1. app' = b /\ lexical' = lexical /\ panics' = panics BY DEF Becomes
  <1>2. b \in App /\ SendingEndsInSearch(b) /\ Safe(b, lexical, semantic)
    BY DEF Good
  <1>3. semantic' = semantic \/ semantic' = NewSemanticWorker
    BY DEF Becomes
  <1>4. semantic' \in SemanticWorker /\ RunsWhatItAskedFor(semantic')
    BY <1>3, NewWorkerTyped DEF IndexInv, TypeOK
  <1>5. Safe(b, lexical, semantic')
    BY <1>2, <1>3, NewWorkerSafe
  <1>6. TypeOK' BY <1>1, <1>2, <1>4 DEF TypeOK, IndexInv
  <1>7. SendingEndsInSearch(app)' /\ RunsWhatItAskedFor(semantic)'
        /\ Safe(app, lexical, semantic)'
    BY <1>1, <1>2, <1>4, <1>5
       DEF SendingEndsInSearch, RunsWhatItAskedFor, Safe, DataIsLatest,
           NothingIsNewer, AnswersAreCurrent, WantedCorpusIsCurrent, Wanted,
           SearchIsPast, CorpusIsPast, RequestIsPast
  <1> QED BY <1>6, <1>7 DEF IndexInv

-----------------------------------------------------------------------------
(* The handlers of the event loop *)

(* A key that edits the query.                                             *)
LEMMA EditQueryInv ==
  ASSUME IndexInv, NEW q \in Query, NEW loads \in BOOLEAN, EditQuery(q, loads)
  PROVE  IndexInv'
  <1> DEFINE edited == [app EXCEPT !.query = q]
  <1>1. Good(app) /\ app \in App BY AppIsGood DEF Good
  <1>2. Good(edited)
    <2>1. edited \in App BY <1>1, Zenon DEF App
    <2>2. SameMessages(app, edited) /\ edited.generation = app.generation
      BY <1>1 DEF App, SameMessages
    <2> QED BY <1>1, <2>1, <2>2, QuietChange
  <1>3. Becomes(edited) \/ Becomes(dispatch_search(edited, loads))
    BY DEF EditQuery
  <1> HIDE DEF edited
  <1>4. Good(dispatch_search(edited, loads))
    BY <1>2, DispatchGood DEF IndexInv
  <1> QED BY <1>2, <1>3, <1>4, BecomesGood

(* Tab.                                                                    *)
LEMMA ToggleFilterInv ==
  ASSUME IndexInv, NEW loads \in BOOLEAN, toggle_workspace_filter(loads)
  PROVE  IndexInv'
  <1> DEFINE toggled == [app EXCEPT !.filter = ~@]
             a == invalidate_search_generation(toggled)
             narrowed == [a EXCEPT !.filtered.filter = @ \/ a.filter]
             rows == [a.filtered EXCEPT !.filter = @ \/ a.filter]
  <1>1. Good(app) /\ app \in App /\ TypeOK BY AppIsGood DEF Good, IndexInv
  <1>2. Good(toggled)
    <2>1. (~app.filter) \in BOOLEAN OBVIOUS
    <2>2. toggled \in App
      <3> DEFINE f == ~app.filter
      <3>1. f \in BOOLEAN BY <2>1
      <3>2. toggled = [app EXCEPT !.filter = f] BY Zenon
      <3> HIDE DEF f, toggled
      <3>3. [app EXCEPT !.filter = f] \in App BY <1>1, <3>1, Zenon DEF App
      <3> QED BY <3>2, <3>3
    <2>3. SameMessages(app, toggled) /\ toggled.generation = app.generation
      BY <1>1 DEF App, SameMessages
    <2> QED BY <1>1, <2>2, <2>3, QuietChange
  <1> HIDE DEF toggled
  <1>3. Good(a) BY <1>1, <1>2, GoodIsReady, InvalidateGood
  <1> HIDE DEF a
  <1>4. Good(narrowed)
    <2>1. a \in App /\ a.filtered \in Filtered BY <1>3 DEF Good, App
    <2>2. (a.filtered.filter \/ a.filter) \in BOOLEAN OBVIOUS
    <2>3. rows \in Filtered BY <2>1, <2>2, Zenon DEF Filtered
    <2>4. narrowed = [a EXCEPT !.filtered = rows] BY Zenon
    <2> HIDE DEF rows
    <2>5. [a EXCEPT !.filtered = rows] \in App BY <2>1, <2>3, Zenon DEF App
    <2>6. SameMessages(a, [a EXCEPT !.filtered = rows])
          /\ [a EXCEPT !.filtered = rows].generation = a.generation
      BY <2>1 DEF App, SameMessages
    <2> QED BY <1>3, <2>4, <2>5, <2>6, QuietChange
  <1> HIDE DEF narrowed
  <1>5. Good(dispatch_search(narrowed, loads)) /\ Good(update_filter(a, loads))
    BY <1>1, <1>3, <1>4, DispatchGood, UpdateFilterGood
  <1>6. \/ Becomes(dispatch_search(narrowed, loads))
        \/ Becomes(update_filter(a, loads))
    BY DEF toggle_workspace_filter, narrowed, a, toggled
  <1> QED BY <1>5, <1>6, BecomesGood

(* Ctrl+T.                                                                 *)
LEMMA ToggleModeInv ==
  ASSUME IndexInv, NEW loads \in BOOLEAN, toggle_list_search_mode(loads)
  PROVE  IndexInv'
  <1> DEFINE other == IF app.mode = "Lexical" THEN "Semantic" ELSE "Lexical"
             toggled == [app EXCEPT !.mode = other]
             a == invalidate_search_generation(toggled)
  <1>1. Good(app) /\ app \in App /\ TypeOK BY AppIsGood DEF Good, IndexInv
  <1>2. Good(toggled)
    <2>1. other \in Mode BY DEF Mode
    <2> HIDE DEF other
    <2>2. toggled \in App BY <1>1, <2>1, Zenon DEF App
    <2>3. SameMessages(app, toggled) /\ toggled.generation = app.generation
      BY <1>1 DEF App, SameMessages
    <2> QED BY <1>1, <2>2, <2>3, QuietChange
  <1> HIDE DEF toggled
  <1>3. Good(a) BY <1>1, <1>2, GoodIsReady, InvalidateGood
  <1> HIDE DEF a
  <1>4. Good(prewarm_semantic_cache(a)) /\ Good(dispatch_search(a, loads))
    BY <1>1, <1>3, PrewarmGood, DispatchGood
  <1>5. Becomes(prewarm_semantic_cache(a)) \/ Becomes(dispatch_search(a, loads))
    BY DEF toggle_list_search_mode, a, toggled
  <1> QED BY <1>4, <1>5, BecomesGood

(* A delete: the rows move and nothing is dispatched.                      *)
LEMMA RemoveInv ==
  ASSUME IndexInv, remove_selected_from_list
  PROVE  IndexInv'
  <1> DEFINE r == Relayout(app)
             b == [r EXCEPT !.count = @ - 1]
  <1>1. Good(app) /\ app \in App /\ TypeOK BY AppIsGood DEF Good, IndexInv
  <1>2. r \in App /\ r.count - 1 \in Nat
    <2>1. r \in App /\ r.count = app.count BY <1>1, RelayoutTyped
    <2>2. app.count \in Nat BY <1>1 DEF App
    <2> QED BY <2>1, <2>2 DEF remove_selected_from_list
  <1>3. Bounded(b)
    <2>1. b \in App
      <3> HIDE DEF r
      <3> QED BY <1>2, Zenon DEF App
    <2>2. /\ b.generation = app.generation
          /\ b.corpus_version = app.corpus_version
          /\ b.search_tx = app.search_tx /\ b.search_rx = app.search_rx
          /\ b.sending = app.sending
          /\ b.worker_tx = app.worker_tx /\ b.worker_rx = app.worker_rx
          /\ b.sent_scope = app.sent_scope
          /\ b.scope_version = app.scope_version
      <3> HIDE DEF r
      <3>1. /\ r.generation = app.generation
            /\ r.corpus_version = app.corpus_version
            /\ r.search_tx = app.search_tx /\ r.search_rx = app.search_rx
            /\ r.sending = app.sending
            /\ r.worker_tx = app.worker_tx /\ r.worker_rx = app.worker_rx
            /\ r.sent_scope = app.sent_scope
            /\ r.scope_version = app.scope_version
        BY <1>1, RelayoutTyped DEF r
      <3> QED BY <1>2, <3>1 DEF App
    <2> HIDE DEF b
    <2> QED BY <1>1, <2>1, <2>2, MovedRowsBounded
  <1> HIDE DEF b
  <1>4. Good(refresh_search_data(b)) BY <1>1, <1>3, RefreshGood
  <1>5. Becomes(refresh_search_data(b)) BY DEF remove_selected_from_list, b, r
  <1> QED BY <1>4, <1>5, BecomesGood

(* A rename: the rows stay and are sent again.                             *)
LEMMA RenameInv ==
  ASSUME IndexInv, NEW loads \in BOOLEAN, show_renamed_session(loads)
  PROVE  IndexInv'
  <1> DEFINE b == refresh_search_data(app)
  <1>1. Good(app) /\ TypeOK BY AppIsGood DEF IndexInv
  <1>2. Bounded(app) BY <1>1 DEF Good, Safe, Bounded
  <1>3. Good(b) BY <1>1, <1>2, RefreshGood
  <1> HIDE DEF b
  <1>4. Good(update_filter(b, loads)) BY <1>1, <1>3, UpdateFilterGood
  <1>5. Becomes(update_filter(b, loads)) BY DEF show_renamed_session, b
  <1> QED BY <1>4, <1>5, BecomesGood

(* A refresh: the rows move and the query runs again.                      *)
LEMMA EditListInv ==
  ASSUME IndexInv, NEW loads \in BOOLEAN, edit_list(loads)
  PROVE  IndexInv'
  <1> DEFINE r == Relayout(app)
             b == refresh_search_data(r)
  <1>1. Good(app) /\ app \in App /\ TypeOK BY AppIsGood DEF Good, IndexInv
  <1>2. Bounded(r)
    <2>1. /\ r \in App /\ r.generation = app.generation
          /\ r.corpus_version = app.corpus_version
          /\ r.search_tx = app.search_tx /\ r.search_rx = app.search_rx
          /\ r.sending = app.sending
          /\ r.worker_tx = app.worker_tx /\ r.worker_rx = app.worker_rx
          /\ r.sent_scope = app.sent_scope
          /\ r.scope_version = app.scope_version
      BY <1>1, RelayoutTyped
    <2> HIDE DEF r
    <2> QED BY <1>1, <2>1, MovedRowsBounded
  <1> HIDE DEF r
  <1>3. Good(b) BY <1>1, <1>2, RefreshGood
  <1> HIDE DEF b
  <1>4. Good(rerun_query(b, loads)) BY <1>1, <1>3, RerunGood
  <1>5. Becomes(rerun_query(b, loads)) BY DEF edit_list, b, r
  <1> QED BY <1>4, <1>5, BecomesGood

(* Rows that the loader appends are not sent before the load ends.         *)
LEMMA AppendInv ==
  ASSUME IndexInv, append_conversations
  PROVE  IndexInv'
  <1> DEFINE b == [app EXCEPT !.count = @ + 1]
  <1>1. Good(app) /\ app \in App /\ app.count + 1 \in Nat
    BY AppIsGood DEF Good, App
  <1>2. b \in App BY <1>1, Zenon DEF App
  <1>3. SameMessages(app, b) /\ b.generation = app.generation
    BY <1>1 DEF App, SameMessages
  <1>4. Good(b) BY <1>1, <1>2, <1>3, QuietChange
  <1>5. Becomes(b) BY DEF append_conversations
  <1> QED BY <1>4, <1>5, BecomesGood

(* The load ends: the rows are sorted, sent, and the query runs again.     *)
LEMMA FinishLoadingInv ==
  ASSUME IndexInv, NEW loads \in BOOLEAN, finish_loading(loads)
  PROVE  IndexInv'
  <1> DEFINE moved == [app EXCEPT !.layout = @ + 1]
             sorted == send_search_data(replace_conversations_snapshot(moved))
             ready == [sorted EXCEPT !.loading = FALSE]
             b == invalidate_search_generation(ready)
  <1>1. Good(app) /\ app \in App /\ TypeOK BY AppIsGood DEF Good, IndexInv
  <1>2. Bounded(moved)
    <2>1. app.layout + 1 \in Nat BY <1>1, SMTT(40) DEF App
    <2>2. moved \in App BY <1>1, <2>1, Zenon DEF App
    <2>3. /\ moved.generation = app.generation
          /\ moved.corpus_version = app.corpus_version
          /\ moved.search_tx = app.search_tx /\ moved.search_rx = app.search_rx
          /\ moved.sending = app.sending
          /\ moved.worker_tx = app.worker_tx /\ moved.worker_rx = app.worker_rx
          /\ moved.sent_scope = app.sent_scope
          /\ moved.scope_version = app.scope_version
      BY <1>1 DEF App
    <2> QED BY <1>1, <2>2, <2>3, MovedRowsBounded
  <1> HIDE DEF moved
  <1>3. Ready(sorted) BY <1>1, <1>2, ResendReady
  <1> HIDE DEF sorted
  <1>4. Ready(ready)
    <2>1. sorted \in App BY <1>3 DEF Ready
    <2>2. ready \in App BY <2>1, Zenon DEF App
    <2>3. SameMessages(sorted, ready) /\ ready.generation = sorted.generation
      BY <2>1 DEF App, SameMessages
    <2> HIDE DEF ready
    <2> QED BY <1>3, <2>2, <2>3 DEF Ready, SameMessages, SendingEndsInSearch,
        DataIsLatest, NothingIsNewer, SearchIsPast, CorpusIsPast, RequestIsPast
  <1> HIDE DEF ready
  <1>5. Good(b) BY <1>1, <1>4, InvalidateGood
  <1> HIDE DEF b
  <1>6. Good(rerun_query(b, loads)) BY <1>1, <1>5, RerunGood
  <1>7. Becomes(rerun_query(b, loads))
    BY DEF finish_loading, b, ready, sorted, moved
  <1> QED BY <1>6, <1>7, BecomesGood

(* The next message of a dispatch moves into the worker's channel.         *)
LEMMA MoveSendingGood ==
  ASSUME NEW a, Good(a), a.sending # <<>>
  PROVE  Good([a EXCEPT !.worker_tx = Append(@, Head(a.sending)),
                        !.sending = Tail(@)])
  <1> DEFINE m == Head(a.sending)
             b == [a EXCEPT !.worker_tx = Append(@, m), !.sending = Tail(@)]
  <1>1. /\ a \in App /\ a.sending \in Seq(SemanticCommand)
        /\ a.worker_tx \in Seq(SemanticCommand)
    BY DEF Good, App
  <1>2. m \in SemanticCommand /\ m = a.sending[1] /\ 1 \in 1 .. Len(a.sending)
    BY <1>1
  <1>3. Append(a.worker_tx, m) \in Seq(SemanticCommand)
        /\ Tail(a.sending) \in Seq(SemanticCommand)
    BY <1>1, <1>2
  <1> HIDE DEF m
  <1>4. b \in App BY <1>1, <1>3, Zenon DEF App
  <1>5. /\ b.layout = a.layout /\ b.snapshot = a.snapshot
        /\ b.generation = a.generation /\ b.corpus_version = a.corpus_version
        /\ b.search_tx = a.search_tx /\ b.search_rx = a.search_rx
        /\ b.worker_rx = a.worker_rx
        /\ b.sent_scope = a.sent_scope /\ b.scope_version = a.scope_version
        /\ b.worker_tx = Append(a.worker_tx, m) /\ b.sending = Tail(a.sending)
    BY <1>1 DEF App
  <1> HIDE DEF b
  <1>6. \A i \in 1 .. Len(b.sending) :
          i + 1 \in 1 .. Len(a.sending) /\ b.sending[i] = a.sending[i + 1]
    BY <1>1, <1>5
  <1>7. \A i \in 1 .. Len(b.worker_tx) :
          \/ i \in 1 .. Len(a.worker_tx) /\ b.worker_tx[i] = a.worker_tx[i]
          \/ b.worker_tx[i] = a.sending[1]
    BY <1>1, <1>2, <1>5
  <1>8. SendingEndsInSearch(b)
    <2>1. b.sending # <<>> => b.sending[Len(b.sending)] = a.sending[Len(a.sending)]
      BY <1>1, <1>5, <1>6
    <2> QED BY <1>5, <2>1 DEF Good, SendingEndsInSearch
  <1>9. DataIsLatest(b, lexical) /\ AnswersAreCurrent(b)
    BY <1>5 DEF Good, Safe, DataIsLatest, AnswersAreCurrent
  <1>10. NothingIsNewer(b, lexical, semantic)
    <2>1. /\ \A i \in 1 .. Len(a.sending) :
               SearchIsPast(b, a.sending[i]) /\ CorpusIsPast(b, a.sending[i])
          /\ \A i \in 1 .. Len(a.worker_tx) :
               SearchIsPast(b, a.worker_tx[i]) /\ CorpusIsPast(b, a.worker_tx[i])
      BY <1>5 DEF Good, Safe, NothingIsNewer, SearchIsPast, CorpusIsPast
    <2>2. /\ \A i \in 1 .. Len(b.sending) :
               SearchIsPast(b, b.sending[i]) /\ CorpusIsPast(b, b.sending[i])
          /\ \A i \in 1 .. Len(b.worker_tx) :
               SearchIsPast(b, b.worker_tx[i]) /\ CorpusIsPast(b, b.worker_tx[i])
      BY <1>2, <1>6, <1>7, <2>1
    <2> QED BY <1>5, <2>2 DEF Good, Safe, NothingIsNewer, RequestIsPast
  <1>11. ASSUME NEW version, Wanted(b, semantic, version)
         PROVE  Wanted(a, semantic, version)
    <2>1. CASE \E i \in 1 .. Len(b.sending) :
                 /\ b.sending[i].type = "Search"
                 /\ b.sending[i].generation = b.generation
                 /\ b.sending[i].corpus_version = version
      BY <1>5, <1>6, <2>1 DEF Wanted
    <2>2. CASE \E i \in 1 .. Len(b.worker_tx) :
                 /\ b.worker_tx[i].type = "Search"
                 /\ b.worker_tx[i].generation = b.generation
                 /\ b.worker_tx[i].corpus_version = version
      BY <1>2, <1>5, <1>7, <2>2 DEF Wanted
    <2> QED BY <1>5, <1>11, <2>1, <2>2 DEF Wanted
  <1>12. WantedCorpusIsCurrent(b, semantic)
    <2>1. /\ \A i \in 1 .. Len(a.sending) :
               /\ a.sending[i].type = "UpdateCorpus"
               /\ Wanted(b, semantic, a.sending[i].corpus_version)
               => a.sending[i].layout = b.layout
          /\ \A i \in 1 .. Len(a.worker_tx) :
               /\ a.worker_tx[i].type = "UpdateCorpus"
               /\ Wanted(b, semantic, a.worker_tx[i].corpus_version)
               => a.worker_tx[i].layout = b.layout
      BY <1>5, <1>11 DEF Good, Safe, WantedCorpusIsCurrent
    <2> QED BY <1>2, <1>5, <1>6, <1>7, <1>11, <2>1
        DEF Good, Safe, WantedCorpusIsCurrent
  <1> QED BY <1>4, <1>8, <1>9, <1>10, <1>12 DEF Good, Safe, b, m

(* A dispatch gives up what it had to send to a worker that died.          *)
LEMMA ClearSendingGood ==
  ASSUME NEW a, Good(a)
  PROVE  Good([a EXCEPT !.sending = <<>>])
  <1> DEFINE b == [a EXCEPT !.sending = <<>>]
  <1>1. a \in App /\ <<>> \in Seq(SemanticCommand) BY DEF Good
  <1>2. b \in App BY <1>1, Zenon DEF App
  <1>3. /\ b.layout = a.layout /\ b.snapshot = a.snapshot
        /\ b.generation = a.generation /\ b.corpus_version = a.corpus_version
        /\ b.search_tx = a.search_tx /\ b.search_rx = a.search_rx
        /\ b.worker_tx = a.worker_tx /\ b.worker_rx = a.worker_rx
        /\ b.sent_scope = a.sent_scope /\ b.scope_version = a.scope_version
        /\ b.sending = <<>>
    BY <1>1 DEF App
  <1> HIDE DEF b
  <1>4. SendingEndsInSearch(b) BY <1>3 DEF Good, SendingEndsInSearch
  <1>5. DataIsLatest(b, lexical) /\ AnswersAreCurrent(b)
    BY <1>3 DEF Good, Safe, DataIsLatest, AnswersAreCurrent
  <1>6. NothingIsNewer(b, lexical, semantic)
    BY <1>3 DEF Good, Safe, NothingIsNewer, SearchIsPast, CorpusIsPast,
       RequestIsPast
  <1>7. \A version : Wanted(b, semantic, version) => Wanted(a, semantic, version)
    BY <1>3 DEF Wanted
  <1>8. WantedCorpusIsCurrent(b, semantic)
    BY <1>3, <1>7 DEF Good, Safe, WantedCorpusIsCurrent
  <1> QED BY <1>2, <1>4, <1>5, <1>6, <1>8 DEF Good, Safe, b

(* One send of a dispatch, to a live worker or a new one.                  *)
LEMMA SendNextInv ==
  ASSUME IndexInv, SendNext
  PROVE  IndexInv'
  <1>1. Good(app) /\ app \in App /\ TypeOK /\ app.sending # <<>>
    BY AppIsGood DEF Good, IndexInv, SendNext
  <1>2. CASE semantic.alive
    BY <1>1, <1>2, MoveSendingGood, BecomesGood DEF SendNext
  <1>3. CASE ~semantic.alive
    <2> DEFINE search == app.sending[Len(app.sending)]
               a == reset_semantic_worker([app EXCEPT !.sending = <<>>])
               b == send_semantic_state(a)
               c == send_semantic_search(b, search.prewarm)
    <2>1. search.prewarm \in BOOLEAN
      <3>1. app.sending \in Seq(SemanticCommand) BY <1>1 DEF App
      <3>2. search \in SemanticCommand BY <1>1, <3>1
      <3>3. search.type = "Search" BY <1>1 DEF IndexInv, SendingEndsInSearch
      <3>4. search \in SemanticSearch
        <4> HIDE DEF search
        <4> QED BY <3>2, <3>3 DEF SemanticCommand
      <3> HIDE DEF search
      <3> QED BY <3>4 DEF SemanticSearch
    <2>2. Good(a) BY <1>1, ClearSendingGood, ResetWorkerGood
    <2> HIDE DEF a
    <2>3. Dispatching(a) BY <2>2 DEF Good, Dispatching, SendingEndsInSearch
    <2>4. Dispatching(b) /\ b.scope_version >= 1
      BY <2>3, SendStateDispatching
    <2> HIDE DEF b, search
    <2>5. Good(c) BY <2>1, <2>4, SendSearchGood
    <2>6. Becomes(c) BY <1>3 DEF SendNext, c, b, a, search
    <2> HIDE DEF c
    <2> QED BY <2>5, <2>6, BecomesGood
  <1> QED BY <1>2, <1>3

(* A response leaves the search worker's channel.                          *)
LEMMA TakeResponseGood ==
  ASSUME NEW a, Good(a), a.search_rx # <<>>
  PROVE  /\ Good([a EXCEPT !.search_rx = Tail(@)])
         /\ Head(a.search_rx) \in SearchResponse
  <1> DEFINE b == [a EXCEPT !.search_rx = Tail(@)]
  <1>1. a \in App /\ a.search_rx \in Seq(SearchResponse) BY DEF Good, App
  <1>2. Head(a.search_rx) \in SearchResponse
        /\ Tail(a.search_rx) \in Seq(SearchResponse)
    BY <1>1
  <1>3. b \in App BY <1>1, <1>2, Zenon DEF App
  <1>4. /\ b.layout = a.layout /\ b.snapshot = a.snapshot
        /\ b.generation = a.generation /\ b.corpus_version = a.corpus_version
        /\ b.search_tx = a.search_tx /\ b.sending = a.sending
        /\ b.worker_tx = a.worker_tx /\ b.worker_rx = a.worker_rx
        /\ b.sent_scope = a.sent_scope /\ b.scope_version = a.scope_version
        /\ b.search_rx = Tail(a.search_rx)
    BY <1>1 DEF App
  <1> HIDE DEF b
  <1>5. \A i \in 1 .. Len(b.search_rx) :
          i + 1 \in 1 .. Len(a.search_rx) /\ b.search_rx[i] = a.search_rx[i + 1]
    BY <1>1, <1>4
  <1>6. SendingEndsInSearch(b) /\ DataIsLatest(b, lexical)
    BY <1>4 DEF Good, Safe, SendingEndsInSearch, DataIsLatest
  <1>7. NothingIsNewer(b, lexical, semantic)
    <2>1. \A i \in 1 .. Len(b.search_rx) :
            b.search_rx[i].generation <= b.generation
      BY <1>4, <1>5 DEF Good, Safe, NothingIsNewer
    <2> QED BY <1>4, <2>1 DEF Good, Safe, NothingIsNewer, SearchIsPast,
        CorpusIsPast, RequestIsPast
  <1>8. AnswersAreCurrent(b)
    BY <1>4, <1>5 DEF Good, Safe, AnswersAreCurrent
  <1>9. \A version : Wanted(b, semantic, version) <=> Wanted(a, semantic, version)
    BY <1>4 DEF Wanted
  <1>10. WantedCorpusIsCurrent(b, semantic)
    BY <1>4, <1>9 DEF Good, Safe, WantedCorpusIsCurrent
  <1> QED BY <1>2, <1>3, <1>6, <1>7, <1>8, <1>10 DEF Good, Safe, b

(* A message leaves the semantic worker's channel.                         *)
LEMMA TakeMessageGood ==
  ASSUME NEW a, Good(a), a.worker_rx # <<>>
  PROVE  /\ Good([a EXCEPT !.worker_rx = Tail(@)])
         /\ Head(a.worker_rx) \in SemanticMessage
  <1> DEFINE b == [a EXCEPT !.worker_rx = Tail(@)]
  <1>1. a \in App /\ a.worker_rx \in Seq(SemanticMessage) BY DEF Good, App
  <1>2. Head(a.worker_rx) \in SemanticMessage
        /\ Tail(a.worker_rx) \in Seq(SemanticMessage)
    BY <1>1
  <1>3. b \in App BY <1>1, <1>2, Zenon DEF App
  <1>4. /\ b.layout = a.layout /\ b.snapshot = a.snapshot
        /\ b.generation = a.generation /\ b.corpus_version = a.corpus_version
        /\ b.search_tx = a.search_tx /\ b.search_rx = a.search_rx
        /\ b.sending = a.sending /\ b.worker_tx = a.worker_tx
        /\ b.sent_scope = a.sent_scope /\ b.scope_version = a.scope_version
        /\ b.worker_rx = Tail(a.worker_rx)
    BY <1>1 DEF App
  <1> HIDE DEF b
  <1>5. \A i \in 1 .. Len(b.worker_rx) :
          i + 1 \in 1 .. Len(a.worker_rx) /\ b.worker_rx[i] = a.worker_rx[i + 1]
    BY <1>1, <1>4
  <1>6. SendingEndsInSearch(b) /\ DataIsLatest(b, lexical)
    BY <1>4 DEF Good, Safe, SendingEndsInSearch, DataIsLatest
  <1>7. NothingIsNewer(b, lexical, semantic)
    <2>1. \A i \in 1 .. Len(b.worker_rx) :
            b.worker_rx[i].generation <= b.generation
      BY <1>4, <1>5 DEF Good, Safe, NothingIsNewer
    <2> QED BY <1>4, <2>1 DEF Good, Safe, NothingIsNewer, SearchIsPast,
        CorpusIsPast, RequestIsPast
  <1>8. AnswersAreCurrent(b)
    BY <1>4, <1>5 DEF Good, Safe, AnswersAreCurrent
  <1>9. \A version : Wanted(b, semantic, version) <=> Wanted(a, semantic, version)
    BY <1>4 DEF Wanted
  <1>10. WantedCorpusIsCurrent(b, semantic)
    BY <1>4, <1>9 DEF Good, Safe, WantedCorpusIsCurrent
  <1> QED BY <1>2, <1>3, <1>6, <1>7, <1>8, <1>10 DEF Good, Safe, b

(* A lexical response is shown or dropped.                                 *)
LEMMA ReceiveLexicalInv ==
  ASSUME IndexInv, NEW hasRows \in BOOLEAN, receive_lexical(hasRows)
  PROVE  IndexInv'
  <1> DEFINE response == Head(app.search_rx)
             rest == [app EXCEPT !.search_rx = Tail(@)]
             isFinal == response.mode = "Lexical"
             by == IF isFinal THEN "lexical" ELSE "placeholder"
             b == [rest EXCEPT !.shown_query = app.dispatched,
                               !.settled = isFinal,
                               !.started = @ /\ ~isFinal]
             c == apply_filtered(b, response.query, by, response.layout)
  <1>1. Good(app) /\ app \in App /\ app.search_rx # <<>>
    BY AppIsGood DEF Good, receive_lexical
  <1>2. Good(rest) /\ response \in SearchResponse BY <1>1, TakeResponseGood
  <1>3. Becomes(c) \/ Becomes(rest) BY DEF receive_lexical
  <1> HIDE DEF rest, response
  <1>4. Good(b)
    <2> DEFINE final == isFinal
               started == rest.started /\ ~isFinal
    <2>1. rest \in App /\ app.dispatched \in Query \cup {None}
      BY <1>1, <1>2 DEF Good, App
    <2>2. final \in BOOLEAN /\ started \in BOOLEAN OBVIOUS
    <2>3. b = [rest EXCEPT !.shown_query = app.dispatched, !.settled = final,
                           !.started = started]
      BY Zenon
    <2> HIDE DEF final, started, b
    <2>4. b \in App BY <2>1, <2>2, <2>3, ZenonT(60) DEF App
    <2>5. SameMessages(rest, b) /\ b.generation = rest.generation
      BY <2>1, <2>3 DEF App, SameMessages
    <2> QED BY <1>2, <2>4, <2>5, QuietChange
  <1>5. Good(c)
    <2>1. response.query \in Query /\ response.layout \in Nat /\ by \in RowSources
      BY <1>2 DEF SearchResponse, RowSources
    <2> HIDE DEF b, by
    <2> QED BY <1>4, <2>1, ApplyFilteredGood
  <1> HIDE DEF c
  <1> QED BY <1>2, <1>3, <1>5, BecomesGood

(* The fields of a completion.                                             *)
LEMMA CompleteTyped ==
  ASSUME NEW m \in SemanticMessage, m.type = "Complete"
  PROVE  /\ m.query \in Query /\ m.layout \in Nat
         /\ m.failed \in BOOLEAN /\ m.filter \in BOOLEAN
  BY DEF SemanticMessage

(* An answer that is shown leaves the messages alone.                      *)
LEMMA ReceivesAnswerGood ==
  ASSUME NEW a, Good(a), NEW m \in SemanticMessage, m.type = "Complete"
  PROVE  Good(ReceivesAnswer(a, m))
  <1> DEFINE b == [a EXCEPT !.started = FALSE, !.pending = NoGeneration,
                            !.error = m.failed, !.shown_query = a.dispatched,
                            !.settled = TRUE]
             by == IF m.failed THEN "failed" ELSE "semantic"
             c == apply_filtered(b, m.query, by, m.layout)
             filter == c.filtered.filter \/ m.filter
             rows == [c.filtered EXCEPT !.filter = filter]
             d == [c EXCEPT !.filtered.filter = @ \/ m.filter]
  <1>1. /\ m.query \in Query /\ m.layout \in Nat
        /\ m.failed \in BOOLEAN /\ m.filter \in BOOLEAN
    BY CompleteTyped
  <1>2. /\ a \in App /\ NoGeneration \in Nat
        /\ a.dispatched \in Query \cup {None}
    BY DEF Good, App, NoGeneration
  <1>3. Good(b)
    <2>1. b \in App BY <1>1, <1>2, Zenon DEF App
    <2>2. SameMessages(a, b) /\ b.generation = a.generation
      BY <1>2 DEF App, SameMessages
    <2> QED BY <2>1, <2>2, QuietChange
  <1>4. by \in RowSources BY DEF RowSources
  <1> HIDE DEF b, by
  <1>5. Good(c) BY <1>1, <1>3, <1>4, ApplyFilteredGood
  <1> HIDE DEF c
  <1>6. c \in App /\ c.filtered \in Filtered BY <1>5 DEF Good, App
  <1>7. filter \in BOOLEAN OBVIOUS
  <1>8. d = [c EXCEPT !.filtered = rows] BY Zenon
  <1> HIDE DEF filter, d
  <1>9. rows \in Filtered BY <1>6, <1>7, Zenon DEF Filtered
  <1> HIDE DEF rows
  <1>10. d \in App BY <1>6, <1>8, <1>9, Zenon DEF App
  <1>11. SameMessages(c, d) /\ d.generation = c.generation
    BY <1>6, <1>8 DEF App, SameMessages
  <1>12. Good(d) BY <1>5, <1>10, <1>11, QuietChange
  <1> QED BY <1>12 DEF ReceivesAnswer, d, c, b, by

(* A prewarm's completion ends it.                                         *)
LEMMA ReceivesPrewarmedGood ==
  ASSUME NEW a, Good(a), NEW m \in SemanticMessage, m.type = "Complete", TypeOK
  PROVE  Good(ReceivesPrewarmed(a, m))
  <1> DEFINE b == [a EXCEPT !.prewarm = NoGeneration]
             c == [a EXCEPT !.prewarm = NoGeneration, !.pending = NoGeneration,
                            !.error = m.failed]
  <1>1. a \in App /\ NoGeneration \in Nat /\ m.failed \in BOOLEAN
    BY CompleteTyped DEF Good, NoGeneration
  <1>2. Good(b)
    <2>1. b \in App BY <1>1, Zenon DEF App
    <2>2. SameMessages(a, b) /\ b.generation = a.generation
      BY <1>1 DEF App, SameMessages
    <2> QED BY <2>1, <2>2, QuietChange
  <1>3. Good(c)
    <2>1. c \in App BY <1>1, Zenon DEF App
    <2>2. SameMessages(a, c) /\ c.generation = a.generation
      BY <1>1 DEF App, SameMessages
    <2> QED BY <2>1, <2>2, QuietChange
  <1>4. ReceivesPrewarmed(a, m) \in {b, c} BY DEF ReceivesPrewarmed
  <1> QED BY <1>2, <1>3, <1>4

(* A message of the semantic worker is applied or dropped.                 *)
LEMMA ReceiveSemanticInv ==
  ASSUME IndexInv, receive_semantic
  PROVE  IndexInv'
  <1> DEFINE m == Head(app.worker_rx)
             rest == [app EXCEPT !.worker_rx = Tail(@)]
  <1>1. Good(app) /\ app \in App /\ app.worker_rx # <<>>
    BY AppIsGood DEF Good, receive_semantic
  <1>2. Good(rest) /\ m \in SemanticMessage BY <1>1, TakeMessageGood
  <1>3. \/ Becomes(rest)
        \/ Becomes(ReceivesProgress(rest, m))
        \/ m.type = "Complete" /\ Becomes(ReceivesPrewarmed(rest, m))
        \/ m.type = "Complete" /\ Becomes(ReceivesAnswer(rest, m))
    BY DEF receive_semantic, AcceptsAnswer
  <1> HIDE DEF rest, m
  <1>4. Good(ReceivesProgress(rest, m))
    <2> DEFINE b == [rest EXCEPT !.prewarm = NoGeneration]
    <2>1. rest \in App /\ NoGeneration \in Nat
      BY <1>2 DEF Good, NoGeneration
    <2>2. b \in App BY <2>1, Zenon DEF App
    <2>3. SameMessages(rest, b) /\ b.generation = rest.generation
      BY <2>1 DEF App, SameMessages
    <2>4. Good(b) BY <1>2, <2>2, <2>3, QuietChange
    <2> QED BY <1>2, <2>4 DEF ReceivesProgress
  <1> QED BY <1>2, <1>3, <1>4, ReceivesPrewarmedGood, ReceivesAnswerGood,
          BecomesGood DEF IndexInv

-----------------------------------------------------------------------------
(* The search worker *)

(* A step that leaves the parts of IndexInv in place preserves it.         *)
LEMMA PartsMakeIndexInv ==
  ASSUME NEW b \in App, NEW lx \in LexicalWorker, NEW w \in SemanticWorker,
         NEW n \in Nat,
         SendingEndsInSearch(b), RunsWhatItAskedFor(w), Safe(b, lx, w),
         app' = b, lexical' = lx, semantic' = w, panics' = n
  PROVE  IndexInv'
  <1>1. TypeOK' BY DEF TypeOK
  <1>2. SendingEndsInSearch(app)' /\ RunsWhatItAskedFor(semantic)'
        /\ Safe(app, lexical, semantic)'
    BY DEF SendingEndsInSearch, RunsWhatItAskedFor, Safe, DataIsLatest,
           NothingIsNewer, AnswersAreCurrent, WantedCorpusIsCurrent, Wanted,
           SearchIsPast, CorpusIsPast, RequestIsPast
  <1> QED BY <1>1, <1>2 DEF IndexInv

(* The search worker takes a command.                                      *)
LEMMA LexicalTakeInv ==
  ASSUME IndexInv, LexicalTake
  PROVE  IndexInv'
  <1> DEFINE command == Head(app.search_tx)
             b == [app EXCEPT !.search_tx = Tail(@)]
             lx == IF command.type = "UpdateData"
                   THEN [lexical EXCEPT !.layout = command.layout]
                   ELSE [lexical EXCEPT !.request = command]
  <1>1. /\ app \in App /\ app.search_tx \in Seq(SearchCommand)
        /\ app.search_tx # <<>> /\ lexical \in LexicalWorker
        /\ semantic \in SemanticWorker /\ panics \in Nat
    BY DEF IndexInv, TypeOK, App, LexicalTake
  <1>2. /\ command \in SearchCommand /\ command = app.search_tx[1]
        /\ Tail(app.search_tx) \in Seq(SearchCommand)
        /\ 1 \in 1 .. Len(app.search_tx)
    BY <1>1
  <1>3. app' = b /\ lexical' = lx /\ semantic' = semantic /\ panics' = panics
    BY DEF LexicalTake
  <1> HIDE DEF command
  <1>4. b \in App BY <1>1, <1>2, Zenon DEF App
  <1>5. /\ b.layout = app.layout /\ b.snapshot = app.snapshot
        /\ b.generation = app.generation
        /\ b.corpus_version = app.corpus_version
        /\ b.search_rx = app.search_rx /\ b.sending = app.sending
        /\ b.worker_tx = app.worker_tx /\ b.worker_rx = app.worker_rx
        /\ b.sent_scope = app.sent_scope
        /\ b.scope_version = app.scope_version
        /\ b.search_tx = Tail(app.search_tx)
    BY <1>1 DEF App
  <1> HIDE DEF b
  <1>6. \A i \in 1 .. Len(b.search_tx) :
          i + 1 \in 1 .. Len(app.search_tx)
          /\ b.search_tx[i] = app.search_tx[i + 1]
    BY <1>1, <1>5
  <1>7. /\ lx \in LexicalWorker
        /\ IsData(command) => lx.layout = command.layout
                              /\ lx.request = lexical.request
        /\ ~IsData(command) => lx.layout = lexical.layout
                               /\ lx.request = command
    <2>1. CASE IsData(command)
      <3>1. command.layout \in Nat
        BY <1>2, <2>1 DEF IsData, SearchCommand, LexicalSearch
      <3> QED BY <1>1, <2>1, <3>1 DEF IsData, LexicalWorker
    <2>2. CASE ~IsData(command)
      <3>1. command \in LexicalSearch BY <1>2, <2>2 DEF IsData, SearchCommand
      <3> QED BY <1>1, <2>2, <3>1 DEF IsData, LexicalWorker
    <2> QED BY <2>1, <2>2
  <1> HIDE DEF lx
  <1>8. Safe(app, lexical, semantic) BY DEF IndexInv
  <1>9. DataIsLatest(b, lx)
    <2>1. ASSUME NEW i \in 1 .. Len(b.search_tx), IsData(b.search_tx[i]),
                 \A j \in (i + 1) .. Len(b.search_tx) : ~IsData(b.search_tx[j])
          PROVE  b.search_tx[i].layout = b.layout
      <3>1. i + 1 \in 1 .. Len(app.search_tx) /\ IsData(app.search_tx[i + 1])
        BY <1>6, <2>1
      <3>2. ASSUME NEW j \in (i + 2) .. Len(app.search_tx)
            PROVE  ~IsData(app.search_tx[j])
        <4>1. j - 1 \in (i + 1) .. Len(b.search_tx)
              /\ b.search_tx[j - 1] = app.search_tx[j]
          BY <1>1, <1>5, <1>6
        <4> QED BY <2>1, <4>1
      <3>3. app.search_tx[i + 1].layout = app.layout
        BY <1>8, <3>1, <3>2 DEF Safe, DataIsLatest
      <3> QED BY <1>5, <1>6, <3>3
    <2>2. ASSUME \A i \in 1 .. Len(b.search_tx) : ~IsData(b.search_tx[i])
          PROVE  lx.layout = b.layout
      <3>1. \A j \in 2 .. Len(app.search_tx) : ~IsData(app.search_tx[j])
        <4>1. \A j \in 2 .. Len(app.search_tx) :
                /\ j - 1 \in 1 .. Len(b.search_tx)
                /\ b.search_tx[j - 1] = app.search_tx[j]
          BY <1>1, <1>5, <1>6
        <4> QED BY <2>2, <4>1
      <3>2. CASE IsData(command)
        BY <1>2, <1>5, <1>7, <1>8, <3>1, <3>2 DEF Safe, DataIsLatest
      <3>3. CASE ~IsData(command)
        BY <1>2, <1>5, <1>7, <1>8, <3>1, <3>3 DEF Safe, DataIsLatest
      <3> QED BY <3>2, <3>3
    <2> QED BY <1>5, <1>8, <2>1, <2>2 DEF Safe, DataIsLatest
  <1>10. NothingIsNewer(b, lx, semantic)
    <2>1. /\ \A i \in 1 .. Len(b.search_tx) :
               ~IsData(b.search_tx[i])
                 => b.search_tx[i].generation <= b.generation
          /\ lx.request # None => lx.request.generation <= b.generation
      BY <1>2, <1>5, <1>6, <1>7, <1>8 DEF Safe, NothingIsNewer
    <2> QED BY <1>5, <1>8, <2>1 DEF Safe, NothingIsNewer, SearchIsPast,
        CorpusIsPast, RequestIsPast
  <1>11. AnswersAreCurrent(b) BY <1>5, <1>8 DEF Safe, AnswersAreCurrent
  <1>12. WantedCorpusIsCurrent(b, semantic)
    BY <1>5, <1>8 DEF Safe, WantedCorpusIsCurrent, Wanted
  <1>13. SendingEndsInSearch(b) /\ RunsWhatItAskedFor(semantic)
    BY <1>5 DEF IndexInv, SendingEndsInSearch
  <1> QED BY <1>1, <1>3, <1>4, <1>7, <1>9, <1>10, <1>11, <1>12, <1>13,
          PartsMakeIndexInv DEF Safe

(* The search worker answers: nothing is on its way to it, so it holds     *)
(* the list's layout.                                                      *)
LEMMA LexicalAnswerInv ==
  ASSUME IndexInv, LexicalAnswer
  PROVE  IndexInv'
  <1> DEFINE request == lexical.request
             m == [query |-> request.query, generation |-> request.generation,
                   mode |-> request.mode, layout |-> lexical.layout]
             b == [app EXCEPT !.search_rx = Append(@, m)]
             lx == [lexical EXCEPT !.request = None]
  <1>1. /\ app \in App /\ app.search_rx \in Seq(SearchResponse)
        /\ lexical \in LexicalWorker
        /\ semantic \in SemanticWorker /\ panics \in Nat
        /\ app.search_tx = <<>> /\ request # None
    BY DEF IndexInv, TypeOK, App, LexicalAnswer
  <1>2. Safe(app, lexical, semantic) BY DEF IndexInv
  <1>3. m \in SearchResponse
    <2>1. request \in LexicalSearch /\ lexical.layout \in Nat
      BY <1>1, Zenon DEF LexicalWorker
    <2> HIDE DEF request
    <2> QED BY <2>1 DEF LexicalSearch, SearchResponse
  <1>4. m.generation <= app.generation /\ m.layout = app.layout
    BY <1>1, <1>2 DEF Safe, NothingIsNewer, DataIsLatest
  <1>5. app' = b /\ lexical' = lx /\ semantic' = semantic /\ panics' = panics
    BY DEF LexicalAnswer
  <1> HIDE DEF m
  <1>6. Append(app.search_rx, m) \in Seq(SearchResponse) BY <1>1, <1>3
  <1>7. b \in App BY <1>1, <1>6, Zenon DEF App
  <1>8. /\ b.layout = app.layout /\ b.snapshot = app.snapshot
        /\ b.generation = app.generation
        /\ b.corpus_version = app.corpus_version
        /\ b.search_tx = app.search_tx /\ b.sending = app.sending
        /\ b.worker_tx = app.worker_tx /\ b.worker_rx = app.worker_rx
        /\ b.sent_scope = app.sent_scope
        /\ b.scope_version = app.scope_version
        /\ b.search_rx = Append(app.search_rx, m)
    BY <1>1 DEF App
  <1>9. lx \in LexicalWorker /\ lx.request = None /\ lx.layout = lexical.layout
    BY <1>1 DEF LexicalWorker
  <1> HIDE DEF b, lx
  <1>10. \A i \in 1 .. Len(b.search_rx) :
           \/ i \in 1 .. Len(app.search_rx)
              /\ b.search_rx[i] = app.search_rx[i]
           \/ b.search_rx[i] = m
    BY <1>1, <1>3, <1>8
  <1>11. DataIsLatest(b, lx) BY <1>2, <1>8, <1>9 DEF Safe, DataIsLatest
  <1>12. NothingIsNewer(b, lx, semantic)
    <2>1. \A i \in 1 .. Len(b.search_rx) :
            b.search_rx[i].generation <= b.generation
      BY <1>2, <1>4, <1>8, <1>10 DEF Safe, NothingIsNewer
    <2> QED BY <1>2, <1>8, <1>9, <2>1 DEF Safe, NothingIsNewer, SearchIsPast,
        CorpusIsPast, RequestIsPast
  <1>13. AnswersAreCurrent(b)
    BY <1>2, <1>4, <1>8, <1>10 DEF Safe, AnswersAreCurrent
  <1>14. WantedCorpusIsCurrent(b, semantic)
    BY <1>2, <1>8 DEF Safe, WantedCorpusIsCurrent, Wanted
  <1>15. SendingEndsInSearch(b) /\ RunsWhatItAskedFor(semantic)
    BY <1>8 DEF IndexInv, SendingEndsInSearch
  <1> QED BY <1>1, <1>5, <1>7, <1>9, <1>11, <1>12, <1>13, <1>14, <1>15,
          PartsMakeIndexInv DEF Safe

-----------------------------------------------------------------------------
(* The semantic worker *)

(* What a command leaves of the worker's request, corpus and scope.        *)
Follows(w, v, c) ==
  /\ \/ v.corpus_version = w.corpus_version /\ v.layout = w.layout
     \/ /\ c.type = "UpdateCorpus"
        /\ v.corpus_version = c.corpus_version /\ v.layout = c.layout
  /\ \/ v.request = w.request
     \/ v.request = w.pending_search
     \/ c.type = "Search" /\ v.request = c
  /\ v.pending_search = w.pending_search \/ v.pending_search = None
  /\ (w.scope_version >= 1 => w.scope # None)
       => (v.scope_version >= 1 => v.scope # None)

(* A parked search that returns is the one that was parked.                *)
LEMMA TakeReadyPending ==
  ASSUME NEW w \in SemanticWorker
  PROVE  LET v == take_ready_pending(w) IN
         /\ v \in SemanticWorker
         /\ v.corpus_version = w.corpus_version /\ v.layout = w.layout
         /\ v.scope_version = w.scope_version /\ v.scope = w.scope
         /\ v.request = w.request \/ v.request = w.pending_search
         /\ v.pending_search = w.pending_search \/ v.pending_search = None
  <1> DEFINE v == [w EXCEPT !.request = w.pending_search,
                            !.pending_search = None]
  <1>1. w.pending_search \in SemanticSearch \cup {None}
        /\ None \in SemanticSearch \cup {None}
    BY Zenon DEF SemanticWorker
  <1>2. v \in SemanticWorker BY <1>1, Zenon DEF SemanticWorker
  <1>3. /\ v.corpus_version = w.corpus_version /\ v.layout = w.layout
        /\ v.scope_version = w.scope_version /\ v.scope = w.scope
        /\ v.request = w.pending_search /\ v.pending_search = None
    BY DEF SemanticWorker
  <1>4. take_ready_pending(w) = w \/ take_ready_pending(w) = v
    BY DEF take_ready_pending
  <1> HIDE DEF v
  <1> QED BY <1>2, <1>3, <1>4

(* A command replaces the corpus, the scope or the search, and nothing     *)
(* else.                                                                   *)
LEMMA ApplyCommand ==
  ASSUME NEW w \in SemanticWorker, NEW c \in SemanticCommand
  PROVE  apply_command(w, c) \in SemanticWorker
         /\ Follows(w, apply_command(w, c), c)
  <1>1. CASE c.type = "UpdateCorpus"
    <2> DEFINE u == [w EXCEPT !.corpus_version = c.corpus_version,
                              !.layout = c.layout]
               x == IF AppliesUpdate(w, c) THEN u ELSE w
    <2>1. c.corpus_version \in Nat /\ c.layout \in Nat
      BY <1>1 DEF SemanticCommand, SemanticSearch
    <2>2. u \in SemanticWorker BY <2>1, Zenon DEF SemanticWorker
    <2>3. /\ u.corpus_version = c.corpus_version /\ u.layout = c.layout
          /\ u.scope_version = w.scope_version /\ u.scope = w.scope
          /\ u.request = w.request /\ u.pending_search = w.pending_search
      BY DEF SemanticWorker
    <2> HIDE DEF u
    <2>4. x \in SemanticWorker BY <2>2
    <2>5. /\ \/ x.corpus_version = w.corpus_version /\ x.layout = w.layout
             \/ x.corpus_version = c.corpus_version /\ x.layout = c.layout
          /\ x.scope_version = w.scope_version /\ x.scope = w.scope
          /\ x.request = w.request /\ x.pending_search = w.pending_search
      BY <2>3
    <2>6. apply_command(w, c) = take_ready_pending(x)
      BY <1>1 DEF apply_command, u
    <2> HIDE DEF x
    <2> QED BY <1>1, <2>4, <2>5, <2>6, TakeReadyPending DEF Follows
  <1>2. CASE c.type = "UpdateScope"
    <2> DEFINE u == [w EXCEPT !.scope_version = c.scope_version,
                              !.scope_corpus_version = c.scope.corpus_version,
                              !.scope = c.scope]
               x == IF AppliesUpdate(w, c) THEN u ELSE w
    <2>1. c.scope_version \in Nat /\ c.scope \in Scope
      BY <1>2 DEF SemanticCommand, SemanticSearch
    <2>2. c.scope.corpus_version \in Nat /\ c.scope \in Scope \cup {None}
          /\ c.scope # None
      BY <2>1, NoneAssumption DEF Scope
    <2>3. u \in SemanticWorker BY <2>1, <2>2, Zenon DEF SemanticWorker
    <2>4. /\ u.corpus_version = w.corpus_version /\ u.layout = w.layout
          /\ u.scope = c.scope
          /\ u.request = w.request /\ u.pending_search = w.pending_search
      BY DEF SemanticWorker
    <2> HIDE DEF u
    <2>5. x \in SemanticWorker BY <2>3
    <2>6. /\ x.corpus_version = w.corpus_version /\ x.layout = w.layout
          /\ x.request = w.request /\ x.pending_search = w.pending_search
          /\ x = w \/ x.scope # None
      BY <2>2, <2>4
    <2>7. apply_command(w, c) = take_ready_pending(x)
      BY <1>2 DEF apply_command, u
    <2> HIDE DEF x
    <2> QED BY <2>5, <2>6, <2>7, TakeReadyPending DEF Follows
  <1>3. CASE c.type = "Search"
    <2> DEFINE x == [w EXCEPT !.request = c]
    <2>1. c \in SemanticSearch \cup {None} BY <1>3 DEF SemanticCommand
    <2>2. x \in SemanticWorker BY <2>1, Zenon DEF SemanticWorker
    <2>3. /\ x.corpus_version = w.corpus_version /\ x.layout = w.layout
          /\ x.scope_version = w.scope_version /\ x.scope = w.scope
          /\ x.request = c /\ x.pending_search = w.pending_search
      BY DEF SemanticWorker
    <2>4. apply_command(w, c) = x BY <1>3 DEF apply_command
    <2> HIDE DEF x
    <2> QED BY <1>3, <2>2, <2>3, <2>4 DEF Follows
  <1> QED BY <1>1, <1>2, <1>3 DEF SemanticCommand, SemanticSearch

(* The numbers of App that the worker's steps leave alone, which are all   *)
(* that the worker's invariants read but for its channels.                 *)
SameButChannels(a, b) ==
  /\ b.layout = a.layout /\ b.snapshot = a.snapshot
  /\ b.generation = a.generation /\ b.corpus_version = a.corpus_version
  /\ b.search_tx = a.search_tx /\ b.search_rx = a.search_rx
  /\ b.sending = a.sending
  /\ b.sent_scope = a.sent_scope /\ b.scope_version = a.scope_version

(* The semantic worker takes a command.                                    *)
LEMMA SemanticTakeInv ==
  ASSUME IndexInv, SemanticTake
  PROVE  IndexInv'
  <1> DEFINE command == Head(app.worker_tx)
             cancelled == \/ app.cancelled \/ command.type = "Search"
                          \/ AppliesUpdate(semantic, command)
             b == [app EXCEPT !.worker_tx = Tail(@),
                              !.cancelled = @ \/ command.type = "Search"
                                \/ AppliesUpdate(semantic, command)]
             v == apply_command(semantic, command)
             w == [v EXCEPT !.pc = "draining"]
  <1>1. /\ app \in App /\ app.worker_tx \in Seq(SemanticCommand)
        /\ app.worker_tx # <<>> /\ lexical \in LexicalWorker
        /\ semantic \in SemanticWorker /\ panics \in Nat
    BY DEF IndexInv, TypeOK, App, SemanticTake
  <1>2. /\ command \in SemanticCommand /\ command = app.worker_tx[1]
        /\ Tail(app.worker_tx) \in Seq(SemanticCommand)
        /\ 1 \in 1 .. Len(app.worker_tx)
    BY <1>1
  <1>3. app' = b /\ lexical' = lexical /\ semantic' = w /\ panics' = panics
    BY DEF SemanticTake
  <1>4. Safe(app, lexical, semantic) BY DEF IndexInv
  <1> HIDE DEF command
  <1>5. b \in App
    <2>1. cancelled \in BOOLEAN
      BY <1>1 DEF App
    <2>2. b = [app EXCEPT !.worker_tx = Tail(@), !.cancelled = cancelled]
      BY Zenon
    <2> HIDE DEF b, cancelled
    <2> QED BY <1>1, <1>2, <2>1, <2>2, Zenon DEF App
  <1>6. SameButChannels(app, b) /\ b.worker_tx = Tail(app.worker_tx)
        /\ b.worker_rx = app.worker_rx
    BY <1>1 DEF App, SameButChannels
  <1> HIDE DEF b
  <1>7. v \in SemanticWorker /\ Follows(semantic, v, command)
    BY <1>1, <1>2, ApplyCommand
  <1> HIDE DEF v
  <1>8. /\ w \in SemanticWorker /\ w.pc = "draining"
        /\ w.corpus_version = v.corpus_version /\ w.layout = v.layout
        /\ w.scope_version = v.scope_version /\ w.scope = v.scope
        /\ w.request = v.request /\ w.pending_search = v.pending_search
    BY <1>7 DEF SemanticWorker
  <1> HIDE DEF w
  <1>9. Follows(semantic, w, command) BY <1>7, <1>8 DEF Follows
  <1>10. \A i \in 1 .. Len(b.worker_tx) :
           i + 1 \in 1 .. Len(app.worker_tx)
           /\ b.worker_tx[i] = app.worker_tx[i + 1]
    BY <1>1, <1>6
  <1>11. SendingEndsInSearch(b) /\ RunsWhatItAskedFor(w)
    BY <1>6, <1>8, <1>9 DEF IndexInv, SendingEndsInSearch, RunsWhatItAskedFor,
       SameButChannels, Follows
  <1>12. DataIsLatest(b, lexical) /\ AnswersAreCurrent(b)
    BY <1>4, <1>6 DEF Safe, DataIsLatest, AnswersAreCurrent, SameButChannels
  <1>13. NothingIsNewer(b, lexical, w)
    <2>1. SearchIsPast(app, command) /\ CorpusIsPast(app, command)
      BY <1>2, <1>4 DEF Safe, NothingIsNewer
    <2>2. w.corpus_version <= b.corpus_version
      BY <1>4, <1>6, <1>9, <2>1 DEF Safe, NothingIsNewer, Follows,
         CorpusIsPast, SameButChannels
    <2>3. RequestIsPast(b, w.request) /\ RequestIsPast(b, w.pending_search)
      BY <1>4, <1>6, <1>9, <2>1 DEF Safe, NothingIsNewer, Follows,
         SearchIsPast, RequestIsPast, SameButChannels
    <2>4. \A i \in 1 .. Len(b.worker_tx) :
            SearchIsPast(b, b.worker_tx[i]) /\ CorpusIsPast(b, b.worker_tx[i])
      BY <1>4, <1>6, <1>10 DEF Safe, NothingIsNewer, SearchIsPast,
         CorpusIsPast, SameButChannels
    <2> QED BY <1>4, <1>6, <2>2, <2>3, <2>4 DEF Safe, NothingIsNewer,
        SearchIsPast, CorpusIsPast, SameButChannels
  <1>14. ASSUME NEW version, Wanted(b, w, version)
         PROVE  Wanted(app, semantic, version)
    <2>1. CASE \E i \in 1 .. Len(b.worker_tx) :
                 /\ b.worker_tx[i].type = "Search"
                 /\ b.worker_tx[i].generation = b.generation
                 /\ b.worker_tx[i].corpus_version = version
      BY <1>6, <1>10, <2>1 DEF Wanted, SameButChannels
    <2>2. CASE w.request # None /\ w.request.generation = b.generation
               /\ w.request.corpus_version = version
      BY <1>2, <1>6, <1>9, <2>2 DEF Wanted, SameButChannels, Follows
    <2>3. CASE /\ w.pending_search # None
               /\ w.pending_search.generation = b.generation
               /\ w.pending_search.corpus_version = version
      BY <1>6, <1>9, <2>3 DEF Wanted, SameButChannels, Follows
    <2> QED BY <1>6, <1>14, <2>1, <2>2, <2>3 DEF Wanted, SameButChannels
  <1>15. WantedCorpusIsCurrent(b, w)
    <2>1. Wanted(b, w, w.corpus_version) => w.layout = b.layout
      BY <1>2, <1>4, <1>6, <1>9, <1>14
         DEF Safe, WantedCorpusIsCurrent, SameButChannels, Follows
    <2> QED BY <1>4, <1>6, <1>10, <1>14, <2>1
        DEF Safe, WantedCorpusIsCurrent, SameButChannels
  <1> QED BY <1>1, <1>3, <1>5, <1>8, <1>11, <1>12, <1>13, <1>15,
          PartsMakeIndexInv DEF Safe

(* A step of the worker that takes no command: it keeps its corpus, and    *)
(* has no search it did not have.                                          *)
KeepsCorpus(w, v) ==
  /\ v.corpus_version = w.corpus_version /\ v.layout = w.layout
  /\ v.scope_version = w.scope_version /\ v.scope = w.scope
  /\ v.request = w.request \/ v.request = None
  /\ \/ v.pending_search = w.pending_search \/ v.pending_search = w.request
     \/ v.pending_search = None

(* Then what the worker holds stays right.                                 *)
LEMMA KeepsCorpusSafe ==
  ASSUME NEW a, NEW lx, NEW w, NEW v, Safe(a, lx, w), KeepsCorpus(w, v)
  PROVE  Safe(a, lx, v)
  <1>1. NothingIsNewer(a, lx, v)
    BY DEF Safe, NothingIsNewer, RequestIsPast, KeepsCorpus
  <1>2. \A version : Wanted(a, v, version) => Wanted(a, w, version)
    BY DEF Wanted, KeepsCorpus
  <1>3. WantedCorpusIsCurrent(a, v)
    BY <1>2 DEF Safe, WantedCorpusIsCurrent, KeepsCorpus
  <1> QED BY <1>1, <1>3 DEF Safe

(* The semantic worker parks, drops or chooses its search.                 *)
LEMMA SemanticDecideInv ==
  ASSUME IndexInv, SemanticDecide
  PROVE  IndexInv'
  <1> DEFINE request == semantic.request
             idle == [semantic EXCEPT !.pc = "idle", !.request = None]
             parked == [idle EXCEPT !.pending_search = request]
             chosen == [semantic EXCEPT !.pc = "chosen"]
  <1>1. /\ app \in App /\ lexical \in LexicalWorker
        /\ semantic \in SemanticWorker /\ panics \in Nat
        /\ SendingEndsInSearch(app) /\ RunsWhatItAskedFor(semantic)
        /\ Safe(app, lexical, semantic)
    BY DEF IndexInv, TypeOK
  <1>2. /\ app' = app /\ lexical' = lexical /\ panics' = panics
        /\ \/ semantic' = idle \/ semantic' = parked
           \/ /\ semantic' = chosen /\ request # None
              /\ version_state_for(semantic, request) = "Current"
    <2>1. CASE request = None BY <2>1 DEF SemanticDecide
    <2>2. CASE request # None
      <3>1. version_state_for(semantic, request) \in {"Future", "Stale", "Current"}
        BY DEF version_state_for
      <3> QED BY <2>2, <3>1 DEF SemanticDecide
    <2> QED BY <2>1, <2>2
  <1>3. /\ request \in SemanticSearch \cup {None}
        /\ None \in SemanticSearch \cup {None}
    BY <1>1, Zenon DEF SemanticWorker
  <1>4. /\ idle \in SemanticWorker /\ KeepsCorpus(semantic, idle)
        /\ idle.pc = "idle"
    BY <1>1 DEF SemanticWorker, KeepsCorpus
  <1>5. parked \in SemanticWorker /\ KeepsCorpus(semantic, parked)
        /\ parked.pc = "idle"
    BY <1>1, <1>3 DEF SemanticWorker, KeepsCorpus
  <1>6. /\ chosen \in SemanticWorker /\ KeepsCorpus(semantic, chosen)
        /\ chosen.request = request
    BY <1>1 DEF SemanticWorker, KeepsCorpus
  <1>7. version_state_for(semantic, request) = "Current" =>
          /\ semantic.corpus_version = request.corpus_version
          /\ semantic.scope_version = request.scope_version
    BY DEF version_state_for
  <1> HIDE DEF idle, parked, chosen
  <1>8. /\ semantic' \in SemanticWorker /\ KeepsCorpus(semantic, semantic')
        /\ RunsWhatItAskedFor(semantic')
    BY <1>1, <1>2, <1>4, <1>5, <1>6, <1>7 DEF RunsWhatItAskedFor, KeepsCorpus
  <1>9. Safe(app, lexical, semantic') BY <1>1, <1>8, KeepsCorpusSafe
  <1> QED BY <1>1, <1>2, <1>8, <1>9, PartsMakeIndexInv

(* The chosen search starts.                                               *)
LEMMA SemanticStartInv ==
  ASSUME IndexInv, SemanticStart
  PROVE  IndexInv'
  <1> DEFINE b == [app EXCEPT !.cancelled = FALSE]
             w == [semantic EXCEPT !.pc = "running", !.progressed = FALSE]
  <1>1. /\ app \in App /\ lexical \in LexicalWorker
        /\ semantic \in SemanticWorker /\ panics \in Nat
        /\ Good(app) /\ RunsWhatItAskedFor(semantic)
    BY AppIsGood DEF IndexInv, TypeOK
  <1>2. /\ app' = b /\ lexical' = lexical /\ semantic' = w /\ panics' = panics
        /\ semantic.alive /\ semantic.pc = "chosen"
    BY DEF SemanticStart
  <1>3. Good(b)
    <2>1. b \in App BY <1>1, Zenon DEF App
    <2>2. SameMessages(app, b) /\ b.generation = app.generation
      BY <1>1 DEF App, SameMessages
    <2> QED BY <1>1, <2>1, <2>2, QuietChange
  <1> HIDE DEF b
  <1>4. /\ w \in SemanticWorker /\ KeepsCorpus(semantic, w)
        /\ w.request = semantic.request
    BY <1>1 DEF SemanticWorker, KeepsCorpus
  <1> HIDE DEF w
  <1>5. RunsWhatItAskedFor(w)
    BY <1>1, <1>2, <1>4 DEF RunsWhatItAskedFor, KeepsCorpus
  <1>6. Safe(b, lexical, w) BY <1>3, <1>4, KeepsCorpusSafe DEF Good
  <1> QED BY <1>1, <1>2, <1>3, <1>4, <1>5, <1>6, PartsMakeIndexInv DEF Good

(* A message of the worker that runs the search it asked for: if it would  *)
(* be shown, its layout is the list's.                                     *)
LEMMA SendMessageSafe ==
  ASSUME NEW a \in App, Safe(a, lexical, semantic), NEW m \in SemanticMessage,
         m.generation <= a.generation,
         m.type = "Complete" /\ m.generation = a.generation
           => m.layout = a.layout,
         SendingEndsInSearch(a)
  PROVE  LET b == [a EXCEPT !.worker_rx = Append(@, m)] IN
         b \in App /\ SendingEndsInSearch(b) /\ Safe(b, lexical, semantic)
  <1> DEFINE b == [a EXCEPT !.worker_rx = Append(@, m)]
  <1>1. a.worker_rx \in Seq(SemanticMessage) BY DEF App
  <1>2. Append(a.worker_rx, m) \in Seq(SemanticMessage) BY <1>1
  <1>3. b \in App BY <1>2, Zenon DEF App
  <1>4. SameButChannels(a, b) /\ b.worker_tx = a.worker_tx
        /\ b.worker_rx = Append(a.worker_rx, m)
    BY DEF App, SameButChannels
  <1> HIDE DEF b
  <1>5. \A i \in 1 .. Len(b.worker_rx) :
          \/ i \in 1 .. Len(a.worker_rx) /\ b.worker_rx[i] = a.worker_rx[i]
          \/ b.worker_rx[i] = m
    BY <1>1, <1>4
  <1>6. SendingEndsInSearch(b) /\ DataIsLatest(b, lexical)
    BY <1>4 DEF Safe, SendingEndsInSearch, DataIsLatest, SameButChannels
  <1>7. NothingIsNewer(b, lexical, semantic)
    <2>1. \A i \in 1 .. Len(b.worker_rx) :
            b.worker_rx[i].generation <= b.generation
      BY <1>4, <1>5 DEF Safe, NothingIsNewer, SameButChannels
    <2> QED BY <1>4, <2>1 DEF Safe, NothingIsNewer, SearchIsPast,
        CorpusIsPast, RequestIsPast, SameButChannels
  <1>8. AnswersAreCurrent(b)
    BY <1>4, <1>5 DEF Safe, AnswersAreCurrent, SameButChannels
  <1>9. WantedCorpusIsCurrent(b, semantic)
    BY <1>4 DEF Safe, WantedCorpusIsCurrent, Wanted, SameButChannels
  <1> QED BY <1>3, <1>6, <1>7, <1>8, <1>9 DEF Safe, b

(* The search that runs, as the worker holds it.                           *)
LEMMA RunningSearch ==
  ASSUME IndexInv, semantic.alive, semantic.pc = "running"
  PROVE  /\ semantic.request \in SemanticSearch
         /\ semantic.request.generation <= app.generation
         /\ semantic.scope \in Scope
         /\ semantic.request.generation = app.generation
              => semantic.layout = app.layout
  <1>1. /\ semantic.request # None
        /\ semantic.corpus_version = semantic.request.corpus_version
        /\ semantic.scope_version = semantic.request.scope_version
        /\ semantic.scope_version >= 1 => semantic.scope # None
    BY DEF IndexInv, RunsWhatItAskedFor
  <1>2. /\ semantic.request \in SemanticSearch \cup {None}
        /\ semantic.scope \in Scope \cup {None}
    BY Zenon DEF IndexInv, TypeOK, SemanticWorker
  <1>3. /\ semantic.request.generation <= app.generation
        /\ semantic.request.scope_version >= 1
    BY <1>1 DEF IndexInv, Safe, NothingIsNewer, RequestIsPast
  <1>4. semantic.request.generation = app.generation
          => Wanted(app, semantic, semantic.corpus_version)
    BY <1>1 DEF Wanted
  <1> QED BY <1>1, <1>2, <1>3, <1>4 DEF IndexInv, Safe, WantedCorpusIsCurrent

(* The search that runs reports progress.                                  *)
LEMMA SemanticProgressInv ==
  ASSUME IndexInv, SemanticProgress
  PROVE  IndexInv'
  <1> DEFINE m == [type |-> "Progress", generation |-> semantic.request.generation]
             b == [app EXCEPT !.worker_rx = Append(@, m)]
             w == [semantic EXCEPT !.progressed = TRUE]
  <1>1. /\ app \in App /\ lexical \in LexicalWorker
        /\ semantic \in SemanticWorker /\ panics \in Nat
        /\ SendingEndsInSearch(app) /\ RunsWhatItAskedFor(semantic)
        /\ Safe(app, lexical, semantic)
    BY DEF IndexInv, TypeOK
  <1>2. /\ app' = b /\ lexical' = lexical /\ semantic' = w /\ panics' = panics
        /\ semantic.alive /\ semantic.pc = "running"
    BY DEF SemanticProgress
  <1>3. m \in SemanticMessage /\ m.generation <= app.generation
        /\ m.type # "Complete"
    <2>1. semantic.request.generation \in Nat
      BY <1>2, RunningSearch DEF SemanticSearch
    <2> QED BY <1>2, <2>1, RunningSearch DEF SemanticMessage
  <1> HIDE DEF m
  <1>4. b \in App /\ SendingEndsInSearch(b) /\ Safe(b, lexical, semantic)
    BY <1>1, <1>3, SendMessageSafe
  <1> HIDE DEF b
  <1>5. /\ w \in SemanticWorker /\ KeepsCorpus(semantic, w)
        /\ w.request = semantic.request /\ w.alive = semantic.alive
        /\ w.pc = semantic.pc
    BY <1>1 DEF SemanticWorker, KeepsCorpus
  <1> HIDE DEF w
  <1>6. RunsWhatItAskedFor(w) BY <1>1, <1>5 DEF RunsWhatItAskedFor, KeepsCorpus
  <1>7. Safe(b, lexical, w) BY <1>4, <1>5, KeepsCorpusSafe
  <1> QED BY <1>1, <1>2, <1>4, <1>5, <1>6, <1>7, PartsMakeIndexInv

(* The search that runs ends, well or not.                                 *)
LEMMA SemanticCompleteInv ==
  ASSUME IndexInv, NEW failed \in BOOLEAN, SemanticComplete(failed)
  PROVE  IndexInv'
  <1> DEFINE request == semantic.request
             m == [type |-> "Complete", query |-> request.query,
                   generation |-> request.generation,
                   prewarm |-> request.prewarm, failed |-> failed,
                   layout |-> semantic.layout,
                   filter |-> semantic.scope.filter]
             b == [app EXCEPT !.worker_rx = Append(@, m)]
             w == [semantic EXCEPT !.pc = "idle", !.request = None]
  <1>1. /\ app \in App /\ lexical \in LexicalWorker
        /\ semantic \in SemanticWorker /\ panics \in Nat
        /\ SendingEndsInSearch(app) /\ RunsWhatItAskedFor(semantic)
        /\ Safe(app, lexical, semantic)
    BY DEF IndexInv, TypeOK
  <1>2. /\ app' = b /\ lexical' = lexical /\ semantic' = w /\ panics' = panics
        /\ semantic.alive /\ semantic.pc = "running"
    BY DEF SemanticComplete
  <1>3. /\ m \in SemanticMessage /\ m.generation <= app.generation
        /\ m.generation = app.generation => m.layout = app.layout
    <2>1. /\ request \in SemanticSearch /\ semantic.scope \in Scope
          /\ request.generation <= app.generation
          /\ request.generation = app.generation
               => semantic.layout = app.layout
      BY <1>2, RunningSearch
    <2>2. /\ request.query \in Query /\ request.generation \in Nat
          /\ request.prewarm \in BOOLEAN
      BY <2>1 DEF SemanticSearch
    <2>3. semantic.scope.filter \in BOOLEAN BY <2>1 DEF Scope
    <2>4. semantic.layout \in Nat BY <1>1 DEF SemanticWorker
    <2>5. m \in SemanticMessage
      BY <2>2, <2>3, <2>4, Zenon DEF SemanticMessage
    <2> QED BY <2>1, <2>5
  <1> HIDE DEF m
  <1>4. b \in App /\ SendingEndsInSearch(b) /\ Safe(b, lexical, semantic)
    BY <1>1, <1>3, SendMessageSafe
  <1> HIDE DEF b
  <1>5. /\ w \in SemanticWorker /\ KeepsCorpus(semantic, w) /\ w.pc = "idle"
    BY <1>1 DEF SemanticWorker, KeepsCorpus
  <1> HIDE DEF w
  <1>6. RunsWhatItAskedFor(w) BY <1>1, <1>5 DEF RunsWhatItAskedFor, KeepsCorpus
  <1>7. Safe(b, lexical, w) BY <1>4, <1>5, KeepsCorpusSafe
  <1> QED BY <1>1, <1>2, <1>4, <1>5, <1>6, <1>7, PartsMakeIndexInv DEF m

(* The worker dies, and its corpus with it.                                *)
LEMMA SemanticPanicInv ==
  ASSUME IndexInv, SemanticPanic
  PROVE  IndexInv'
  <1> DEFINE w == [semantic EXCEPT !.alive = FALSE, !.request = None]
  <1>1. /\ app \in App /\ lexical \in LexicalWorker
        /\ semantic \in SemanticWorker /\ panics \in Nat
        /\ SendingEndsInSearch(app) /\ RunsWhatItAskedFor(semantic)
        /\ Safe(app, lexical, semantic)
    BY DEF IndexInv, TypeOK
  <1>2. /\ app' = app /\ lexical' = lexical /\ semantic' = w
        /\ panics' = panics + 1
    BY DEF SemanticPanic
  <1>3. /\ w \in SemanticWorker /\ KeepsCorpus(semantic, w) /\ ~w.alive
    BY <1>1 DEF SemanticWorker, KeepsCorpus
  <1> HIDE DEF w
  <1>4. RunsWhatItAskedFor(w) BY <1>1, <1>3 DEF RunsWhatItAskedFor, KeepsCorpus
  <1>5. Safe(app, lexical, w) BY <1>1, <1>3, KeepsCorpusSafe
  <1>6. panics + 1 \in Nat BY <1>1
  <1> QED BY <1>1, <1>2, <1>3, <1>4, <1>5, <1>6, PartsMakeIndexInv

-----------------------------------------------------------------------------
(* The inductive invariant *)

(* Before anything is sent, nothing is stale.                              *)
LEMMA InitIsSafe == Init => IndexInv
  <1> SUFFICES ASSUME Init PROVE IndexInv
    OBVIOUS
  <1>1. PICK mode \in Mode, filter \in BOOLEAN : app = InitialApp(mode, filter)
    BY DEF Init
  <1>2. lexical = [layout |-> 0, request |-> None]
        /\ semantic = NewSemanticWorker /\ panics = 0
    BY DEF Init
  <1>3. app \in App
    <2> DEFINE rows == [query |-> Empty, by |-> "list", layout |-> 0,
                        filter |-> filter]
    <2>1. /\ Empty \in Query /\ 0 \in Nat /\ 1 \in Nat /\ NoGeneration \in Nat
          /\ None \in Query \cup {None} /\ None \in Scope \cup {None}
      BY DEF Query, NoGeneration
    <2>2. rows \in Filtered BY <2>1, Zenon DEF Filtered
    <2>3. /\ <<>> \in Seq(SearchCommand) /\ <<>> \in Seq(SearchResponse)
          /\ <<>> \in Seq(SemanticCommand) /\ <<>> \in Seq(SemanticMessage)
      OBVIOUS
    <2>4. /\ rows = [query |-> Empty, by |-> "list", layout |-> 0,
                     filter |-> filter]
          /\ FALSE \in BOOLEAN /\ TRUE \in BOOLEAN
      OBVIOUS
    <2> HIDE DEF rows
    <2>5. app = [query |-> Empty, loading |-> TRUE, mode |-> mode,
                 filter |-> filter, layout |-> 0, count |-> 0, snapshot |-> 0,
                 filtered |-> rows,
                 generation |-> 0, started |-> FALSE, dispatched |-> None,
                 shown_query |-> None, settled |-> FALSE,
                 pending |-> NoGeneration, prewarm |-> NoGeneration,
                 error |-> FALSE, corpus_version |-> 1, scope_version |-> 0,
                 sent_corpus |-> 0, sent_scope |-> None,
                 search_tx |-> <<>>, search_rx |-> <<>>,
                 sending |-> <<>>, worker_tx |-> <<>>, worker_rx |-> <<>>,
                 cancelled |-> FALSE]
      BY <1>1, <2>4, Zenon DEF InitialApp
    <2> QED BY <2>1, <2>2, <2>3, <2>4, <2>5, Zenon DEF App
  <1>4. /\ app.layout = 0 /\ app.snapshot = 0 /\ app.generation = 0
        /\ app.corpus_version = 1 /\ app.sent_scope = None
        /\ app.search_tx = <<>> /\ app.search_rx = <<>>
        /\ app.sending = <<>> /\ app.worker_tx = <<>> /\ app.worker_rx = <<>>
    BY <1>1 DEF InitialApp
  <1>5. lexical \in LexicalWorker BY <1>2 DEF LexicalWorker
  <1>6. /\ semantic \in SemanticWorker /\ RunsWhatItAskedFor(semantic)
        /\ semantic.request = None /\ semantic.pending_search = None
        /\ semantic.corpus_version = 0 /\ semantic.layout = 0
    BY <1>2, NewWorkerTyped DEF NewSemanticWorker
  <1>7. TypeOK BY <1>2, <1>3, <1>5, <1>6 DEF TypeOK
  <1>8. SendingEndsInSearch(app) BY <1>4 DEF SendingEndsInSearch
  <1>9. Safe(app, lexical, semantic)
    BY <1>2, <1>4, <1>6 DEF Safe, DataIsLatest, NothingIsNewer, RequestIsPast,
       AnswersAreCurrent, WantedCorpusIsCurrent
  <1> QED BY <1>6, <1>7, <1>8, <1>9 DEF IndexInv

(* Every step preserves the invariant, one action at a time.               *)
LEMMA NextIsSafe == IndexInv /\ [Next]_vars => IndexInv'
  <1> SUFFICES ASSUME IndexInv, [Next]_vars PROVE IndexInv'
    OBVIOUS
  <1>1. CASE UserStep
    <2>1. PICK loads \in BOOLEAN :
            \/ \E q \in Query : EditQuery(q, loads)
            \/ toggle_workspace_filter(loads)
            \/ toggle_list_search_mode(loads)
            \/ show_renamed_session(loads)
            \/ edit_list(loads)
      BY <1>1 DEF UserStep
    <2> QED BY <2>1, EditQueryInv, ToggleFilterInv, ToggleModeInv, RenameInv,
            EditListInv
  <1>2. CASE remove_selected_from_list BY <1>2, RemoveInv
  <1>3. CASE append_conversations BY <1>3, AppendInv
  <1>4. CASE \E loads \in BOOLEAN : finish_loading(loads)
    BY <1>4, FinishLoadingInv
  <1>5. CASE SendNext BY <1>5, SendNextInv
  <1>6. CASE Receive
    BY <1>6, ReceiveLexicalInv, ReceiveSemanticInv DEF Receive
  <1>7. CASE LexicalStep
    BY <1>7, LexicalTakeInv, LexicalAnswerInv DEF LexicalStep
  <1>8. CASE SemanticStep
    BY <1>8, SemanticTakeInv, SemanticDecideInv, SemanticStartInv,
       SemanticProgressInv, SemanticCompleteInv DEF SemanticStep
  <1>9. CASE SemanticPanic BY <1>9, SemanticPanicInv
  <1>10. CASE UNCHANGED vars
    <2>1. /\ app' = app /\ lexical' = lexical /\ semantic' = semantic
          /\ panics' = panics
      BY <1>10 DEF vars
    <2> QED BY <2>1, PartsMakeIndexInv DEF IndexInv, TypeOK
  <1> QED BY <1>1, <1>2, <1>3, <1>4, <1>5, <1>6, <1>7, <1>8, <1>9, <1>10
          DEF Next

(* In every behaviour, the invariant that relates the layout of the rows   *)
(* to every message and corpus on its way holds.                           *)
THEOREM SpecIsSafe == Spec => []IndexInv
  BY InitIsSafe, NextIsSafe, PTL DEF Spec

(* Every field of App and of its workers holds what its type allows: no    *)
(* generation or version is lost, and no count of rows goes below zero.    *)
THEOREM TypeCorrect == Spec => []TypeOK
  <1>1. IndexInv => TypeOK BY DEF IndexInv
  <1> QED BY <1>1, SpecIsSafe, PTL

(* Whatever the handlers, the workers and the channels interleave to, an   *)
(* answer that receive_search_results accepts indexes the list as it is    *)
(* now: filter_indices is never called with a stale index.                 *)
THEOREM AnswersIndexTheList == Spec => []AnswerIsOfCurrentLayout
  <1>1. IndexInv => AnswerIsOfCurrentLayout
    <2> SUFFICES ASSUME IndexInv, NEW m \in InFlight
                 PROVE  m.layout = app.layout
      BY DEF AnswerIsOfCurrentLayout
    <2>1. /\ app.search_rx \in Seq(SearchResponse)
          /\ app.worker_rx \in Seq(SemanticMessage)
          /\ AnswersAreCurrent(app)
      BY DEF IndexInv, TypeOK, App, Safe
    <2>2. CASE m \in ToSet(app.search_rx) /\ AcceptsLexical(app, m)
      <3>1. \E i \in 1 .. Len(app.search_rx) : m = app.search_rx[i]
        BY <2>1, <2>2 DEF ToSet
      <3> QED BY <2>1, <2>2, <3>1 DEF AnswersAreCurrent, AcceptsLexical
    <2>3. CASE m \in ToSet(app.worker_rx) /\ AcceptsAnswer(app, m)
      <3>1. \E i \in 1 .. Len(app.worker_rx) : m = app.worker_rx[i]
        BY <2>1, <2>3 DEF ToSet
      <3> QED BY <2>1, <2>3, <3>1 DEF AnswersAreCurrent, AcceptsAnswer
    <2> QED BY <2>2, <2>3 DEF InFlight
  <1> QED BY <1>1, SpecIsSafe, PTL
=============================================================================
