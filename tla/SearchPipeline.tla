--------------------------- MODULE SearchPipeline ---------------------------
(***************************************************************************)
(* The session list's search, src/src/tui/app/search_state.rs and          *)
(* src/src/tui/semantic_worker.rs: the App on the event loop's thread, the *)
(* lexical search worker and the semantic search worker, each on a thread  *)
(* of its own, and the channels between them.                              *)
(*                                                                         *)
(* The rows of the list are abstracted to `layout`, a number that names    *)
(* the assignment of sessions to indices: appending rows keeps it, every   *)
(* sort, removal or refresh makes a new one.  An index that a worker       *)
(* computed on one layout means another session, or none, on another.      *)
(* The rows on screen, App's `filtered`, are abstracted to what they       *)
(* really are: the query they answer, what produced them, the layout their *)
(* indices belong to and the workspace filter they passed.                 *)
(*                                                                         *)
(* An operator that takes an App record and returns one is the function of *)
(* the same name in the code; an action calls what the handler calls.      *)
(* `search_tx`, `search_rx`, `worker_tx` and `worker_rx` hold the messages *)
(* in flight on the channel whose end App keeps in the field of that name. *)
(* `sending` holds what dispatch_semantic_search has still to send to the  *)
(* semantic worker: the worker runs between two sends, the App does not.   *)
(***************************************************************************)
EXTENDS Naturals, Sequences, SequencesExt

CONSTANTS
  Text,           (* queries that are ordinary text                        *)
  SessionIds,     (* queries with the shape of a session id                *)
  Empty,          (* nothing typed, or only spaces: of the queries with    *)
                  (* nothing to search for, quotes around none is left out *)
  None,           (* Rust's None                                           *)
  Ops,            (* what the user and the environment do in this instance *)
  MaxGeneration,  (* bound on search_generation: when the user stops       *)
  MaxLayout,      (* bound on the number of layouts of the list            *)
  MaxCount,       (* bound on the number of rows                           *)
  MaxPanics       (* bound on the semantic worker's panics                 *)

AllOps == {"mode", "workspace", "delete", "rename", "refresh", "fail"}

ASSUME QueryAssumption ==
  /\ Text \cap SessionIds = {}
  /\ Empty \notin Text \cup SessionIds
  /\ None \notin Text \cup SessionIds \cup {Empty}

ASSUME BoundAssumption ==
  /\ Ops \subseteq AllOps
  /\ MaxGeneration \in Nat /\ MaxLayout \in Nat /\ MaxCount \in Nat
  /\ MaxPanics \in {0, 1}

Query == Text \cup SessionIds \cup {Empty}
Mode == {"Lexical", "Semantic"}

(* `None` of the generation fields: a dispatched search's is at least 1.   *)
NoGeneration == 0

VARIABLES
  app,       (* App: the fields of app.rs and SemanticSearchState          *)
  lexical,   (* the search worker's thread                                 *)
  semantic,  (* the semantic worker's thread                               *)
  panics     (* how often the semantic worker has panicked                 *)

vars == <<app, lexical, semantic, panics>>

-----------------------------------------------------------------------------
(* Records *)

Filtered == [query: Query, by: {"list", "lexical", "placeholder", "semantic",
                                "failed", "lookup"},
             layout: Nat, filter: BOOLEAN]

Scope == [corpus_version: Nat, layout: Nat, count: Nat, filter: BOOLEAN]

LexicalSearch == [type: {"Search"}, query: Query, generation: Nat, mode: Mode]
SearchCommand == [type: {"UpdateData"}, layout: Nat] \cup LexicalSearch
SearchResponse == [query: Query, generation: Nat, mode: Mode, layout: Nat]

SemanticSearch == [type: {"Search"}, query: Query, generation: Nat,
                   corpus_version: Nat, scope_version: Nat, prewarm: BOOLEAN]
SemanticCommand ==
  [type: {"UpdateCorpus"}, corpus_version: Nat, layout: Nat] \cup
  [type: {"UpdateScope"}, scope_version: Nat, scope: Scope] \cup
  SemanticSearch
ASSUME NoneAssumption == None \notin LexicalSearch \cup SemanticSearch \cup Scope

SemanticMessage ==
  [type: {"Progress"}, generation: Nat] \cup
  [type: {"Complete"}, query: Query, generation: Nat, prewarm: BOOLEAN,
   failed: BOOLEAN, layout: Nat, filter: BOOLEAN]

App == [query: Query, loading: BOOLEAN, mode: Mode, filter: BOOLEAN,
        layout: Nat, count: Nat, snapshot: Nat, filtered: Filtered,
        generation: Nat, started: BOOLEAN, dispatched: Query \cup {None},
        shown_query: Query \cup {None}, settled: BOOLEAN,
        pending: Nat, prewarm: Nat, error: BOOLEAN,
        corpus_version: Nat, scope_version: Nat,
        sent_corpus: Nat, sent_scope: Scope \cup {None},
        search_tx: Seq(SearchCommand), search_rx: Seq(SearchResponse),
        sending: Seq(SemanticCommand), worker_tx: Seq(SemanticCommand),
        worker_rx: Seq(SemanticMessage), cancelled: BOOLEAN]

LexicalWorker == [layout: Nat, request: LexicalSearch \cup {None}]

SemanticWorker ==
  [alive: BOOLEAN, pc: {"idle", "draining", "chosen", "running"},
   request: SemanticSearch \cup {None}, progressed: BOOLEAN,
   corpus_version: Nat, scope_version: Nat, scope_corpus_version: Nat,
   layout: Nat, scope: Scope \cup {None},
   pending_search: SemanticSearch \cup {None}]

InitialApp(mode, filter) ==
  [query |-> Empty, loading |-> TRUE, mode |-> mode, filter |-> filter,
   layout |-> 0, count |-> 0, snapshot |-> 0,
   filtered |-> [query |-> Empty, by |-> "list", layout |-> 0,
                 filter |-> filter],
   generation |-> 0, started |-> FALSE, dispatched |-> None,
   shown_query |-> None, settled |-> FALSE,
   pending |-> NoGeneration, prewarm |-> NoGeneration, error |-> FALSE,
   corpus_version |-> 1, scope_version |-> 0,
   sent_corpus |-> 0, sent_scope |-> None,
   search_tx |-> <<>>, search_rx |-> <<>>,
   sending |-> <<>>, worker_tx |-> <<>>, worker_rx |-> <<>>,
   cancelled |-> FALSE]

(* A worker as its thread starts.                                          *)
NewSemanticWorker ==
  [alive |-> TRUE, pc |-> "idle", request |-> None, progressed |-> FALSE,
   corpus_version |-> 0, scope_version |-> 0, scope_corpus_version |-> 0,
   layout |-> 0, scope |-> None, pending_search |-> None]

Init ==
  /\ \E mode \in Mode, filter \in BOOLEAN : app = InitialApp(mode, filter)
  /\ lexical = [layout |-> 0, request |-> None]
  /\ semantic = NewSemanticWorker
  /\ panics = 0

-----------------------------------------------------------------------------
(* App's functions *)

(* For the mutants: the reset without one of its assignments.              *)
invalidate_keeping_generation(a) ==
  [a EXCEPT !.started = FALSE, !.dispatched = None, !.settled = FALSE,
            !.pending = NoGeneration, !.prewarm = NoGeneration,
            !.error = FALSE]
invalidate_keeping_dispatched(a) ==
  [a EXCEPT !.generation = @ + 1, !.started = FALSE, !.settled = FALSE,
            !.pending = NoGeneration, !.prewarm = NoGeneration,
            !.error = FALSE]

invalidate_search_generation(a) ==
  [a EXCEPT !.generation = @ + 1, !.started = FALSE, !.dispatched = None,
            !.settled = FALSE, !.pending = NoGeneration,
            !.prewarm = NoGeneration, !.error = FALSE]

replace_conversations_snapshot(a) ==
  [a EXCEPT !.snapshot = a.layout, !.corpus_version = @ + 1,
            !.sent_scope = None]

send_search_data(a) ==
  [a EXCEPT !.search_tx =
     Append(@, [type |-> "UpdateData", layout |-> a.snapshot])]

refresh_search_data(a) ==
  invalidate_search_generation(
    send_search_data(replace_conversations_snapshot(a)))

(* The rows on screen become an answer whose indices are of `layout`; they *)
(* pass the workspace filter as it is now.                                 *)
apply_filtered(a, query, by, layout) ==
  [a EXCEPT !.filtered = [query |-> query, by |-> by, layout |-> layout,
                          filter |-> a.filter]]

(* `loads` when the session is not listed but an agent stores it: a row    *)
(* for it is pushed.  Otherwise it is listed, or no agent has it.          *)
apply_session_lookup(a, loads) ==
  LET b == IF loads
           THEN send_search_data(replace_conversations_snapshot(
                  [a EXCEPT !.count = @ + 1]))
           ELSE a
  IN  apply_filtered([b EXCEPT !.shown_query = a.query, !.settled = TRUE],
                     a.query, "lookup", a.layout)

apply_lexical_filter(a) ==
  apply_filtered(
    [a EXCEPT !.shown_query = IF a.query = Empty THEN None ELSE a.query,
              !.settled = TRUE],
    a.query, "lexical", a.layout)

update_filter(a, loads) ==
  CASE a.query = Empty -> apply_lexical_filter([a EXCEPT !.error = FALSE])
    [] a.query \in SessionIds ->
         [apply_session_lookup(a, loads) EXCEPT !.error = FALSE]
    [] a.query \in Text /\ a.mode = "Semantic" -> a
    [] a.query \in Text /\ a.mode = "Lexical" ->
         apply_lexical_filter([a EXCEPT !.error = FALSE])

(* reset_semantic_worker: the channels, the cancellation token and what    *)
(* the worker was sent start over with a new thread.                       *)
reset_semantic_worker(a) ==
  [a EXCEPT !.worker_tx = <<>>, !.worker_rx = <<>>, !.cancelled = FALSE,
            !.sent_corpus = 0, !.sent_scope = None]

(* The corpus, when the worker has another version of it, then the scope,  *)
(* when it or the corpus changed.                                          *)
send_semantic_corpus(a) ==
  IF a.sent_corpus = a.corpus_version THEN a
  ELSE [a EXCEPT !.sending = Append(@, [type |-> "UpdateCorpus",
                     corpus_version |-> a.corpus_version,
                     layout |-> a.snapshot]),
                 !.sent_corpus = a.corpus_version,
                 !.sent_scope = None]

ScopeOf(a) == [corpus_version |-> a.corpus_version, layout |-> a.layout,
               count |-> a.count, filter |-> a.filter]

send_semantic_scope(a) ==
  IF a.sent_scope = ScopeOf(a) THEN a
  ELSE [a EXCEPT !.scope_version = @ + 1,
                 !.sending = Append(@, [type |-> "UpdateScope",
                     scope_version |-> a.scope_version + 1,
                     scope |-> ScopeOf(a)]),
                 !.sent_scope = ScopeOf(a)]

send_semantic_state(a) == send_semantic_scope(send_semantic_corpus(a))

send_semantic_search(a, prewarm) ==
  [a EXCEPT !.sending = Append(@, [type |-> "Search",
      query |-> IF prewarm THEN Empty ELSE a.query,
      generation |-> a.generation, corpus_version |-> a.corpus_version,
      scope_version |-> a.scope_version, prewarm |-> prewarm])]

send_lexical_search(a) ==
  [a EXCEPT !.search_tx = Append(@, [type |-> "Search", query |-> a.query,
      generation |-> a.generation, mode |-> a.mode])]

(* A worker whose thread has died is replaced when the first send fails.   *)
dispatch_semantic_search(a, prewarm) ==
  LET begun == [a EXCEPT
        !.generation = @ + 1, !.started = ~prewarm,
        !.dispatched = IF prewarm THEN @ ELSE a.query,
        !.pending = a.generation + 1,
        !.prewarm = IF prewarm THEN a.generation + 1 ELSE @,
        !.error = FALSE, !.cancelled = TRUE]
      connected == IF semantic.alive THEN begun
                   ELSE reset_semantic_worker(begun)
      sent == send_semantic_state(connected)
  IN  send_semantic_search(
        IF prewarm THEN sent ELSE send_lexical_search(sent), prewarm)

abandon_search_in_flight(a) ==
  [a EXCEPT !.generation = @ + 1, !.started = FALSE,
            !.pending = NoGeneration, !.error = FALSE, !.cancelled = TRUE]

dispatch_lexical_search(a) ==
  send_lexical_search(
    [a EXCEPT !.dispatched = a.query, !.generation = @ + 1,
              !.started = TRUE, !.error = FALSE])

(* dispatch_search's first branch: nothing to search for.                  *)
dispatch_empty_query(a) ==
  LET b == invalidate_search_generation(a)
  IN  update_filter([b EXCEPT !.prewarm = IF a.mode = "Semantic"
                                          THEN a.prewarm ELSE @], FALSE)

(* The rows on screen are the answer already.                              *)
IsAnswered(a) ==
  /\ a.settled
  /\ a.shown_query = a.query
  /\ a.dispatched # None

dispatch_search(a, loads) ==
  CASE a.query = Empty -> dispatch_empty_query(a)
    [] a.query \in SessionIds ->
         invalidate_search_generation(apply_session_lookup(a, loads))
    [] a.query \in Text /\ a.dispatched = a.query -> a
    [] a.query \in Text /\ a.dispatched # a.query /\ IsAnswered(a) ->
         [abandon_search_in_flight(a) EXCEPT !.dispatched = a.query]
    [] a.query \in Text /\ a.dispatched # a.query /\ ~IsAnswered(a) ->
         IF a.mode = "Semantic" THEN dispatch_semantic_search(a, FALSE)
                                ELSE dispatch_lexical_search(a)

prewarm_semantic_cache(a) ==
  IF a.mode = "Semantic" /\ a.query = Empty /\ ~a.loading
  THEN dispatch_semantic_search(a, TRUE) ELSE a

rerun_query(a, loads) ==
  LET b == update_filter(a, loads)
  IN  IF a.mode = "Semantic" /\ a.query # Empty
      THEN dispatch_search(b, FALSE) ELSE prewarm_semantic_cache(b)

(* What the event loop polls for every 8 ms, and while the list loads.     *)
has_search_work_in_flight(a) ==
  a.started \/ a.pending # NoGeneration \/ a.prewarm # NoGeneration
IsPolling(a) == a.loading \/ has_search_work_in_flight(a)

-----------------------------------------------------------------------------
(* The event loop.  A handler runs when the one before it has returned.    *)

CanHandle == app.sending = <<>> /\ app.generation < MaxGeneration

(* A session that is not listed, if there is room for its row.             *)
MayLoad(a, loads) ==
  loads => a.query \in SessionIds /\ a.count < MaxCount

Becomes(a) ==
  /\ app' = a
  /\ semantic' = IF a.sending # <<>> /\ ~semantic.alive
                 THEN NewSemanticWorker ELSE semantic
  /\ UNCHANGED <<lexical, panics>>

(* A key that edits the query, if only by a space at its end.  While the   *)
(* list loads, the query is only kept, but for Esc, which clears it and    *)
(* searches.                                                               *)
EditQuery(q, loads) ==
  LET edited == [app EXCEPT !.query = q]
  IN  /\ CanHandle
      /\ MayLoad(edited, loads)
      /\ \/ app.loading /\ ~loads /\ Becomes(edited)
         \/ /\ app.loading => q = Empty
            /\ Becomes(dispatch_search(edited, loads))

(* Tab.  Rows on screen that the filter now hides go at once when a        *)
(* semantic search has to replace them; it cannot bring rows back.         *)
toggle_workspace_filter(loads) ==
  LET a == invalidate_search_generation([app EXCEPT !.filter = ~@])
      narrowed == [a EXCEPT !.filtered.filter = @ \/ a.filter]
  IN  /\ CanHandle
      /\ "workspace" \in Ops
      /\ MayLoad(app, loads)
      /\ Becomes(IF app.mode = "Semantic" /\ app.query # Empty
                 THEN dispatch_search(narrowed, loads)
                 ELSE update_filter(a, loads))

(* Ctrl+T                                                                  *)
toggle_list_search_mode(loads) ==
  LET other == IF app.mode = "Lexical" THEN "Semantic" ELSE "Lexical"
      a == invalidate_search_generation([app EXCEPT !.mode = other])
  IN  /\ CanHandle
      /\ "mode" \in Ops
      /\ MayLoad(app, loads)
      /\ Becomes(IF other = "Semantic" /\ app.query = Empty
                 THEN prewarm_semantic_cache(a)
                 ELSE dispatch_search(a, loads))

(* The rows on screen follow their sessions to the new indices.            *)
Relayout(a) == [a EXCEPT !.layout = @ + 1, !.filtered.layout = a.layout + 1]

(* For a mutant: a confirmed delete when no row is left.                   *)
remove_without_selection ==
  /\ CanHandle
  /\ "delete" \in Ops
  /\ ~app.loading /\ app.layout < MaxLayout
  /\ Becomes(refresh_search_data([Relayout(app) EXCEPT !.count = @ - 1]))

remove_selected_from_list ==
  /\ CanHandle
  /\ "delete" \in Ops
  /\ ~app.loading /\ app.count > 0 /\ app.layout < MaxLayout
  /\ Becomes(refresh_search_data([Relayout(app) EXCEPT !.count = @ - 1]))

(* The row is read again in place, so no index changes.                    *)
show_renamed_session(loads) ==
  /\ CanHandle
  /\ "rename" \in Ops
  /\ ~app.loading /\ app.count > 0
  /\ app.corpus_version < 1 + MaxGeneration
  /\ MayLoad(app, loads)
  /\ Becomes(update_filter(refresh_search_data(app), loads))

(* A refresh of the list, or of the session open in the viewer.            *)
edit_list(loads) ==
  /\ CanHandle
  /\ "refresh" \in Ops
  /\ ~app.loading /\ app.layout < MaxLayout
  /\ MayLoad(app, loads)
  /\ Becomes(rerun_query(refresh_search_data(Relayout(app)), loads))

append_conversations ==
  /\ app.sending = <<>>
  /\ app.loading /\ app.count < MaxCount
  /\ Becomes([app EXCEPT !.count = @ + 1])

(* The rows are sorted; the rows on screen keep their indices until the    *)
(* query runs again.                                                       *)
finish_loading(loads) ==
  LET sorted == send_search_data(replace_conversations_snapshot(
                  [app EXCEPT !.layout = @ + 1]))
  IN  /\ app.sending = <<>>
      /\ app.loading
      /\ MayLoad(app, loads)
      /\ Becomes(rerun_query(invalidate_search_generation(
                   [sorted EXCEPT !.loading = FALSE]), loads))

(* One send of dispatch_semantic_search.  To a worker whose thread died    *)
(* meanwhile it fails: a new one is started and sent everything.           *)
SendNext ==
  LET search == app.sending[Len(app.sending)]
  IN  /\ app.sending # <<>>
      /\ IF semantic.alive
         THEN Becomes([app EXCEPT !.worker_tx = Append(@, Head(app.sending)),
                                  !.sending = Tail(@)])
         ELSE Becomes(send_semantic_search(
                send_semantic_state(reset_semantic_worker(
                  [app EXCEPT !.sending = <<>>])), search.prewarm))

(* For a mutant: a late response is shown as the current query's.          *)
AcceptsAnyGeneration(a, response) ==
  /\ response.mode = a.mode
  /\ response.mode = "Lexical" \/ a.pending # NoGeneration

(* receive_search_results, the lexical channel: a response to the search   *)
(* dispatched last.  A placeholder without rows leaves the rows on screen. *)
AcceptsLexical(a, response) ==
  /\ response.generation = a.generation
  /\ response.mode = a.mode
  /\ response.mode = "Lexical" \/ a.pending = response.generation

receive_lexical(hasRows) ==
  LET response == Head(app.search_rx)
      rest == [app EXCEPT !.search_rx = Tail(@)]
      isFinal == response.mode = "Lexical"
  IN  /\ app.sending = <<>>
      /\ app.search_rx # <<>>
      /\ IF AcceptsLexical(app, response) /\ (isFinal \/ hasRows)
         THEN Becomes(apply_filtered(
                [rest EXCEPT !.shown_query = app.dispatched,
                             !.settled = isFinal,
                             !.started = @ /\ ~isFinal],
                response.query,
                IF isFinal THEN "lexical" ELSE "placeholder",
                response.layout))
         ELSE Becomes(rest)

(* The semantic channel.  A message that comes in the other mode, or for a *)
(* search no longer waited for, is dropped.                                *)
ReceivesProgress(a, m) ==
  IF m.generation # a.prewarm /\ m.generation = a.generation
  THEN [a EXCEPT !.prewarm = NoGeneration] ELSE a

(* The prewarm is over.  The branch that would dispatch a query typed over *)
(* it in its own generation has no part here: the query is empty as long   *)
(* as a prewarm is of the current generation (PrewarmAlone, which          *)
(* SearchShownProofs proves), because every edit begins another.           *)
ReceivesPrewarmed(a, m) ==
  IF m.generation = a.generation
  THEN [a EXCEPT !.prewarm = NoGeneration, !.pending = NoGeneration,
                 !.error = m.failed]
  ELSE [a EXCEPT !.prewarm = NoGeneration]

(* For a mutant: the spinner outlives the answer.                          *)
ReceivesAnswerStillStarted(a, m) ==
  LET b == apply_filtered(
             [a EXCEPT !.pending = NoGeneration, !.error = m.failed,
                       !.shown_query = a.dispatched, !.settled = TRUE],
             m.query, IF m.failed THEN "failed" ELSE "semantic", m.layout)
  IN  [b EXCEPT !.filtered.filter = @ \/ m.filter]

(* The worker ranked the rows of its scope, which had passed the filter    *)
(* they were sent with; the answer passes the filter there is now.         *)
ReceivesAnswer(a, m) ==
  LET b == apply_filtered(
             [a EXCEPT !.started = FALSE, !.pending = NoGeneration,
                       !.error = m.failed, !.shown_query = a.dispatched,
                       !.settled = TRUE],
             m.query, IF m.failed THEN "failed" ELSE "semantic", m.layout)
  IN  [b EXCEPT !.filtered.filter = @ \/ m.filter]

AcceptsAnswer(a, m) ==
  /\ m.type = "Complete"
  /\ a.mode = "Semantic"
  /\ ~(m.prewarm /\ m.generation = a.prewarm)
  /\ m.generation = a.generation

receive_semantic ==
  LET m == Head(app.worker_rx)
      rest == [app EXCEPT !.worker_rx = Tail(@)]
  IN  /\ app.sending = <<>>
      /\ app.worker_rx # <<>>
      /\ \/ app.mode = "Lexical" /\ Becomes(rest)
         \/ /\ app.mode = "Semantic" /\ m.type = "Progress"
            /\ Becomes(ReceivesProgress(rest, m))
         \/ /\ app.mode = "Semantic" /\ m.type = "Complete"
            /\ m.prewarm /\ m.generation = app.prewarm
            /\ Becomes(ReceivesPrewarmed(rest, m))
         \/ AcceptsAnswer(app, m) /\ Becomes(ReceivesAnswer(rest, m))
         \/ /\ app.mode = "Semantic" /\ m.type = "Complete"
            /\ ~(m.prewarm /\ m.generation = app.prewarm)
            /\ m.generation # app.generation
            /\ Becomes(rest)

-----------------------------------------------------------------------------
(* spawn_search_worker's thread: it takes every command that waits before  *)
(* it searches, and the last search replaces the ones before it.  A search *)
(* that is still computed when App sends more is an answer that waits in   *)
(* search_rx: it is of the data and the request taken before.              *)

LexicalTake ==
  LET command == Head(app.search_tx)
  IN  /\ app.search_tx # <<>>
      /\ lexical' = IF command.type = "UpdateData"
                    THEN [lexical EXCEPT !.layout = command.layout]
                    ELSE [lexical EXCEPT !.request = command]
      /\ app' = [app EXCEPT !.search_tx = Tail(@)]
      /\ UNCHANGED <<semantic, panics>>

LexicalAnswer ==
  LET request == lexical.request
  IN  /\ request # None /\ app.search_tx = <<>>
      /\ app' = [app EXCEPT !.search_rx = Append(@,
           [query |-> request.query, generation |-> request.generation,
            mode |-> request.mode, layout |-> lexical.layout])]
      /\ lexical' = [lexical EXCEPT !.request = None]
      /\ UNCHANGED <<semantic, panics>>

-----------------------------------------------------------------------------
(* run_semantic_worker's thread.  `app.cancelled` is the cancellation      *)
(* token: whether cancel() was called since the last child() was taken.    *)

(* For a mutant: a search older than the corpus or the scope still runs.   *)
version_state_never_stale(w, request) ==
  IF w.scope_corpus_version # w.corpus_version
     \/ w.corpus_version < request.corpus_version
     \/ w.scope_version < request.scope_version
  THEN "Future" ELSE "Current"

version_state_for(w, request) ==
  CASE w.scope_corpus_version # w.corpus_version -> "Future"
    [] /\ w.scope_corpus_version = w.corpus_version
       /\ w.corpus_version = request.corpus_version
       /\ w.scope_version = request.scope_version -> "Current"
    [] /\ w.scope_corpus_version = w.corpus_version
       /\ \/ w.corpus_version < request.corpus_version
          \/ w.scope_version < request.scope_version -> "Future"
    [] OTHER -> "Stale"

(* A parked search returns once the versions it was sent with, or later    *)
(* ones, are there.                                                        *)
take_ready_pending(w) ==
  IF w.pending_search = None \/ version_state_for(w, w.pending_search) = "Future"
  THEN w
  ELSE [w EXCEPT !.request = w.pending_search, !.pending_search = None]

AppliesUpdate(w, command) ==
  \/ command.type = "UpdateCorpus" /\ command.corpus_version >= w.corpus_version
  \/ command.type = "UpdateScope" /\ command.scope_version >= w.scope_version

apply_command(w, command) ==
  CASE command.type = "UpdateCorpus" -> take_ready_pending(
         IF AppliesUpdate(w, command)
         THEN [w EXCEPT !.corpus_version = command.corpus_version,
                        !.layout = command.layout]
         ELSE w)
    [] command.type = "UpdateScope" -> take_ready_pending(
         IF AppliesUpdate(w, command)
         THEN [w EXCEPT !.scope_version = command.scope_version,
                        !.scope_corpus_version = command.scope.corpus_version,
                        !.scope = command.scope]
         ELSE w)
    [] command.type = "Search" -> [w EXCEPT !.request = command]

SemanticTake ==
  LET command == Head(app.worker_tx)
  IN  /\ semantic.alive /\ semantic.pc \in {"idle", "draining"}
      /\ app.worker_tx # <<>>
      /\ semantic' = [apply_command(semantic, command) EXCEPT !.pc = "draining"]
      /\ app' = [app EXCEPT
           !.worker_tx = Tail(@),
           !.cancelled = @ \/ command.type = "Search"
                           \/ AppliesUpdate(semantic, command)]
      /\ UNCHANGED <<lexical, panics>>

(* Nothing waits any more: what to do with the last search taken.          *)
SemanticDecide ==
  LET request == semantic.request
      idle == [semantic EXCEPT !.pc = "idle", !.request = None]
  IN  /\ semantic.alive /\ semantic.pc = "draining" /\ app.worker_tx = <<>>
      /\ semantic' =
           IF request = None THEN idle
           ELSE CASE version_state_for(semantic, request) = "Future" ->
                       [idle EXCEPT !.pending_search = request]
                  [] version_state_for(semantic, request) = "Stale" -> idle
                  [] version_state_for(semantic, request) = "Current" ->
                       [semantic EXCEPT !.pc = "chosen"]
      /\ UNCHANGED <<app, lexical, panics>>

SemanticStart ==
  /\ semantic.alive /\ semantic.pc = "chosen"
  /\ semantic' = [semantic EXCEPT !.pc = "running", !.progressed = FALSE]
  /\ app' = [app EXCEPT !.cancelled = FALSE]
  /\ UNCHANGED <<lexical, panics>>

(* Loading the model, embedding and ranking report progress; an exact      *)
(* search and an empty corpus do not.  Once is enough to tell them apart.  *)
SemanticProgress ==
  /\ semantic.alive /\ semantic.pc = "running" /\ ~semantic.progressed
  /\ semantic' = [semantic EXCEPT !.progressed = TRUE]
  /\ app' = [app EXCEPT !.worker_rx = Append(@,
       [type |-> "Progress", generation |-> semantic.request.generation])]
  /\ UNCHANGED <<lexical, panics>>

(* A cancelled search fails unless it is past its last check.              *)
SemanticComplete(failed) ==
  LET request == semantic.request
  IN  /\ semantic.alive /\ semantic.pc = "running"
      /\ failed => app.cancelled \/ "fail" \in Ops
      /\ semantic' = [semantic EXCEPT !.pc = "idle", !.request = None]
      /\ app' = [app EXCEPT !.worker_rx = Append(@,
           [type |-> "Complete", query |-> request.query,
            generation |-> request.generation, prewarm |-> request.prewarm,
            failed |-> failed, layout |-> semantic.layout,
            filter |-> semantic.scope.filter])]
      /\ UNCHANGED <<lexical, panics>>

(* The search library panics: the thread ends, and with it its receiver.   *)
SemanticPanic ==
  /\ semantic.alive /\ semantic.pc = "running" /\ panics < MaxPanics
  /\ semantic' = [semantic EXCEPT !.alive = FALSE, !.request = None]
  /\ panics' = panics + 1
  /\ UNCHANGED <<app, lexical>>

-----------------------------------------------------------------------------
UserStep ==
  \E loads \in BOOLEAN :
    \/ \E q \in Query : EditQuery(q, loads)
    \/ toggle_workspace_filter(loads)
    \/ toggle_list_search_mode(loads)
    \/ show_renamed_session(loads)
    \/ edit_list(loads)

Receive ==
  \/ \E hasRows \in BOOLEAN : receive_lexical(hasRows)
  \/ receive_semantic

LexicalStep == LexicalTake \/ LexicalAnswer

SemanticStep ==
  \/ SemanticTake
  \/ SemanticDecide
  \/ SemanticStart
  \/ SemanticProgress
  \/ \E failed \in BOOLEAN : SemanticComplete(failed)

Next ==
  \/ UserStep
  \/ remove_selected_from_list
  \/ append_conversations
  \/ \E loads \in BOOLEAN : finish_loading(loads)
  \/ SendNext
  \/ Receive
  \/ LexicalStep
  \/ SemanticStep
  \/ SemanticPanic

(* The loader ends.  A handler that has begun returns.  While it polls,    *)
(* the loop calls receive_search_results each frame, which returns when    *)
(* both channels are empty; without a reason to poll it waits for a key.   *)
(* A worker that can take a step does.  Nothing makes the user act, a      *)
(* search fail or a worker panic.                                          *)
ChannelsEmpty == app.search_rx = <<>> /\ app.worker_rx = <<>>

Fairness ==
  /\ []<>(~app.loading)
  /\ []<>(app.sending = <<>>)
  /\ []<>(IsPolling(app) => ChannelsEmpty)
  /\ WF_vars(LexicalStep)
  /\ WF_vars(SemanticTake)
  /\ WF_vars(SemanticDecide)
  /\ WF_vars(SemanticStart)
  /\ WF_vars(\E failed \in BOOLEAN : SemanticComplete(failed))

Spec == Init /\ [][Next]_vars
FairSpec == Spec /\ Fairness

-----------------------------------------------------------------------------
(* Properties *)

(* Every field holds what its type in the code allows.                     *)
TypeOK ==
  /\ app \in App
  /\ lexical \in LexicalWorker
  /\ semantic \in SemanticWorker
  /\ panics \in Nat

(* The answers a channel or a worker still holds that would replace the    *)
(* rows on screen if they were received now.                               *)
InFlight ==
  {m \in ToSet(app.search_rx) : AcceptsLexical(app, m)} \cup
  {m \in ToSet(app.worker_rx) : AcceptsAnswer(app, m)}

(* An answer that is accepted names rows by the indices they have now:     *)
(* the list is never shown, and filter_indices never indexes it, with      *)
(* indices that a search computed before the rows moved.                   *)
AnswerIsOfCurrentLayout == \A m \in InFlight : m.layout = app.layout

(* What `settled` stands for: the rows are the answer of the current mode, *)
(* on the current rows, through the current filter.                        *)
Answers(rows) ==
  /\ rows.layout = app.layout
  /\ rows.filter = app.filter
  /\ \/ rows.query = Empty /\ rows.by = "lexical"
     \/ rows.query \in SessionIds /\ rows.by = "lookup"
     \/ rows.query \in Text /\ app.mode = "Lexical" /\ rows.by = "lexical"
     \/ /\ rows.query \in Text /\ app.mode = "Semantic"
        /\ rows.by \in {"semantic", "failed"}

(* The query receive_search_results says the rows answer, the one          *)
(* dispatched last, is the one they answer; settled rows, which stand in   *)
(* for a search when the query is typed back, are what it would answer.    *)
ShownQueryIsTrue ==
  /\ app.filtered.query = (IF app.shown_query = None THEN Empty
                                                     ELSE app.shown_query)
  /\ app.settled => Answers(app.filtered)

(* A search ranks the corpus and the scope it was sent with, whatever      *)
(* UpdateCorpus and UpdateScope came between, and the search the list      *)
(* waits for runs with a token that nobody cancelled.                      *)
RankedOnItsOwnVersions ==
  semantic.pc = "running" /\ semantic.alive
    => /\ semantic.corpus_version = semantic.request.corpus_version
       /\ semantic.scope_version = semantic.request.scope_version
       /\ semantic.scope.corpus_version = semantic.corpus_version
       /\ semantic.scope.layout = semantic.layout
       /\ app.pending = semantic.request.generation => ~app.cancelled

(* A query that the user leaves alone becomes the one the list answers.    *)
(* Not so once a session is deleted or renamed under the search: see the   *)
(* runs that say so.                                                       *)
QueryAnswered ==
  \A q \in Query :
    app.query = q ~> \/ app.query # q
                     \/ /\ ~app.loading
                        /\ app.filtered.query = q /\ Answers(app.filtered)

(* A search that is in flight, with its spinner, ends.                     *)
SearchEnds == app.started \/ app.pending # NoGeneration
                ~> ~app.started /\ app.pending = NoGeneration
-----------------------------------------------------------------------------
(* What the repository says and the code does not do: the runs that check  *)
(* these find the behaviour that shows it.                                 *)

(* Left alone, the event loop stops polling.  A prewarm that a query       *)
(* replaced before the worker took it is never completed, and a query      *)
(* answered without progress does not clear it.                            *)
PollingEnds == IsPolling(app) ~> ~IsPolling(app)
=============================================================================
