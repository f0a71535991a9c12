# Rearview in TLA+

Rearview is a terminal program that lists, searches and shows the transcripts that coding
agents keep on disk. This directory holds TLA+ modules that model its concurrent parts, the
TLC configurations that check them on small instances, and TLAPS proofs of what matters most
for instances of any size. Paths are written as in `PROJECT.json`: `src/` is the repository's
root, so the program's sources are `src/src/...`.

1. [The system](#1-the-system): its parts, their state and how they interact
2. [Modules](#2-modules): which module models which part, and how
3. [Runs](#3-runs): what each run checks, its bounds, and what it shows
4. [Fairness](#4-fairness)
5. [Where the code and its documentation disagree](#5-where-the-code-and-its-documentation-disagree)
6. [Proofs](#6-proofs)
7. [What is not modelled](#7-what-is-not-modelled)
8. [Plan](#8-plan)

## 1. The system

### Parts

| Part | Source (`src/src/`) | State | Operations |
|---|---|---|---|
| Event loop | `tui/runtime.rs` | whether to poll, terminal events, the loader's channel | one handler at a time; drains the search channels and the refresh each frame; polls every 8 ms while search work is in flight or the list loads, otherwise waits for a key |
| Session list | `tui/app.rs`, `tui/app/list_state.rs`, `tui/app/input_controller.rs` | rows, the filtered indices on screen, selection, query, mode, workspace filter | type, Tab, Ctrl+T, delete, rename, append, finish loading |
| List search | `tui/app/search_state.rs` | generation, dispatched query, the query the rows answer and whether they are settled, pending and prewarm generations, versions of corpus and scope, what the worker was sent | `dispatch_search`, `receive_search_results`, invalidate, abandon, prewarm |
| Lexical search worker | `tui/app/search_state.rs`, 64-130 | the search data it took last | drain commands, keep the last search, answer it |
| Semantic search worker | `tui/semantic_worker.rs` | corpus and scope with their versions, a parked search, a cancellation token | drain, version check, start, progress, complete; panics end its thread |
| List refresh | `tui/app/refresh_state.rs`, `history/refresh.rs` | known sessions and fingerprints, unlisted and unreadable ones, changes made during a refresh | begin, absorb what each agent discovers, apply to the list under the user's own changes |
| Session dialogs, viewer | `tui/app/dialog_state.rs`, `actions_state.rs`, `view_state.rs` | the open dialog or session | rename, delete, resume, open and read again |
| Ordered scan | `agent/ordered_scan.rs` | a schedule behind a mutex, a condition variable, a channel of results | readers claim and keep, searchers take and finish, the caller consumes, stops or asks for more |
| Session caches | `history/cache.rs`, `cache_file.rs`, `history/provider/load.rs` | one file per shard, a mutex per merge, the old single file | read, merge, write, migrate, sweep temporary files |
| Embedding cache | `semantic/cache.rs`, `semantic/index.rs`, `semantic/index/resident.rs` | entries with their last use, a budget | embed in batches, save at intervals, prune to the limit |
| Agent read | `agent/protocol.rs`, `visibility.rs`, `record_writer.rs` | none between calls; within one, the entries, the selection, the shortened bodies | select under a budget, shorten, omit, name what is left out in records that the agent runs next |
| Sequential parts | parsers, matching, ranking, markdown, rendering, CLI, update, model download | none that two actors share | pure functions and I/O |

### How they interact

The TUI is one thread, `App`, that owns all list state. It talks to the lexical worker and the
semantic worker through two pairs of `mpsc` channels, to the loader and to a refresh thread
through one channel each, and shares with the semantic worker only a cancellation token. An
answer carries row *indices* and the generation it was asked for under: nothing in its type
ties it to the list it was computed on. Each dispatch of a semantic search is up to three
messages (corpus, scope, search) that the worker may take one at a time.

The agent's `search` command reads and searches transcripts with two thread pools around one
mutex and one condition variable. The caller's thread consumes results in rank order as they
come, decides after each one whether to stop and how many more it wants, and thereby moves the
window of items that may start.

`agent read` prints no more characters than `--budget`. What it leaves out it names in
`continue read` records, commands that the agent on the other side of the pipe runs next, with
the same budget: a protocol of which Rearview holds one side and keeps no state.

Files in the cache directory are shared with other Rearview processes; writes go to a
temporary file and are renamed into place.

### What is hard

- *Ordering and staleness* (list search): answers that arrive late, for another query, another
  mode, or another layout of the rows; rows that move between the dispatch and the answer by a
  load, a sort, a delete, a refresh.
- *Many sends per dispatch* (semantic worker): the worker runs between two sends, may die
  between them, and may meet a search whose corpus is older or newer than its own.
- *Something must eventually happen*: each way a search is superseded, parked, stale or
  cancelled must leave a later one that answers the query on screen; the spinner and the
  polling must end.
- *Everyone waits for everyone* (ordered scan): a claim notifies nobody, so every other change
  that makes an item claimable, takeable or the scan over must.
- *A resource bound with an exception* (ordered scan): read-ahead bytes that one item at a
  time may exceed, with a `u64` counter that must not be decremented by what was not added.
- *Partial failure*: worker panics, a panic in a pool thread's closure, a failed search.
- *Files under concurrent writers and crashes* (session cache): a shard is read, merged and
  written back by threads of one process under a mutex, by other processes without it; the move
  from the old file may stop between any two of its writes.
- *A long sequence of legal calls* (semantic index): resident passages kept from one corpus to
  the next, by a plan that a cancellation may leave half done; a cache that evicts.
- *A protocol of calls* (agent read): an answer is measured twice, by an estimate and by what it
  prints; it is cut by whole entries and then within bodies; and what one call hides, the next,
  made of its records alone, must show.
- *A selection that is an index* (session list): rows are sorted, removed, inserted and replaced
  under it, also while the viewer or a dialog acts on it.

`PROJECT.json` lists these at their lines under `hazards`, with the properties that would
catch each going wrong.

### What makes each part correct

- List search: an accepted answer indexes the rows as they are now; the query said to be
  answered is; settled rows are the answer and stay it; the live search is not cancelled; a
  query left alone is answered and the loop goes idle.
- Semantic worker: a search ranks the corpus and scope it was sent with, or does not run.
- Ordered scan: every item is read and searched once and consumed in order; the bound on bytes
  and the order of starts hold; nothing starts after a stop; no wakeup is lost; the scan ends.
- List refresh: it never undoes what the user did while it read; no failure drops a row; a
  record of a session to skip never hides a later change.
- Session list: the keys, the dialogs and the viewer act on the session the user sees.
- Session cache: an entry never stands for a content it was not read from, through every merge,
  migration and crash; merges of one process lose nothing; a quiet load leaves nothing to parse.
- Semantic index: what a ranking reads is the corpus it was asked for; what was embedded is
  saved; eviction takes neither what the search itself uses nor the protected core.
- Agent read: an answer keeps within its budget and shares the room in it, keeps the end it was asked for, and
  drops nothing without a record that names it; an agent that follows the records sees everything.

## 2. Modules

| Module | Role |
|---|---|
| `SearchPipeline` | the list's search: `App`, both workers, their channels |
| `InOrderScan` | what `scan_in_order` promises its caller: four variables, three actions |
| `OrderedScan` | the two pools, the schedule, the caller; implements `InOrderScan` |
| `SessionCache` | the shards of one provider root, the old single file, the loads that use them |
| `ListRefresh` | the refresh thread beside the user's own changes to the list |
| `ListSelection` | rows, rows on screen, selection, anchor, viewer and dialogs |
| `SemanticIndex` | the embedding cache and the resident passages of each process |
| `ReadLayout` | pure: the entries of an agent's read, the characters they take, the records for what is left out |
| `BudgetedRead` | one read under a budget, step by step, and an agent that follows its records |
| `MC...` | an instance of each for TLC: values of constants, symmetry |
| `SearchPipelineProofs`, `SearchShownProofs`, `OrderedScanProofs`, `SessionCacheProofs`, `ListRefreshProofs`, `ListSelectionProofs`, `SemanticIndexProofs`, `BudgetedReadProofs` | inductive invariants and theorems |

The same handler may appear in three modules, each with the part of its effect that the module
is about: a delete invalidates a search in `SearchPipeline`, is noted for a running refresh in
`ListRefresh`, and moves the selection in `ListSelection`. What one of them leaves out the
others leave nondeterministic, so that each holds whatever the others do: an answer in
`ListSelection` brings any rows, a refresh in `SearchPipeline` any layout.

Definitions that a comment marks *for a mutant* are the code with a plausible bug; no
specification uses them. `PROJECT.json` says which definition each one replaces: every checked
property has one that TLC finds violated.

### SearchPipeline

`app` is a record of the fields of `App` and `SemanticSearchState` that the search reads or
writes. An operator that takes such a record and returns one is the function of the same name
(`invalidate_search_generation`, `update_filter`, `dispatch_search`, `rerun_query`, ...), and an
action composes the calls its handler makes, so that a trailing refresh or dispatch is part of
the action. `lexical` and `semantic` are the workers' threads; channels are sequences in `app`.

- *Rows.* Which sessions are listed is reduced to `layout`, a number that names the current
  assignment of sessions to indices, and `count`. Appending keeps the layout, a sort, a removal
  or a refresh makes a new one. The rows on screen are reduced to what they are: the query they
  answer, what produced them, the layout of their indices, the workspace filter they passed.
- *Queries* are the empty query, ordinary texts, and texts with the shape of a session id.
  Handlers choose among them with `\E`. The code has two tests of emptiness,
  `query.trim().is_empty()` (when to prewarm or search again) and `is_effectively_empty()`
  (`dispatch_search`); they differ on quotes around nothing, which the module leaves out.
- *Several sends.* `sending` holds what `dispatch_semantic_search` has still to send.
  `SendNext` sends one message; workers may run in between, other handlers may not
  (`CanHandle`). A send to a worker whose thread has ended starts a new one and sends all again.
- *Workers.* `LexicalTake`/`LexicalAnswer`, `SemanticTake`/`Decide`/`Start`/`Progress`/
  `Complete` are the stretches of the worker's loop between two interactions with `App`.
  The cancellation token is one Boolean: `cancel()` sets it, `child()` at the start of a search
  clears it, and a cancelled search may fail or may be past its last check.
- *Environment.* `Ops` names what the user and the environment do in an instance.

### OrderedScan

One step is what a thread does in one hold of the mutex, or between two holds. `ClaimRead` has
three disjuncts: the scan is over for this reader, it claims the first item with room, or it
waits; `claim_next` and `claim_none` carry the two ways the loop over waiting and untried
positions leaves the schedule. A waiting thread is at `"wait"`; `Woken` is `notify_all` and
moves it back to `"ready"`, where it locks and looks again; `SpuriousWake` moves it there for
no reason. `FinishRead`, `TakeRead`, `FinishSearch`, `SendResult`, `ReceiveResult`,
`ConsumeResult` are the rest of the three loops; `PanicRead` and `PanicSearch` are
`StopOnUnwind`'s `drop`, `PanicConsume` the caller's own unwinding, which drops the receiver and
stops nobody. Items are positions; their contents are left out, their sizes chosen at `Init`.
The sequential loop for a list of one item or one thread in each pool is left out.

`InOrderScan` sees `consumed`, whether the caller stopped, whether a closure panicked, whether
the scan returned. `OrderedScan` instantiates it with those four expressions.

### SessionCache

A step is one file operation, or the parse of one transcript, of a thread that loads the root
(`load_root`) or reads some of its sessions (`read_stubs`). `Look` is `read` and `read_shard` up
to the first write of a migration; `Migrate` and `Unlink` are `migrate_sessions_bin`, one shard
at a time; `Write` is a load's write of the shards that changed, which takes no lock; `Lock`,
`Look`, `Store` are `merge_into_shard` under `SHARD_MERGE`. `WithEntries` and `Settled` hold the
pure part between them: hits are restored and taken, misses parsed, dropped keys noted. A file is
replaced by a rename, so a write happens whole or, with `"write"` in `Faults`, not at all.
`Crash` empties a process at any step. Transcripts change, go and come back beside the threads;
a content is a number, and its fingerprint is that number. The fields `quiet` and `raced` of a
thread are for the properties: nothing disturbed this load; this shard was written under a merge.

### ListRefresh

`Begin`, `Discover`, `Read`, `NextAgent`, `Stop` are the refresh thread: for each agent it
discovers, keeps the records of what it skipped and had not changed, reads what it does not know,
and gathers updates and removals. `Append` and `Vanish` change transcripts under it at any step.
The user's handlers (`Rename`, `Delete`, `ReadOpenSession`, `LookUp`, with what covers the list:
`Open`, `Close`, `Dialog`) run beside it and note what they touched in `changed`. `Apply` waits
until nothing covers the list, then lets the user's own changes go before the refresh's and reads
the rows they left again. `Faults` names what may fail: the discovery of an agent, the listing of
one directory of it, the read of a transcript (for good, or transiently, or in a part), the thread.

### ListSelection

Rows are a sequence of sessions, the rows on screen a sequence of indices into it, the selection
an index into those, as in the code; the module is about these three staying together.
`edit_list`, `remove_selected_from_list`, `Renamed` and `SelectAnchorOrFirst` translate how each
handler moves them; `Answer` and `Filters` give any rows a search may find, in any order. Every
handler of a key drops the anchor, as `handle_key` does. `history` keeps, for the properties, the
session an edit keeps selected and the one under the viewer or the dialog. `apply_finished_refresh`
may bring any rows in any order; `complete_pending_open` opens the index that was asked for, a
frame later.

### SemanticIndex

A process is the list's worker, an agent search, or `--generate-semantic-cache`. It reads the
file when it starts and writes it whole. `Refresh` is the plan of the resident passages
(`plan_refresh`) and the lookup of their chunks (`LookUp`), which `CancelPlan` and `CancelLookUp`
cut at any slot and any chunk; `Batch` embeds the next passages, saves at the interval, at the end
and when time is up (`IsSaveDue`), and `absorb`s what it has; `StopBatch` is a cancellation or a
failure with what it still saves; `Rank` reads; `ProtectCore` ends a generate. `prune_cache`
is stated by the rank of an entry in the eviction order instead of by sorting. A passage is a
number in the order of the passages' hashes, which is the order that breaks ties.

### ReadLayout and BudgetedRead

`ReadLayout` says what a command asks for (`read_entries`: messages and runs of hidden ones, by
flags, time window and sub-agents) and what a choice of entries prints as: one header with its
atoms, a `conversation` record for each run, the entries, the records that name what is omitted or
hidden. A character is not modelled. A message has its own lengths of the records it prints under
and of those that follow it when it is shortened; every other kind of record has a length (`Size`),
a line of a body another, and a record naming ranges grows with each. `fit_bodies` shares the room
that is left among the bodies, the shortest first by the records and the body together.

A message's content is its parts' lines in the order they print (`Blocks`, `Content`). A call has
all its lines in a read of one message and its first ones alone in a read of several
(`command_lines`), so the same line has two numbers. `reread_lines` translates them: it walks the
blocks with a count of the lines shown and another of the lines `--lines` counts (`PassBlock`), and
a line of a shortened call, which has no counterpart, becomes the call's first.

`BudgetedRead` steps through `format_read_with_warnings`. `Begin` takes a command and what fits
whole; `Grow` adds an entry before and one after, `KeepTail` the entries of a tail read, each
request's last first; `Fit` shortens bodies and measures what is really printed; `OmitNext` drops
entries until that is within the budget, or refuses. The measure of the selection is an estimate
(`Fits`), that of the output is exact (`IsOverBudget`), as in the code. `Follow` and `Refused` are
the agent, which is external: it runs all the records of an answer, and raises its budget when it
was refused or shown nothing new. The properties relate what it has `seen` to what it `asked`.

## 3. Runs

| Run | Instance | Checks | States |
|---|---|---|---|
| `search_list` | two texts and a session id, every operation, 3 generations, 2 layouts, 1 row, a panic | `TypeOK`, `AnswerIsOfCurrentLayout`, `RankedOnItsOwnVersions`, `ShownQueryIsTrue` | 1,398,695 |
| `search_answered` | two texts, mode changes and refreshes, 3 generations, 2 layouts | `QueryAnswered`, `SearchEnds` (liveness) | 163,390 |
| `scan_schedule` | 3 items of every mix of sizes, 2 + 2 threads, any closure panics, spurious wakeups | `TypeOK`, `EachItemOnce`, `ReadAheadBounded`, `NoLostWakeup`, `NeverStuck`, `ReadsStartInOrder`, `NothingStartsAfterStop`, `ScanEnds` (liveness), `ImplementsInOrder` (refinement) | 326,578 |
| `session_cache` | two sessions of one shard, two threads of a process, two contents each, every starting file, failing writes and removals, crashes | `TypeOK`, `HitIsCurrent`, `NextLoadParsesNothing`, `MergeKeepsOthers` | 2,648,403 |
| `list_refresh` | one session of one of two agents, four contents, failing discoveries, reads and threads | `TypeOK`, `DeletedStaysOut`, `QuietRefreshIsComplete`, `RowsNeverGoBack`, `OnlyGoneRowsLeave` | 3,052,924 |
| `list_selection` | three sessions, every query and mode | `TypeOK`, `KeepsSelection`, `OpensWhatWasAsked`, `ShownIsSelected`, `RowsOnScreenStay` | 19,791 |
| `semantic_index` | four passages, five corpora, batches of 1, a save at 2, 3 entries, 4 accesses, one process after another | `TypeOK`, `RankedIsTrue`, `SavedWhenStopped`, `OwnPassagesStay`, `RerunIndexesMore`, `CoreIsKept` | 326,517 |
| `budgeted_read` | two sessions, 45 first commands, budgets of 8 to 45 characters, warnings of 0 or 2, calls of two and three lines that show one | `TypeOK`, `UsesItsBudget`, `NothingDropped`, `KeepsItsEnd`, `ReadToTheEnd` (liveness) | 43,292 |
| `prewarm_replaced`, `delete_under_search`, `unlistable_directory`, `delete_in_viewer` | the smallest that shows it | one property each, violated | section 5 |

*Bounds and why they are enough.*

- *Search.* Two texts are all that a comparison of queries can tell apart (the query on screen
  and one dispatched before it). Three generations let a search be superseded and superseded
  again, with one parked in the worker and one answered. Two layouts (and the first) are an old
  one, the current one and the move between. One row is enough to delete, rename and load one. One panic kills the worker at any point of the dispatch after
  it. The bound on generations is in `CanHandle` (the user stops), on layouts, rows and panics in
  the guards of the actions that make them.
- *Scan.* A bound of 2 bytes with sizes 1, 2 and unknown gives items that fit together, that fill
  the bound alone and wait for room, and that cannot be counted; three items let one wait past the
  bound while another is outstanding and one starts behind it; callers that want 0 and 3 more make
  the window shrink below what has started and grow past the end. Two threads per pool are the
  fewest that race for an item.
- *Session cache.* The sessions of one shard are what merges can lose to each other, and a second
  shard is what a load can leave unwritten. Two contents are an old and a new one, the new one
  without a conversation, so both kinds of entry occur. A second process is one whose threads do
  not share the lock; the proofs of section 6 cover any number, the run one process that crashes
  and comes back.
- *Refresh.* Sessions do not meet, except in whether every agent failed, so one session and a
  second agent whose discovery can fail beside it are enough. Four contents allow a change before,
  during and after the discovery of a refresh, and a second refresh that skips by the records of
  the first.
- *Selection.* Three sessions give a selection with a row before and after it.
- *Semantic index.* Three entries hold the passages of the largest corpus but not two corpora
  together, so that each search evicts. Batches of one with a save every second leave work unsaved
  at every other stop. The corpora share a passage, change place, change one session's content, drop
  one, list one path twice, and hold nothing. Four accesses let one process serve several corpora,
  in turn with others that read what it wrote.

- *Agent read.* One session has bodies of one to three lines, a run of hidden messages of two
  owners, a sub-agent, and a message of text, a call of three lines that shows one, and its result,
  so that a body is cut before, in and after a shortened call; the other a message outside the
  window and one without content. Records of four lengths make the order by body and the order by
  record and body differ. The commands read from the start, the end or around a focus, by lines, by
  a sub-agent, and by refs out of order. A budget of 8 refuses every read, and 45 shows most reads
  whole; every budget between is a boundary of some selection. The agent raises its budget by 6
  up to 90 (`BudgetStep`, `MaxBudget`), where none is refused.

*Symmetry.* `search_list` permutes the texts, `session_cache`, `list_selection` and
`delete_in_viewer` the sessions; no run of a liveness property uses symmetry.

*Deadlock* is checked where somebody can always act: `session_cache`, `list_refresh`,
`unlistable_directory`, `list_selection`, `delete_in_viewer`, and `budgeted_read`, where an agent
that is finished may only stay so. A list that is left alone, a scan
that has returned and an index at the bound of its access counter stop, so the other runs do not
check it. What a deadlock of their code would be is stated instead: `NeverStuck`, `NoLostWakeup`,
`ScanEnds`, `QueryAnswered`, `SearchEnds`.

## 4. Fairness

`SearchPipeline!Fairness`: a worker that can take a step does (weak fairness of each of its
steps; threads are scheduled). The loader ends (`[]<>(~app.loading)`), a handler that has begun
returns (`[]<>(app.sending = <<>>)`), and while the loop has a reason to poll it drains both
channels again and again: `receive_search_results` loops until `try_recv` fails and is called
each frame (`runtime.rs:284-305`). Without a reason to poll the loop waits for a key, so nothing
is assumed of it; nothing makes the user act, a search fail, progress come or a worker panic.

`OrderedScan!Fairness`: a thread that can run does, the caller's included, whose closures
return or panic. Nothing is assumed of spurious wakeups. `ScanEnds` counts a panic of the
caller's own closure as the end: the pools are told of a panic on their own threads only
(`StopOnUnwind`), and a reader that waits for the window may then wait for ever.

`BudgetedRead!FairSpec`: a command, which is sequential code, runs to its end, and the agent goes
on with the records it was given until there are none (or no larger budget). That is
`WF_vars(Next)`, with the states in which nothing else is enabled written out as `Finished`.

The other modules state no fairness: their properties are of safety.

## 5. Where the code and its documentation disagree

Each is a run with `expect: "violation"` whose trace shows it; `PROJECT.json`, `findings`, quotes
the line.

- `prewarm_replaced`: a prewarm that a query replaced before the worker took it keeps the event
  loop polling while idle.
- `delete_under_search`: deleting a session under a search in flight leaves the query unanswered
  until a key edits it.
- `unlistable_directory`: a directory of transcripts that cannot be listed while a refresh
  discovers makes its sessions leave the list.
- `delete_in_viewer`: an answer that arrives under the viewer selects its first row, and a delete
  confirmed in the viewer is of that session, not of the open one.

Met while modelling, without a run of their own:

- When a load ends under a text query in semantic mode, the rows are sorted and the rows on screen
  keep their indices until the search answers (`app.rs:551`, `search_state.rs:697-699`), so with
  the workspace filter on they may be rows that did not pass it.
- `omit=` names a run of omitted entries that starts and ends in one conversation as one range
  (`protocol.rs:2578`), also when the refs are out of order or another conversation lies between.
  The `continue read` records do not depend on it.
- A resident conversation that a refresh leaves alone is not looked up, so its passages keep
  their old access and age in the cache. `OwnPassagesStay` therefore speaks of what the search
  itself looked up or embedded.
- A process writes the whole cache that it read when it started. Two processes that run at once
  overwrite each other's passages, the protected core of a generate included.

## 6. Proofs

TLAPS checks these for every value of the constants that the assumptions allow.

| Theorem | States | Module |
|---|---|---|
| `TypeCorrect` | `[]TypeOK` | `SearchPipelineProofs` |
| `AnswersIndexTheList` | `[]AnswerIsOfCurrentLayout` | `SearchPipelineProofs` |
| `SpecIsSafe` | `[]IndexInv` | `SearchPipelineProofs` |
| `RowsAnswerWhatTheySay` | `[]ShownQueryIsTrue` | `SearchShownProofs` |
| `RanksItsOwnVersions` | `[]RankedOnItsOwnVersions` | `SearchShownProofs` |
| `SpecIsShown` | `[]ShownInv` | `SearchShownProofs` |
| `ScanTypeCorrect` | `[]TypeOK` | `OrderedScanProofs` |
| `NoWakeupIsLost` | `[]NoLostWakeup` | `OrderedScanProofs` |
| `ScanIsNeverStuck` | `[]NeverStuck` | `OrderedScanProofs` |
| `ScanImplementsInOrder` | `ImplementsInOrder` | `OrderedScanProofs` |
| `EachItemIsOnce` | `[]EachItemOnce` | `OrderedScanProofs` |
| `ReadAheadKeepsToTheBound` | `[]ReadAheadBounded` | `OrderedScanProofs` |
| `ScanIsSafe` | `[]ScanInv` | `OrderedScanProofs` |
| `NothingStarts` | `NothingStartsAfterStop` | `OrderedScanProofs` |
| `ReadsAreInOrder` | `ReadsStartInOrder` | `OrderedScanProofs` |
| `CacheTypeCorrect` | `[]TypeOK` | `SessionCacheProofs` |
| `HitsAreCurrent` | `[]HitIsCurrent` | `SessionCacheProofs` |
| `CacheIsHonest` | `[]HonestInv` | `SessionCacheProofs` |
| `MergesKeepOthers` | `MergeKeepsOthers` | `SessionCacheProofs` |
| `MergesAreSafe` | `[]MergeInv` | `SessionCacheProofs` |
| `NextLaunchParsesNothing` | `[]NextLoadParsesNothing` | `SessionCacheProofs` |
| `QuietLoadsAreKnown` | `[]QuietInv` | `SessionCacheProofs` |
| `TypeCorrect` | `[]TypeOK` | `ListRefreshProofs` |
| `DeletedStaysOutHolds` | `[]DeletedStaysOut` | `ListRefreshProofs` |
| `RowsNeverGoBackHolds` | `RowsNeverGoBack` | `ListRefreshProofs` |
| `OnlyGoneRowsLeaveHolds` | `OnlyGoneRowsLeave`, while directories can be listed | `ListRefreshProofs` |
| `QuietRefreshIsCompleteHolds` | `[]QuietRefreshIsComplete` | `ListRefreshProofs` |
| `SpecIsSafe` | `[]SafeInv` | `ListRefreshProofs` |
| `ListIsTyped` | `[]TypeOK` | `ListSelectionProofs` |
| `EditsKeepTheSelection` | `[]KeepsSelection` | `ListSelectionProofs` |
| `OpensTheSessionAsked` | `[]OpensWhatWasAsked` | `ListSelectionProofs` |
| `ShownSessionIsSelected` | `[]ShownIsSelected` | `ListSelectionProofs` |
| `EditsLeaveTheRowsOnScreen` | `RowsOnScreenStay` | `ListSelectionProofs` |
| `ListKeepsItsSelection` | `[]SelectionInv` | `ListSelectionProofs` |
| `StoppedIsSaved` | `[]SavedWhenStopped` | `SemanticIndexProofs` |
| `OwnPassagesAreKept` | `[]OwnPassagesStay` | `SemanticIndexProofs` |
| `RerunMakesProgress` | `[]RerunIndexesMore` | `SemanticIndexProofs` |
| `ProtectedCoreIsKept` | `CoreIsKept` | `SemanticIndexProofs` |
| `SpecInv` | `[]Inv` | `SemanticIndexProofs` |
| `TypeCorrect` | `[]TypeOK` | `SemanticIndexProofs` |
| `RankingIsTrue` | `[]RankedIsTrue` | `SemanticIndexProofs` |
| `SpecReadInv` | `[]ReadInv` | `SemanticIndexProofs` |
| `TypesHold` | `[]TypeOK` | `BudgetedReadProofs` |
| `BudgetIsAHardLimit` | `[]KeepsToItsBudget`, the first half of `UsesItsBudget` | `BudgetedReadProofs` |
| `BudgetIsUsed` | `[]UsesItsBudget` | `BudgetedReadProofs` |
| `NothingIsDropped` | `[]NothingDropped` | `BudgetedReadProofs` |
| `KeepsItsEndHolds` | `[]KeepsItsEnd` | `BudgetedReadProofs` |

*Assumptions.* `SearchPipeline`: the empty query, texts, session ids and `None` are apart, and
bounds are naturals. `OrderedScan`: more than one item, both pools finite and non-empty, no
more readers than `pools.reads`, sizes are naturals. `SessionCache`: shards are naturals and each
session has one, `Loaders` are threads, `None` and `Foreign` are no entries and `None` no content.
`ListRefresh`: there is an agent, each session has one. `ListSelection`: the sessions are finitely
many, `None` and `"text"` are none of them, and `None` is no index. `SemanticIndex`: passages are a finite set of naturals, a corpus is a
sequence of sessions with a path and their passages, batch, interval and limit are at least 1.
`BudgetedRead`: sizes and budgets are naturals, the header and a line take room, transcripts are
sequences of messages with parts of a known kind, a first command names conversations that there
are and has at most one of `--tail` and `--focus`.

*The answer indexes the list* (`IndexInv`). That an accepted answer has the current layout is
not inductive: an answer's layout is what its worker held when it answered, and the worker got
it by a message. The invariant therefore says, of every message and every worker, that
nothing in flight is newer than `App`; that the search data on its way to the lexical worker ends
with the current layout (the worker answers only when nothing is on its way); and that a
corpus whose version a search of the *current* generation asks for has the current layout.
Each handler that moves rows sends new data, a new corpus version and a new generation before
it returns; the lemmas of `App`'s functions state how much of that each call restores.

*What the list shows* (`ShownInv`). The rows' query is whatever the answer that `App` accepted says
it asked for, so the invariant speaks of everything in flight. A corpus version has one layout and a
scope version one scope, whoever holds them (`VersionsAgree`): the worker drops a search whose
versions it does not hold, so the one it ranks is on its own. At most one search of the current
generation is on its way to, at, or back from the semantic worker (`OneSearch`), and it asks either
for the prewarm that `App` waits for or for the query dispatched last (`SemanticAsks`); the lexical
channels likewise (`LexicalAsks`). A query typed over a prewarm starts a generation, so while
a prewarm of the current one is awaited the query is empty (`PrewarmAlone`, cited by
`ReceivesPrewarmedShown`).

*The scan* (`ScanInv`). The argument follows an item: untried, waiting for room, or started,
never two of these (`StartedApart`), and until the scan is cut short it is somewhere
(`NoneIsLost`). `reading` counts the readers at work (`ReadingIsCounted`, by cardinalities), and
the place past the bound is taken only by an outstanding item (`PlaceIsHeld`). If all threads
were to wait with nothing on its way to the caller, nothing would be outstanding, so the place
past the bound would be free and every item of the window claimable; the window holds the
caller's next item (`LimitIsAhead`), which therefore would have started, and would be somewhere:
a contradiction (`AtRest`, `ScanIsNeverStuck`). The same argument shows that a scan that returns
uncut has handed over all results, which the refinement needs. For the action properties, only
`claim_read` and `take_read` set a thread to work, and both look at `stopped` in the hold of the
mutex in which they claim; that the limit is the window past what was consumed
(`LimitIsWindow`) is an invariant beside `ScanInv`.

An item is read and searched once because it is in one place at a time (`OnceInv`): untried, waiting,
with a reader, ready, with a searcher, on its way to the caller, or consumed. The bytes in memory are
counted by the cardinality of a set of pairs of an item and one of its bytes (`BytesOf`), so that
what the schedule adds and subtracts is what joins and leaves that set (`BytesInv`). After a panic
the count may only be too high, which keeps the bound.

*The session cache* (`HonestInv`). A hit is current because an entry is *honest*: its stamp is no
later than the content it was parsed from, and that content no later than what the transcript
holds. An entry stamped with the present fingerprint must then hold the present content. Honesty
is stated of every place an entry can be: the shards, the old file, what a thread read, what it
carries, what it goes to write. It does not mention the lock: merges that race lose entries, and
never make a false one.

The lock is what `MergeInv` is about. From `Lock` to `Store` a merging thread holds its process's
turn, alone, and its shard is as it read it unless `raced` says that a writer without the lock came
between (a load, a migration, another process); what it stores then has all that the shard had.
`QuietInv` follows a load that nothing disturbed. At each of its steps, for every session, the current
entry is in a shard the load will not write, or in its hands for one that it will; when it ends, all
are on disk.

*The refresh* (`SafeInv`, with `RemovedWasGone` and `QuietInv` beside it). `SessionSafe` says of
one session what the refresh began with, found, read and keeps of it, in terms of the transcript:
nothing it holds is newer than the transcript, nothing older than the row it began with, and what
the user did since is in `changed`. `RowsNeverGoBack` then follows at `Apply`, the only step that
brings a reading into the list. `QuietInv` says of a refresh that nothing disturbed what it will
show: each session is unread, or updated, removed or kept as the transcript is.

*The selection* (`SelectionInv`). `KeepsSelection` is not inductive: an answer that comes after the
edit selects by the anchor, so the invariant adds that until the next key the anchor is the session
kept (`KeptInv`). For the viewer and the dialogs, the list is covered exactly while `history`
remembers a session as shown, and a row on its way to the viewer still holds that session
(`CoverInv`), which needs that no edit is applied under an opening. Each way of
replacing the rows then has one lemma: a filter selects the anchor (`FilterSelects`), an edit keeps
the sessions on screen in their order and selects the one selected before (`EditKeepsTheSelection`),
a rename finds its session again (`RenamedSelects`), a delete moves the indices behind it by one
(`RemoveKeepsTheOthers`). They rest on lemmas about sequences: that `Keep` and `RemoveAt` keep the order
and repeat nothing.

*The embedding cache* (`Inv`). Eviction keeps what a search uses, because everything the search
looked up or embedded carries the cache's last access, and all else unprotected is older: by the
eviction order the others go first, and they suffice when the search fits. That a stop
saves all follows from `completed = last_saved` exactly when the file has the whole cache. An
agent search that ran out of time embedded at least one batch, disjoint from what it found on
disk, and keeps both. A generate's core is what it embedded and what it has still to embed, and
only the core is protected.

*The resident passages* (`ReadInv`). The count kept by adding and subtracting is the
cardinality of the resident chunks, under every plan, also one cut half way; that needs the
cardinality of a union of disjoint parts (`CountOf`), and a bijection between places of the corpus
and chunks of the conversations, since `conversation_keys` are injective. A corpus that is signed
and has chunks is resident whole; while passages are embedded, every slot that is not pending is
built from the corpus's own content and stands at its place.

*The end a read keeps* (`BudgetedReadProofs!Inv`). Of an answer alone it is not inductive; of the
entries selected so far it is, with two additions. A plain read's selection is a prefix, so the
entry before its first is none and only the one after its last can join; that needs the last of a
set of entries, which well-foundedness of `<` gives. In a tail read, an entry that was considered
and is not kept is of a request that has stopped (`TailInv`), and of two entries of a request the
later is considered first (`LaterIsKeptBefore`, by cardinalities). Which entries fit plays no part,
so no estimate can break it.

*What a read keeps to and names* (`TypesHold`, `BudgetIsAHardLimit`). The code's
loops are folds, `FoldLeft` of the community modules, which is defined by a recursive function. The
library's lemmas about it take operators, so `BudgetedReadProofs` states its own (`FoldsBy`,
`FoldsWithin`): a fold is the last of a function on the prefixes that starts with the base and goes
on by one named step, which is why the steps (`AddMessage`, `PushSpan`, `ShareRoom`) are operators
of their own. An invariant of the fold is then by induction on the prefix. `Sorted` is shown to list
each element of a set once and in order (`SortedIs`), sums over a set to be what they are with one
element taken out (`SumTakesOut`). From there: the entries of a read are a sequence of messages and
runs of its requests; shortened bodies are shortened within their length (`TypeInv`); an answer
was measured by the last step before it (`WithinBudget`); every omitted span has its record, which
asks for the flags that show its messages.

*The lines a shortened body leaves out* (`NothingIsDropped`). The record after it numbers lines as
another read will, one of the message alone, with its calls whole. `Covers` says of a prefix of the
blocks where the two counts of `reread_lines` stand: the content so far has as many lines as the
one, that of the read alone as many as the other, and once the first line to reread is set, each
line of the content from the first not shown on is among those from there. Passing a block keeps
this (`PassBlockCovers`), because a call's lines are the first of its whole ones and it is reread
from its start, so the fold over all the blocks has it (`WalkCovers`).

*The room is shared* (`BudgetIsUsed`). The invariant of the fold that shares the room (`SharesAll`)
says that what the bodies hold, those not yet fitted at their floors, and the extra room add up to
what they were (`FittedWithinLimit`), so that where the floors fit the bodies fitted do; and that the
extra room is at least an even share for each body left, since a body takes its share or less
(`ShareLeaves`). A body that is shortened had no less than that share beyond its floor
(`FitsShare`), and `truncated_to_fit` keeps the most that fits in it. Neither the order of the bodies
nor the lengths of their records play a part. That no room at all is left is not so, and not
claimed: a body later in the order may have no use for what an earlier one was cut by.

*Only model-checked.* Liveness (`QueryAnswered`, `SearchEnds`, `ScanEnds`, `ReadToTheEnd`), which is out of
TLAPS's reach here. Every invariant and action property that a run checks is stated by a theorem.

## 7. What is not modelled

- Text: parsing of transcripts, query parsing, matching, chunking, ranking, evidence, previews,
  markdown, rendering, export. Sequential functions from text to text, or floating-point
  arithmetic; the repository's unit tests and fixtures cover them. Where a result of theirs
  decides control (which rows match, whether a placeholder has rows, how long a search takes,
  whether a transcript holds a conversation), the models choose it nondeterministically. This is
  by far the largest part of the code: the providers and formats of each agent, the
  search and outlines of the agent commands, and the drawing of the screen.
- I/O: model download, SQLite, self-update, terminal, pager, command line.
- *Search:* ranking time, resizing and redraws. *Scan:* the sequential path for one item or
  for one thread in each pool, which shares no state. *Session cache:* temporary files and their
  sweep, which no reader sees; the write of a foreign schema, which reads as an empty shard.
  *Refresh:* titles kept beside transcripts, files that two agents list. *Selection:* clicks in
  the menu, the workspace filter, resume and fork (they end the program), paging. *Semantic index:*
  the embeddings themselves and their validation, the file's header, a write that fails.
  *Agent read:* reads of one call and of the lines that match a query; `day` and `same=` records.
  The records of calls and results inside a message are part of the one length of its records
  (`record`, `omitted`), the same however much of the body is kept: in the code a call's record is
  printed when its block begins, a shortened body's record may name the calls dropped, and numbers
  take more digits as they grow. All runs of hidden messages have one length. The lines a call shows
  in a read of several messages are the first of its whole ones; the command's own cut of a long
  first line is left out.
- *Search:* the dispatch of a query typed over a prewarm in the prewarm's own generation
  (`search_state.rs:452-457`). No state reaches it, since every edit of the query starts a generation
  (section 6, `PrewarmAlone`); were it reached, the code would start a second worker there and then
  put back the channel of the first (line 477). And a query of quotes around nothing (section 2).
- A session looked up by its id while the list still loads: `SearchPipeline` counts rows,
  `ListSelection` starts from a loaded list. `PROJECT.json` lists it as a hazard without a
  property.
- Streaming of rows from the loader to the list (`loader.rs`), but for what it does to a search.

`components` in `PROJECT.json` says of each part which of these applies.

## 8. Plan

Done: the modules of section 2, with the theorems of section 6. Left, in the order of importance:

1. An abstract search (query, answer, list) that `SearchPipeline` implements.
2. Agent read: the budgets of the outlines and of search results.
3. The loader's stream of rows composed with `ListSelection`, for lookups while the list loads.
