---------------------------- MODULE ListRefresh ----------------------------
(***************************************************************************)
(* The list's refresh (Ctrl+R): a thread discovers every agent's sessions  *)
(* again and reads those that changed (src/src/history/refresh.rs), while  *)
(* the user renames, deletes, opens and looks up sessions; its changes are *)
(* applied when nothing covers the list (src/src/tui/app/refresh_state.rs).*)
(*                                                                         *)
(* A row is the session it shows, what it holds of it, and the fingerprint *)
(* it was found with.  A transcript's n-th content is the number n; its    *)
(* fingerprint changes with each, and no content comes back.  The order of *)
(* the rows and the selection are left out, and so are titles that an      *)
(* agent keeps beside its transcripts, and files that two agents list.     *)
(***************************************************************************)
EXTENDS Integers, FiniteSets

CONSTANTS
  Sessions,    (* by path                                                  *)
  Agents,      (* the registered providers                                 *)
  AgentOf,     (* whose session each is                                    *)
  MaxText,     (* bounds how often a transcript changes                    *)
  Faults,      (* what may fail                                            *)
  None

ASSUME AgentAssumption == Agents # {} /\ AgentOf \in [Sessions -> Agents]

ASSUME BoundAssumption ==
  /\ MaxText \in Nat \ {0}
  /\ Faults \subseteq {"discovery", "directory", "read", "thread"}

VARIABLES
  disk,       (* the transcripts                                           *)
  rows,       (* App.conversations                                         *)
  skipped,    (* App.skipped_sessions                                      *)
  dialog,     (* is a dialog open                                          *)
  open,       (* the session in the viewer, from the request to open it    *)
  changed,    (* App.changed_during_refresh                                *)
  refresh,    (* the refresh thread                                        *)
  history     (* for the properties                                        *)

vars == <<disk, rows, skipped, dialog, open, changed, refresh, history>>

Text == 1 .. MaxText
Stamp == Text \cup {None}

(* What a transcript holds: a conversation, one with no message within the *)
(* time filter, none, or what no reader of the agent's format can read.    *)
Kind == {"listed", "outside", "empty", "bad"}
Transcript == [there : BOOLEAN, text : Text, kind : Kind]

(* A row that is not whole has_transient_read_error: a part of it, such as *)
(* a sub-agent's transcript, could not be read.                            *)
Row == [stamp : Text, text : Text, whole : BOOLEAN]
Rows == [Sessions -> Row \cup {None}]

ASSUME NoneAssumption == None \notin Nat \cup Sessions \cup Row

(* The stamp at which a session was skipped, if it was.  One recorded with *)
(* a transient read error has none: is_unchanged holds of no stamp then.   *)
Skipped == [unlisted : [Sessions -> Stamp], unreadable : [Sessions -> Stamp]]
NoStamps == [s \in Sessions |-> None]
NoneSkipped == [unlisted |-> NoStamps, unreadable |-> NoStamps]

NoRows == [s \in Sessions |-> None]

Listed == {s \in Sessions : rows[s] # None}
Of(a) == {s \in Sessions : AgentOf[s] = a}

Refresh ==
  [pc      : {"idle", "discover", "read", "done"},
   rows    : Rows,                 (* KnownSessions.listed                 *)
   known   : Skipped,              (* KnownSessions.skipped                *)
   left    : SUBSET Agents,        (* agents not yet discovered            *)
   failed  : SUBSET Agents,
   found   : [Sessions -> Stamp],
   unread  : SUBSET Sessions,      (* picked by needs_reading              *)
   updated : Rows,
   removed : SUBSET Sessions,
   skipped : Skipped]

Idle ==
  [pc |-> "idle", rows |-> NoRows, known |-> NoneSkipped, left |-> {},
   failed |-> {}, found |-> NoStamps, unread |-> {}, updated |-> NoRows,
   removed |-> {}, skipped |-> NoneSkipped]

(* `quiet`: since the last refresh began, or the load, no transcript has   *)
(* changed and nothing has failed.  `missing`: the sessions that were gone *)
(* or held no conversation at some time since the refresh began.           *)
(* `deleted`: those the user deleted and no agent has written since.       *)
History ==
  [quiet : BOOLEAN, missing : SUBSET Sessions, deleted : SUBSET Sessions]

covered == dialog \/ open # None
is_refreshing == refresh.pc # "idle"

IsMissing(transcript) == ~transcript.there \/ transcript.kind = "empty"
Missing(transcripts) == {s \in Sessions : IsMissing(transcripts[s])}

(* The list as a load leaves it.                                           *)
Init ==
  /\ disk \in [Sessions -> [there : BOOLEAN, text : {1}, kind : Kind]]
  /\ rows = [s \in Sessions |->
       IF disk[s].there /\ disk[s].kind = "listed"
       THEN [stamp |-> 1, text |-> 1, whole |-> TRUE] ELSE None]
  /\ skipped =
       [unlisted |-> [s \in Sessions |->
          IF disk[s].there /\ disk[s].kind \in {"outside", "empty"}
          THEN 1 ELSE None],
        unreadable |-> [s \in Sessions |->
          IF disk[s].there /\ disk[s].kind = "bad" THEN 1 ELSE None]]
  /\ dialog = FALSE /\ open = None /\ changed = {} /\ refresh = Idle
  /\ history = [quiet |-> TRUE, missing |-> {}, deleted |-> {}]

-----------------------------------------------------------------------------
(* Transcripts *)

Becomes(s, transcript) ==
  /\ disk' = [disk EXCEPT ![s] = transcript]
  /\ history' = [quiet   |-> FALSE,
                 missing |-> history.missing \cup Missing(disk'),
                 deleted |-> history.deleted \ {s}]

(* An agent begins a session or goes on with it.                           *)
Append(s) ==
  /\ disk[s].text < MaxText
  /\ \E kind \in Kind :
       Becomes(s, [there |-> TRUE, text |-> disk[s].text + 1, kind |-> kind])
  /\ UNCHANGED <<rows, skipped, dialog, open, changed, refresh>>

(* Another program deletes it.                                             *)
Vanish(s) ==
  /\ disk[s].there
  /\ Becomes(s, [disk[s] EXCEPT !.there = FALSE])
  /\ UNCHANGED <<rows, skipped, dialog, open, changed, refresh>>

-----------------------------------------------------------------------------
(* Reads *)

Fails(what) == what \in Faults

(* What parsing a transcript may give; "partial" is a row read with a      *)
(* transient error.  A transcript that is gone fails as an unreadable one. *)
Reads(transcript) ==
  (CASE ~transcript.there \/ transcript.kind = "bad" -> {"permanent"}
     [] transcript.there /\ transcript.kind = "empty" -> {"empty"}
     [] OTHER -> {"listed"} \cup (IF Fails("read") THEN {"partial"} ELSE {}))
  \cup (IF Fails("read") THEN {"transient"} ELSE {})

(* reread, after a discovery of its own: a session it does not find gives  *)
(* nothing, and one it cannot look for may still be there.                 *)
Rereads(transcript) ==
  (IF transcript.there THEN Reads(transcript) ELSE {"gone"})
  \cup (IF Fails("discovery") \/ Fails("directory") \/ Fails("read")
        THEN {"transient"} ELSE {})

IsRow(read) == read \in {"listed", "partial"}

RowOf(stamp, transcript, read) ==
  [stamp |-> stamp, text |-> transcript.text, whole |-> read = "listed"]

(* For a mutant: a session that is gone leaves a row of nothing.           *)
RereadToNothing(row, transcript, read) ==
  CASE IsRow(read) -> RowOf(transcript.text, transcript, read)
    [] read \in {"gone", "empty"} -> [stamp |-> 0, text |-> 0, whole |-> TRUE]
    [] OTHER -> row

IsWhole(row) == row # None => row.whole

(* A row read again: replaced, removed, or left as it was by a failed read.*)
Reread(row, transcript, read) ==
  CASE IsRow(read) -> RowOf(transcript.text, transcript, read)
    [] read \in {"gone", "empty"} -> None
    [] OTHER -> row

-----------------------------------------------------------------------------
(* The user *)

(* For a mutant: a session that the refresh does not know is not noted.    *)
NotedIfKnown(s) ==
  IF is_refreshing /\ refresh.rows[s] # None THEN changed \cup {s} ELSE changed

(* note_changed_during_refresh                                             *)
Noted(s) == IF is_refreshing THEN changed \cup {s} ELSE changed

(* A dialog opens, over the list or the viewer, or closes.                 *)
Dialog ==
  /\ dialog' = ~dialog
  /\ UNCHANGED <<disk, rows, skipped, open, changed, refresh, history>>

(* request_open, open_conversation                                         *)
Open(s) ==
  /\ ~covered /\ s \in Listed
  /\ open' = s
  /\ UNCHANGED <<disk, rows, skipped, dialog, changed, refresh, history>>

(* exit_view_mode                                                          *)
Close ==
  /\ ~dialog /\ open # None
  /\ open' = None
  /\ UNCHANGED <<disk, rows, skipped, dialog, changed, refresh, history>>

(* submit_rename and show_renamed_session: the agent's transcript gets the *)
(* title, and its row is read again.  The dialog stays when the session    *)
(* turns out gone or empty.                                                *)
Rename(s) ==
  /\ dialog /\ s \in Listed /\ disk[s].there /\ disk[s].text < MaxText
  /\ Becomes(s, [disk[s] EXCEPT !.text = @ + 1])
  /\ changed' = Noted(s)
  /\ \E read \in Rereads(disk'[s]) :
       IF read \in {"gone", "empty"}
       THEN UNCHANGED <<rows, dialog>>
       ELSE /\ rows' = [rows EXCEPT ![s] = Reread(@, disk'[s], read)]
            /\ dialog' = FALSE
  /\ UNCHANGED <<skipped, open, refresh>>

(* Action::Delete, remove_selected_from_list                               *)
Delete(s) ==
  /\ dialog /\ s \in Listed /\ disk[s].there
  /\ disk' = [disk EXCEPT ![s].there = FALSE]
  /\ history' = [quiet   |-> FALSE,
                 missing |-> history.missing \cup Missing(disk'),
                 deleted |-> history.deleted \cup {s}]
  /\ rows' = [rows EXCEPT ![s] = None]
  /\ changed' = Noted(s)
  /\ dialog' = FALSE /\ open' = None
  /\ UNCHANGED <<skipped, refresh>>

(* refresh_open_session: Ctrl+R in the viewer.  The viewer closes on a     *)
(* session that is gone or empty.                                          *)
ReadOpenSession(s) ==
  /\ s = open /\ changed' = Noted(s)
  /\ IF s \notin Listed
     THEN open' = None /\ UNCHANGED rows
     ELSE \E read \in Rereads(disk[s]) :
            /\ rows' = [rows EXCEPT ![s] = Reread(@, disk[s], read)]
            /\ open' = IF rows'[s] = None THEN None ELSE open
  /\ history' = [history EXCEPT !.quiet = @ /\ IsWhole(rows'[s])]
  /\ UNCHANGED <<disk, skipped, dialog, refresh>>

(* load_session_by_id: the query is the id of a session without a row.     *)
LookUp(s) ==
  /\ ~covered /\ s \notin Listed /\ disk[s].there
  /\ \E read \in Reads(disk[s]) :
       /\ IsRow(read)
       /\ rows' = [rows EXCEPT ![s] = RowOf(disk[s].text, disk[s], read)]
  /\ changed' = Noted(s)
  /\ history' = [history EXCEPT !.quiet = @ /\ IsWhole(rows'[s])]
  /\ UNCHANGED <<disk, skipped, dialog, open, refresh>>

-----------------------------------------------------------------------------
(* The refresh *)

(* begin_refresh                                                           *)
Begin ==
  /\ ~covered /\ ~is_refreshing
  /\ refresh' = [Idle EXCEPT !.pc = "discover", !.rows = rows,
                             !.known = skipped, !.left = Agents]
  /\ history' = [history EXCEPT !.quiet = TRUE, !.missing = Missing(disk)]
  /\ UNCHANGED <<disk, rows, skipped, dialog, open, changed>>

IsUnchanged(stamp, found) == stamp # None /\ stamp = found

(* For a mutant: a session once skipped is skipped for good.               *)
IsKnownByName(s, found) ==
  \/ refresh.rows[s] # None /\ IsUnchanged(refresh.rows[s].stamp, found)
                            /\ refresh.rows[s].whole
  \/ refresh.known.unlisted[s] # None
  \/ refresh.known.unreadable[s] # None

(* KnownSessions::is_unchanged                                             *)
IsKnown(s, found) ==
  \/ refresh.rows[s] # None /\ IsUnchanged(refresh.rows[s].stamp, found)
                            /\ refresh.rows[s].whole
  \/ IsUnchanged(refresh.known.unlisted[s], found)
  \/ IsUnchanged(refresh.known.unreadable[s], found)

(* Entries of `these` sessions are taken over from what was known.         *)
Keep(stamps, known, these) ==
  [s \in Sessions |-> IF s \in these THEN known[s] ELSE stamps[s]]
KeepSkipped(unlisted, unreadable) ==
  [unlisted |-> Keep(refresh.skipped.unlisted, refresh.known.unlisted, unlisted),
   unreadable |->
     Keep(refresh.skipped.unreadable, refresh.known.unreadable, unreadable)]

(* keep_unchanged                                                          *)
KeepUnchanged(found) ==
  KeepSkipped(
    {s \in Sessions : IsUnchanged(refresh.known.unlisted[s], found[s])},
    {s \in Sessions : IsUnchanged(refresh.known.unreadable[s], found[s])})

(* rediscover and the start of absorb, for one agent.  A directory that    *)
(* cannot be listed hides its sessions.                                    *)
Discover(a) ==
  LET there == {s \in Of(a) : disk[s].there} IN
  /\ refresh.pc = "discover" /\ a \in refresh.left
  /\ \E seen \in (IF Fails("directory") THEN SUBSET there ELSE {there}) :
       LET found == [s \in Sessions |->
                       IF s \in seen THEN disk[s].text ELSE None]
       IN /\ refresh' =
               [refresh EXCEPT
                 !.pc = "read", !.left = @ \ {a}, !.found = found,
                 !.unread = {s \in seen : ~IsKnown(s, found[s])},
                 !.skipped = KeepUnchanged(found),
                 !.removed = @ \cup {s \in Of(a) \ seen : refresh.rows[s] # None}]
          /\ history' = [history EXCEPT !.quiet = @ /\ seen = there]
  /\ UNCHANGED <<disk, rows, skipped, dialog, open, changed>>

(* For a mutant: it is taken for one that finds no session.                *)
FailDiscoveryAsEmpty(a) ==
  /\ refresh.pc = "discover" /\ a \in refresh.left /\ Fails("discovery")
  /\ refresh' = [refresh EXCEPT
       !.left = @ \ {a},
       !.removed = @ \cup {s \in Of(a) : refresh.rows[s] # None}]
  /\ history' = [history EXCEPT !.quiet = FALSE]
  /\ UNCHANGED <<disk, rows, skipped, dialog, open, changed>>

(* An agent whose discovery fails keeps its rows and what it skips.        *)
FailDiscovery(a) ==
  /\ refresh.pc = "discover" /\ a \in refresh.left /\ Fails("discovery")
  /\ refresh' = [refresh EXCEPT !.left = @ \ {a}, !.failed = @ \cup {a},
                                !.skipped = KeepSkipped(Of(a), Of(a))]
  /\ history' = [history EXCEPT !.quiet = FALSE]
  /\ UNCHANGED <<disk, rows, skipped, dialog, open, changed>>

(* absorb, of one session read.  A new one joins when it has a message     *)
(* within the time filter; a listed one stays.                             *)
Absorb(s, read) ==
  LET found == refresh.found[s]
      row == RowOf(found, disk[s], read)
      joins == refresh.rows[s] # None \/ disk[s].kind = "listed"
  IN [refresh EXCEPT
       !.unread = @ \ {s},
       !.updated[s] = IF IsRow(read) /\ joins THEN row ELSE @,
       !.removed = IF read = "empty" /\ refresh.rows[s] # None
                   THEN @ \cup {s} ELSE @,
       !.skipped.unlisted[s] =
         CASE read = "listed" /\ ~joins -> row.stamp
           [] read = "partial" /\ ~joins -> None
           [] read = "empty" -> found
           [] OTHER -> @,
       !.skipped.unreadable[s] = IF read = "permanent" THEN found ELSE @]

Read(s) ==
  /\ refresh.pc = "read" /\ s \in refresh.unread
  /\ \E read \in Reads(disk[s]) :
       /\ refresh' = Absorb(s, read)
       /\ history' = [history EXCEPT
                        !.quiet = @ /\ read \notin {"transient", "partial"}]
  /\ UNCHANGED <<disk, rows, skipped, dialog, open, changed>>

NextAgent ==
  /\ \/ refresh.pc = "read" /\ refresh.unread = {}
     \/ refresh.pc = "discover" /\ refresh.left = {}
  /\ refresh' = [refresh EXCEPT
       !.pc = IF refresh.left = {} THEN "done" ELSE "discover"]
  /\ UNCHANGED <<disk, rows, skipped, dialog, open, changed, history>>

(* The thread ends without an outcome: a failed refresh.                   *)
Stop ==
  /\ refresh.pc \in {"discover", "read"} /\ Fails("thread")
  /\ refresh' = [refresh EXCEPT !.pc = "done", !.failed = Agents]
  /\ history' = [history EXCEPT !.quiet = FALSE]
  /\ UNCHANGED <<disk, rows, skipped, dialog, open, changed>>

(* For a mutant: its removals spare what the user changed, its rows do not.*)
ChangesOverUser(reads) ==
  [s \in Sessions |->
    CASE s \in changed /\ rows[s] # None /\ refresh.updated[s] = None ->
           Reread(rows[s], disk[s], reads[s])
      [] refresh.updated[s] # None -> refresh.updated[s]
      [] s \in refresh.removed /\ s \notin changed -> None
      [] OTHER -> rows[s]]

(* apply_session_changes: the user's own changes go before the refresh's,  *)
(* and a row they left is read again.                                      *)
Changes(reads) ==
  [s \in Sessions |->
    CASE s \in changed ->
           IF rows[s] # None THEN Reread(rows[s], disk[s], reads[s]) ELSE None
      [] s \notin changed /\ s \in refresh.removed -> None
      [] /\ s \notin changed \cup refresh.removed
         /\ refresh.updated[s] # None
         /\ (rows[s] # None) = (refresh.rows[s] # None) -> refresh.updated[s]
      [] OTHER -> rows[s]]

(* receive_refresh, finish_refresh and apply_finished_refresh              *)
Apply ==
  /\ refresh.pc = "done" /\ ~covered
  /\ refresh' = Idle /\ changed' = {}
  /\ IF refresh.failed = Agents
     THEN UNCHANGED <<rows, skipped, history>>
     ELSE \E reads \in [changed \cap Listed ->
                          UNION {Rereads(disk[s]) : s \in changed \cap Listed}] :
            /\ \A s \in changed \cap Listed : reads[s] \in Rereads(disk[s])
            /\ rows' = Changes(reads)
            /\ skipped' = [refresh.skipped EXCEPT
                 !.unlisted = [s \in Sessions |->
                                 IF rows'[s] # None THEN None ELSE @[s]]]
            /\ history' = [history EXCEPT
                 !.quiet = @ /\ \A s \in DOMAIN reads :
                                   reads[s] \notin {"transient", "partial"}]
  /\ UNCHANGED <<disk, dialog, open>>

Thread ==
  \/ \E a \in Agents : Discover(a) \/ FailDiscovery(a)
  \/ \E s \in Sessions : Read(s)
  \/ NextAgent \/ Stop

User(s) == Open(s) \/ Rename(s) \/ Delete(s) \/ ReadOpenSession(s) \/ LookUp(s)

Next ==
  \/ \E s \in Sessions : Append(s) \/ Vanish(s) \/ User(s)
  \/ Dialog \/ Close \/ Begin \/ Thread \/ Apply

Spec == Init /\ [][Next]_vars

-----------------------------------------------------------------------------
(* Properties *)

TypeOK ==
  /\ disk \in [Sessions -> Transcript]
  /\ rows \in Rows
  /\ skipped \in Skipped
  /\ dialog \in BOOLEAN /\ open \in Sessions \cup {None}
  /\ changed \subseteq Sessions
  /\ refresh \in Refresh
  /\ history \in History

(* A session the user deleted stays out of the list, however long ago a    *)
(* refresh read it (note_changed_during_refresh), until an agent writes it *)
(* again.                                                                  *)
DeletedStaysOut == history.deleted \cap Listed = {}

(* A row never shows less of its session than it did: a refresh that read  *)
(* it before the user renamed it, opened it again or looked it up does not *)
(* bring the older reading back (apply_session_changes's comment).         *)
RowsNeverGoBack ==
  [][\A s \in Listed :
       rows'[s] # None => rows'[s].text >= rows[s].text]_vars

(* What the list should show of a session: its content, whole, when it can *)
(* be listed, nothing when it is gone or empty.  One that cannot be read   *)
(* keeps the row it had, and one outside the time filter may be shown.     *)
IsUpToDate(s) ==
  CASE IsMissing(disk[s]) -> rows[s] = None
    [] ~IsMissing(disk[s]) /\ disk[s].kind = "listed" ->
         rows[s] = [stamp |-> disk[s].text, text |-> disk[s].text, whole |-> TRUE]
    [] ~IsMissing(disk[s]) /\ disk[s].kind = "outside" ->
         rows[s] # None => rows[s].text = disk[s].text
    [] OTHER -> TRUE

(* A refresh while which nothing changed and nothing failed leaves the     *)
(* list as the transcripts are, whatever earlier refreshes met: nothing    *)
(* recorded as unlisted, unreadable or read hides a later change.          *)
QuietRefreshIsComplete ==
  ~is_refreshing /\ history.quiet => \A s \in Sessions : IsUpToDate(s)

(* A row leaves the list only when its session was seen gone, or without a *)
(* conversation: a refresh drops no row for an agent that could not be     *)
(* discovered, a read that failed, or a thread that stopped                *)
(* (SessionChanges.removed's comment).                                     *)
OnlyGoneRowsLeave ==
  [][\A s \in Listed :
       rows'[s] = None => s \in history'.missing \cup Missing(disk')]_vars
=============================================================================
