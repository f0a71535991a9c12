--------------------------- MODULE ListSelection ---------------------------
(***************************************************************************)
(* Which session the list's keys act on.  The list keeps the rows as a     *)
(* sequence, the rows on screen as indices into it, and the selection as   *)
(* an index into those (src/src/tui/app.rs).  A refresh, a delete and a    *)
(* session read again edit the rows; an answer to a search replaces the    *)
(* rows on screen, whatever is open over the list.  The selection stays on *)
(* its session by an anchor that the next key press drops.                 *)
(*                                                                         *)
(* A row is its session.  Which rows a query matches is not modelled, and  *)
(* neither are the searches that an answer outruns (SearchPipeline) or     *)
(* what a refresh finds (ListRefresh).                                     *)
(***************************************************************************)
EXTENDS Integers, SequencesExt, FiniteSets

CONSTANTS
  Sessions,    (* by path                                                  *)
  None

ASSUME SessionAssumption ==
  /\ IsFiniteSet(Sessions) /\ None \notin Sessions /\ None \notin Nat
  /\ "text" \notin Sessions \cup {None}

VARIABLES
  rows,        (* App.conversations                                        *)
  filtered,    (* indices into rows, as the list shows them                *)
  selected,    (* an index into filtered                                   *)
  anchor,      (* App.selection_anchor                                     *)
  mode,        (* App.list_search_mode                                     *)
  query,       (* none, a session's id, or any other text                 *)
  searching,   (* is an answer awaited that the list will take             *)
  pending,     (* App.pending_open, an index into rows                     *)
  open,        (* the session in the viewer                                *)
  dialog,      (* App.dialog_mode                                          *)
  refresh,     (* App.refresh                                              *)
  history      (* for the properties                                       *)

list == <<rows, filtered, selected, anchor>>
search == <<mode, query, searching>>
cover == <<pending, open, dialog>>
vars == <<list, search, cover, refresh, history>>

(* `kept`: the session an edit of the list keeps selected, until the next  *)
(* key.  `shown`: the session in the viewer or on its way there, or the    *)
(* one selected when a dialog covered the list.  `lost`: since then an     *)
(* answer has replaced the rows, or they have been without that session.   *)
History ==
  [kept : Sessions \cup {None}, shown : Sessions \cup {None}, lost : BOOLEAN]

is_covered == pending # None \/ open # None \/ dialog # "none"
is_on_list == ~is_covered

OnScreen == [i \in DOMAIN filtered |-> rows[filtered[i]]]

(* What is at some places of a sequence, in its order.                     *)
InOrder(places) ==
  CHOOSE f \in [1 .. Cardinality(places) -> places] :
    \A i, j \in 1 .. Cardinality(places) : i < j => f[i] < f[j]
Keep(s, places) == [i \in 1 .. Cardinality(places) |-> s[InOrder(places)[i]]]

(* The row of a session, or 0.                                             *)
RowOf(conversations, s) == SelectInSeq(conversations, LAMBDA t : t = s)

(* get_selected_path                                                       *)
SelectedPath == IF selected = None THEN None ELSE OnScreen[selected]

Init ==
  /\ rows \in SetToSeqs(Sessions) /\ filtered = [i \in DOMAIN rows |-> i]
  /\ selected = (IF rows = <<>> THEN None ELSE 1) /\ anchor = None
  /\ mode \in {"lexical", "semantic"} /\ query = None /\ searching = FALSE
  /\ pending = None /\ open = None /\ dialog = "none" /\ refresh = "idle"
  /\ history = [kept |-> None, shown |-> None, lost |-> FALSE]

(* What a step leaves in history.                                          *)
Records(kept, lost) ==
  LET shown == CASE ~is_covered' -> None
                 [] is_covered' /\ history.shown # None -> history.shown
                 [] OTHER -> SelectedPath'
  IN history' =
       [kept |-> kept, shown |-> shown,
        lost |-> is_covered' /\ \/ history.lost \/ lost
                                \/ shown \notin Range(OnScreen')]

(* handle_key                                                              *)
drop_anchor == anchor' = None
Pressed == Records(None, FALSE)

(* select_anchor_or_first                                                  *)
SelectAnchorOrFirst ==
  LET at == {i \in DOMAIN filtered' : OnScreen'[i] = anchor'} IN
  selected' = CASE filtered' = <<>> -> None
                [] at # {} -> CHOOSE i \in at : TRUE
                [] OTHER -> 1

apply_filtered(indices) == filtered' = indices /\ SelectAnchorOrFirst

(* What a search of these rows may find, in the order it ranks them.       *)
Matches(conversations) == SetToAllKPermutations(DOMAIN conversations)

(* look_up_session: a session without a row gets one, if it can be loaded. *)
LookUps(conversations, s) ==
  IF Contains(conversations, s)
  THEN {<<conversations, <<RowOf(conversations, s)>>>>}
  ELSE {<<conversations, <<>>>>,
        <<Append(conversations, s), <<Len(conversations) + 1>>>>}

(* The rows, and those on screen, after update_filter.                     *)
Filters(conversations, sought) ==
  CASE sought = None ->
         {<<conversations, [i \in DOMAIN conversations |-> i]>>}
    [] sought \in Sessions -> LookUps(conversations, sought)
    [] OTHER -> {conversations} \X Matches(conversations)

update_filter(conversations, sought) ==
  \E found \in Filters(conversations, sought) :
    rows' = found[1] /\ apply_filtered(found[2])

(* It leaves the rows of a semantic search as they are.                    *)
waits == mode = "semantic" /\ query = "text"

-----------------------------------------------------------------------------
(* The list's keys, mouse and searches *)

Select ==
  /\ drop_anchor
  /\ is_on_list
  /\ \E i \in DOMAIN filtered : selected' = i
  /\ UNCHANGED <<rows, filtered, search, cover, refresh>>
  /\ Pressed

(* dispatch_search: text is sent to a worker, unless it is typed back to   *)
(* the one on screen; the rest is answered at once.                        *)
dispatch_search(settled) ==
  IF query' = "text"
  THEN searching' \in {TRUE, ~settled} /\ UNCHANGED <<rows, filtered, selected>>
  ELSE searching' = FALSE /\ update_filter(rows, query')

Type ==
  /\ drop_anchor
  /\ is_on_list /\ query' \in Sessions \cup {None, "text"}
  /\ dispatch_search(TRUE)
  /\ UNCHANGED <<mode, cover, refresh>>
  /\ Pressed

(* toggle_list_search_mode                                                 *)
Toggle ==
  /\ drop_anchor
  /\ is_on_list
  /\ mode' = IF mode = "lexical" THEN "semantic" ELSE "lexical"
  /\ UNCHANGED <<query, cover, refresh>>
  /\ IF query = None /\ mode' = "semantic"
     THEN searching' = FALSE /\ UNCHANGED <<rows, filtered, selected>>
     ELSE dispatch_search(FALSE)
  /\ Pressed

(* receive_search_results: lexical rows may stand in for a semantic answer *)
(* until it comes.                                                         *)
Answer ==
  /\ searching /\ UNCHANGED <<rows, anchor>>
  /\ \E found \in Matches(rows) :
       /\ apply_filtered(found)
       /\ searching' \in (IF mode = "semantic" /\ found # <<>>
                          THEN BOOLEAN ELSE {FALSE})
  /\ UNCHANGED <<mode, query, cover, refresh>>
  /\ Records(history.kept, is_covered)

-----------------------------------------------------------------------------
(* The viewer and the dialogs *)

request_open ==
  /\ drop_anchor
  /\ is_on_list /\ selected # None
  /\ pending' = filtered[selected]
  /\ UNCHANGED <<rows, filtered, selected, search, open, dialog, refresh>>
  /\ Pressed

(* A transcript that cannot be parsed stays closed.                        *)
complete_pending_open ==
  /\ pending # None /\ pending' = None
  /\ open' \in {None, rows[pending]}
  /\ UNCHANGED <<list, search, dialog, refresh>>
  /\ Records(history.kept, FALSE)

exit_view_mode ==
  /\ drop_anchor
  /\ open # None /\ dialog = "none" /\ open' = None
  /\ UNCHANGED <<rows, filtered, selected, search, pending, dialog, refresh>>
  /\ Pressed

(* Ctrl+X, an action chosen from the menu, the rename key, or Esc.  With   *)
(* no session selected the menu offers nothing.  A click in the menu, which*)
(* keeps the anchor, is left out.                                          *)
Dialog ==
  /\ drop_anchor
  /\ pending = None
  /\ CASE dialog = "none" -> selected # None /\ dialog' \in {"menu", "rename"}
       [] dialog = "menu" ->
            dialog' \in {"none", "confirm"}
                        \cup (IF selected # None THEN {"rename"} ELSE {})
       [] OTHER -> dialog' = "none"
  /\ UNCHANGED <<rows, filtered, selected, search, pending, open, refresh>>
  /\ Pressed

(* For a mutant: the rows on screen keep the indices of the rows before.   *)
RemoveFromRowsOnly ==
  /\ rows' = RemoveAt(rows, filtered[selected])
  /\ filtered' = SelectSeq(filtered, LAMBDA i : i # filtered[selected])
  /\ selected' = CASE filtered' = <<>> -> None
                   [] selected \in DOMAIN filtered' -> selected
                   [] OTHER -> Len(filtered')

(* remove_selected_from_list                                               *)
remove_selected_from_list ==
  LET gone == filtered[selected]
      others == Keep(filtered, {i \in DOMAIN filtered : filtered[i] # gone})
  IN /\ rows' = RemoveAt(rows, gone)
     /\ filtered' = [i \in DOMAIN others |->
                       IF others[i] > gone THEN others[i] - 1 ELSE others[i]]
     /\ selected' = CASE others = <<>> -> None
                      [] selected \in DOMAIN others -> selected
                      [] OTHER -> Len(others)

(* Yes to a delete: it removes the selected session, or fails.             *)
Confirm ==
  /\ drop_anchor
  /\ dialog = "confirm" /\ dialog' = "none"
  /\ \/ /\ selected # None
        /\ remove_selected_from_list
        /\ open' = None /\ searching' = FALSE
     \/ UNCHANGED <<rows, filtered, selected, open, searching>>
  /\ UNCHANGED <<mode, query, pending, refresh>>
  /\ Pressed

(* For a mutant: the selection is left to the filter.                      *)
RenamedUnselected ==
  /\ IF waits THEN UNCHANGED <<rows, filtered, selected>>
     ELSE update_filter(rows, query)
  /\ dialog' = "none" /\ searching' = FALSE

(* show_renamed_session keeps the session selected if the list shows it.   *)
Renamed ==
  LET path == SelectedPath IN
  /\ \E found \in (IF waits THEN {<<rows, filtered>>} ELSE Filters(rows, query)) :
       rows' = found[1] /\ filtered' = found[2]
  /\ LET at == {i \in DOMAIN filtered' : OnScreen'[i] = path} IN
     IF at # {} THEN selected' = CHOOSE i \in at : TRUE ELSE SelectAnchorOrFirst
  /\ dialog' = "none" /\ searching' = FALSE

(* Enter in the rename dialog, which stays when the rename fails or finds  *)
(* the session gone.                                                       *)
submit_rename ==
  /\ drop_anchor
  /\ dialog = "rename"
  /\ \/ selected # None /\ Renamed
     \/ /\ dialog' = IF selected = None THEN "none" ELSE dialog
        /\ UNCHANGED <<rows, filtered, selected, searching>>
  /\ UNCHANGED <<mode, query, pending, open, refresh>>
  /\ Pressed

-----------------------------------------------------------------------------
(* Edits of the list *)

(* For a mutant: the edit forgets what was selected.                      *)
EditUnanchored(order) ==
  LET moved == [i \in DOMAIN filtered |-> RowOf(order, OnScreen[i])]  IN
  /\ anchor' = None
  /\ IF waits
     THEN rows' = order /\ apply_filtered(SelectSeq(moved, LAMBDA i : i # 0))
     ELSE update_filter(order, query)
  /\ searching' = waits

(* For a mutant: the rows on screen stay where they were.                  *)
EditInPlace(order) ==
  /\ anchor' = SelectedPath
  /\ IF waits
     THEN rows' = order /\ apply_filtered(SelectSeq(filtered, LAMBDA i : i \in DOMAIN order))
     ELSE update_filter(order, query)
  /\ searching' = waits

(* edit_list: rows go, come, and change place with their times.  The rows  *)
(* on screen keep their sessions until the query, run again, is answered.  *)
edit_list(order) ==
  LET moved == [i \in DOMAIN filtered |-> RowOf(order, OnScreen[i])]
      stay == {i \in DOMAIN filtered : moved[i] # 0}
  IN
  /\ anchor' = SelectedPath
  /\ IF waits
     THEN rows' = order /\ apply_filtered(Keep(moved, stay))
     ELSE update_filter(order, query)
  /\ searching' = waits

(* Ctrl+R in the list                                                      *)
begin_refresh ==
  /\ drop_anchor
  /\ is_on_list /\ refresh = "idle" /\ refresh' = "running"
  /\ UNCHANGED <<rows, filtered, selected, search, cover>>
  /\ Pressed

(* receive_refresh                                                         *)
receive_refresh ==
  /\ refresh = "running" /\ refresh' = "finished"
  /\ UNCHANGED <<list, search, cover, history>>

(* For a mutant: a session on its way to the viewer holds no refresh back. *)
ApplyUnderOpening ==
  /\ refresh = "finished" /\ open = None /\ dialog = "none" /\ refresh' = "idle"
  /\ \E order \in SetToSeqs(Range(rows)) : edit_list(order)
  /\ UNCHANGED <<mode, query, cover>>
  /\ Records(SelectedPath, FALSE)

(* apply_finished_refresh waits until nothing covers the list.             *)
apply_finished_refresh ==
  /\ refresh = "finished" /\ is_on_list /\ refresh' = "idle"
  /\ UNCHANGED <<mode, query, cover>>
  /\ \/ /\ \E shown \in SUBSET Sessions :
             \E order \in SetToSeqs(shown) : edit_list(order)
        /\ Records(SelectedPath, FALSE)
     \/ UNCHANGED <<list, searching, history>>

(* refresh_open_session, on the frame after Ctrl+R in the viewer, when a   *)
(* dialog may have opened: the session's row is read again, or removed as  *)
(* the viewer closes.                                                      *)
refresh_open_session ==
  /\ open # None /\ open' \in {open, None}
  /\ UNCHANGED <<mode, query, pending, dialog, refresh>>
  /\ IF open \in Range(rows)
     THEN \E order \in SetToSeqs(Range(rows) \ ({open} \ {open'})) :
            edit_list(order) /\ Records(SelectedPath, FALSE)
     ELSE open' = None /\ UNCHANGED <<list, searching>> /\ Records(None, FALSE)

Next ==
  \/ Select \/ Type \/ Toggle \/ Answer
  \/ request_open \/ complete_pending_open \/ exit_view_mode
  \/ Dialog \/ Confirm \/ submit_rename
  \/ begin_refresh \/ receive_refresh \/ apply_finished_refresh
  \/ refresh_open_session

Spec == Init /\ [][Next]_vars

-----------------------------------------------------------------------------
(* Properties *)

(* Every index is of a row, no row is shown twice, and a row is selected   *)
(* whenever one is on screen.                                              *)
TypeOK ==
  /\ IsInjective(rows) /\ Range(rows) \subseteq Sessions
  /\ IsInjective(filtered) /\ Range(filtered) \subseteq DOMAIN rows
  /\ IF filtered = <<>> THEN selected = None ELSE selected \in DOMAIN filtered
  /\ anchor \in Sessions \cup {None} /\ mode \in {"lexical", "semantic"}
  /\ query \in Sessions \cup {None, "text"} /\ searching \in BOOLEAN
  /\ pending \in DOMAIN rows \cup {None} /\ open \in Sessions \cup {None}
  /\ dialog \in {"none", "menu", "confirm", "rename"}
  /\ refresh \in {"idle", "running", "finished"} /\ history \in History

(* An edit of the list keeps the selection on its session, also through    *)
(* the answers of the query it runs again, until the next key; while rows  *)
(* that stand in for an answer are without it, another is selected         *)
(* (apply_session_changes's comment).                                      *)
KeepsSelection ==
  history.kept # None /\ history.kept \in Range(OnScreen)
    => SelectedPath = history.kept

(* The viewer shows the session that was selected when it was asked for,   *)
(* whatever came in the frame between.                                     *)
OpensWhatWasAsked == open # None => history.shown = open

(* The session in the viewer, or under a dialog, stays the selected one,   *)
(* through renames and reads of it, until an answer replaces the rows or   *)
(* they no longer hold it.  What the user does to it there is done to the  *)
(* selected one.                                                           *)
ShownIsSelected ==
  history.shown # None /\ ~history.lost => SelectedPath = history.shown

(* A delete, and an edit under a query whose answer is awaited, leave on   *)
(* screen the sessions that were there, in their order (edit_list's        *)
(* comment).                                                               *)
RowsOnScreenStay ==
  [][(/\ rows' # rows /\ query' = query
      /\ waits \/ (dialog = "confirm" /\ dialog' = "none"))
       => OnScreen' = Keep(OnScreen,
                           {i \in DOMAIN OnScreen : OnScreen[i] \in Range(rows')})]_vars

(* A delete confirmed in the viewer is of the session open in it: the      *)
(* actions are "on the selected or open session" (actions_menu.rs).        *)
DeletesTheOpenSession ==
  [][dialog = "confirm" /\ dialog' = "none" /\ open # None
       => Range(rows) \ Range(rows') \subseteq {open}]_vars
=============================================================================
