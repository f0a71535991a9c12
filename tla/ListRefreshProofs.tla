------------------------- MODULE ListRefreshProofs -------------------------
(***************************************************************************)
(* Proofs about ListRefresh, for every set of sessions and agents, every   *)
(* set of faults but where a theorem excludes one, and any number of       *)
(* changes to the transcripts.                                             *)
(***************************************************************************)
EXTENDS ListRefresh, TLAPS

(* A transcript at two moments: no content comes back, and a transcript    *)
(* that is gone comes back only with another.                              *)
Later(t, u) ==
  /\ t \in Transcript /\ u \in Transcript
  /\ \/ u.text > t.text
     \/ u.text = t.text /\ u.kind = t.kind /\ (u.there => t.there)

(* A row just read, fingerprinted by the discovery of that read.           *)
Fresh(row, t) ==
  /\ row \in Row /\ t.there /\ t.kind \in {"listed", "outside"}
  /\ row.stamp = t.text /\ row.text = t.text

-----------------------------------------------------------------------------
(* Reads *)

LEMMA ReadFacts ==
  ASSUME NEW t \in Transcript, NEW read \in Reads(t)
  PROVE  /\ IsRow(read) => t.there /\ t.kind \in {"listed", "outside"}
         /\ read = "empty" => t.there /\ t.kind = "empty"
         /\ read = "permanent" => ~t.there \/ t.kind = "bad"
         /\ IsRow(read) \/ read \in {"empty", "permanent", "transient"}
<1>1. t.there \in BOOLEAN /\ t.kind \in Kind
  BY DEF Transcript
<1>2. CASE read = "transient"
  BY <1>2 DEF IsRow
<1>3. CASE read # "transient"
  <2>1. CASE ~t.there \/ t.kind = "bad"
    BY <1>3, <2>1 DEF Reads, IsRow
  <2>2. CASE t.there /\ t.kind = "empty"
    BY <1>3, <2>2 DEF Reads, IsRow
  <2>3. CASE t.there /\ t.kind \in {"listed", "outside"}
    BY <1>3, <2>3 DEF Reads, IsRow
  <2> QED  BY <1>1, <2>1, <2>2, <2>3 DEF Kind
<1> QED  BY <1>2, <1>3

LEMMA RereadFacts ==
  ASSUME NEW t \in Transcript, NEW read \in Rereads(t)
  PROVE  /\ IsRow(read) => t.there /\ t.kind \in {"listed", "outside"}
         /\ read = "gone" => ~t.there
         /\ read = "empty" => t.there /\ t.kind = "empty"
         /\ read = "permanent" => t.there /\ t.kind = "bad"
         /\ IsRow(read) \/ read \in {"gone", "empty", "permanent", "transient"}
<1>1. t.there \in BOOLEAN
  BY DEF Transcript
<1>2. CASE read = "transient"
  BY <1>2 DEF IsRow
<1>3. CASE read = "gone" /\ ~t.there
  BY <1>3 DEF IsRow
<1>4. CASE t.there /\ read \in Reads(t)
  <2>1. read # "gone"
    BY <1>4, ReadFacts DEF IsRow
  <2> QED  BY <1>4, <2>1, ReadFacts
<1> QED  BY <1>1, <1>2, <1>3, <1>4 DEF Rereads

LEMMA RowOfFacts ==
  ASSUME NEW stamp \in Text, NEW t \in Transcript, NEW read
  PROVE  /\ RowOf(stamp, t, read) \in Row
         /\ RowOf(stamp, t, read).stamp = stamp
         /\ RowOf(stamp, t, read).text = t.text
         /\ RowOf(stamp, t, read).whole = (read = "listed")
BY DEF RowOf, Row, Transcript

LEMMA RereadRow ==
  ASSUME NEW row \in Row \cup {None}, NEW t \in Transcript, NEW read \in Rereads(t)
  PROVE  /\ Reread(row, t, read) \in Row \cup {None}
         /\ IsRow(read) => Fresh(Reread(row, t, read), t)
         /\ read \in {"gone", "empty"} => Reread(row, t, read) = None
         /\ read \in {"permanent", "transient"} => Reread(row, t, read) = row
<1>1. t.text \in Text
  BY DEF Transcript
<1>2. CASE IsRow(read)
  <2>1. Reread(row, t, read) = RowOf(t.text, t, read)
    BY <1>2 DEF Reread, IsRow
  <2>2. read \notin {"gone", "empty", "permanent", "transient"}
    BY <1>2 DEF IsRow
  <2> QED  BY <1>1, <1>2, <2>1, <2>2, RowOfFacts, RereadFacts DEF Fresh
<1>3. CASE read \in {"gone", "empty"}
  BY <1>3 DEF Reread, IsRow
<1>4. CASE read \in {"permanent", "transient"}
  BY <1>4 DEF Reread, IsRow
<1> QED  BY <1>2, <1>3, <1>4, RereadFacts

-----------------------------------------------------------------------------
(* What agents, other programs and the user do *)

(* They leave the refresh alone.  A row they touch is noted, and is then   *)
(* gone or as it was just read.                                            *)
OutsideStep ==
  /\ skipped' = skipped /\ refresh' = refresh
  /\ changed \subseteq changed' /\ (~is_refreshing => changed' = changed)
  /\ \A s \in Sessions :
       /\ Later(disk[s], disk'[s])
       /\ \/ rows'[s] = rows[s]
          \/ /\ is_refreshing => s \in changed'
             /\ rows'[s] = None \/ Fresh(rows'[s], disk'[s])

LEMMA TypedParts ==
  ASSUME TypeOK
  PROVE  /\ disk \in [Sessions -> Transcript] /\ rows \in [Sessions -> Row \cup {None}]
         /\ skipped \in Skipped /\ dialog \in BOOLEAN
         /\ open \in Sessions \cup {None} /\ changed \subseteq Sessions
         /\ refresh \in Refresh /\ history \in History
BY DEF TypeOK, Rows

LEMMA LaterSame ==
  ASSUME NEW t \in Transcript
  PROVE  Later(t, t)
BY DEF Later, Transcript

LEMMA NotedFacts ==
  ASSUME NEW s \in Sessions, changed \subseteq Sessions, changed' = Noted(s)
  PROVE  /\ changed' \subseteq Sessions /\ changed \subseteq changed'
         /\ is_refreshing => s \in changed'
         /\ ~is_refreshing => changed' = changed
BY DEF Noted

LEMMA BecomesFacts ==
  ASSUME TypeOK, NEW s \in Sessions, NEW t \in Transcript,
         Later(disk[s], t), Becomes(s, t)
  PROVE  /\ disk' \in [Sessions -> Transcript] /\ disk'[s] = t
         /\ \A q \in Sessions \ {s} : disk'[q] = disk[q]
         /\ \A q \in Sessions : Later(disk[q], disk'[q])
         /\ history' \in History /\ ~history'.quiet
         /\ history'.missing = history.missing \cup Missing(disk')
         /\ history'.deleted = history.deleted \ {s}
<1>1. disk \in [Sessions -> Transcript] /\ history \in History
  BY DEF TypeOK
<1>2. disk' = [disk EXCEPT ![s] = t]
  BY DEF Becomes
<1>3. /\ disk' \in [Sessions -> Transcript] /\ disk'[s] = t
      /\ \A q \in Sessions \ {s} : disk'[q] = disk[q]
  BY <1>1, <1>2
<1>4. ASSUME NEW q \in Sessions
      PROVE  Later(disk[q], disk'[q])
  BY <1>1, <1>2, <1>4, LaterSame
<1>5. Missing(disk') \subseteq Sessions
  BY DEF Missing
<1>6. /\ history'.quiet = FALSE
      /\ history'.missing = history.missing \cup Missing(disk')
      /\ history'.deleted = history.deleted \ {s}
  BY DEF Becomes
<1>7. history' \in History
  BY <1>1, <1>5 DEF Becomes, History
<1> QED  BY <1>3, <1>4, <1>6, <1>7

LEMMA AppendStep ==
  ASSUME TypeOK, NEW s \in Sessions, Append(s)
  PROVE  /\ TypeOK' /\ OutsideStep
         /\ UNCHANGED <<rows, changed, open>>
         /\ \A q \in Sessions \ {s} : disk'[q] = disk[q]
         /\ history'.deleted = history.deleted \ {s} /\ ~history'.quiet
         /\ history'.missing = history.missing \cup Missing(disk')
<1>1. disk[s] \in Transcript
  BY TypedParts
<1>2. PICK kind \in Kind :
        Becomes(s, [there |-> TRUE, text |-> disk[s].text + 1, kind |-> kind])
  BY DEF Append
<1> DEFINE t == [there |-> TRUE, text |-> disk[s].text + 1, kind |-> kind]
<1>3. t \in Transcript /\ Later(disk[s], t)
  BY <1>1, BoundAssumption DEF Append, Transcript, Text, Later
<1> HIDE DEF t
<1>4. Becomes(s, t)
  BY <1>2 DEF t
<1>5. UNCHANGED <<rows, skipped, dialog, open, changed, refresh>>
  BY DEF Append
<1> QED  BY <1>3, <1>4, <1>5, BecomesFacts DEF TypeOK, OutsideStep

LEMMA VanishStep ==
  ASSUME TypeOK, NEW s \in Sessions, Vanish(s)
  PROVE  /\ TypeOK' /\ OutsideStep
         /\ UNCHANGED <<rows, changed, open>>
         /\ \A q \in Sessions \ {s} : disk'[q] = disk[q]
         /\ history'.deleted = history.deleted \ {s} /\ ~history'.quiet
         /\ history'.missing = history.missing \cup Missing(disk')
<1>1. disk[s] \in Transcript
  BY TypedParts
<1> DEFINE t == [disk[s] EXCEPT !.there = FALSE]
<1>2. t \in Transcript /\ Later(disk[s], t)
  BY <1>1 DEF Transcript, Text, Later
<1> HIDE DEF t
<1>3. Becomes(s, t)
  BY DEF t, Vanish
<1>4. UNCHANGED <<rows, skipped, dialog, open, changed, refresh>>
  BY DEF Vanish
<1> QED  BY <1>2, <1>3, <1>4, BecomesFacts DEF TypeOK, OutsideStep

LEMMA CoverSteps ==
  ASSUME TypeOK, Dialog \/ Close \/ \E s \in Sessions : Open(s)
  PROVE  /\ TypeOK' /\ OutsideStep /\ UNCHANGED <<disk, rows, changed, history>>
         /\ open' = None \/ open' = open \/ rows[open'] # None
<1>1. UNCHANGED <<disk, rows, skipped, changed, refresh, history>>
  BY DEF Dialog, Close, Open
<1>2. open' \in Sessions \cup {None} /\ dialog' \in BOOLEAN
  BY TypedParts DEF Dialog, Close, Open
<1>3. \A s \in Sessions : Later(disk[s], disk'[s])
  BY <1>1, TypedParts, LaterSame
<1>4. open' = None \/ open' = open \/ rows[open'] # None
  BY DEF Dialog, Close, Open, Listed
<1> QED  BY <1>1, <1>2, <1>3, <1>4 DEF TypeOK, OutsideStep

LEMMA RenameStep ==
  ASSUME TypeOK, NEW s \in Sessions, Rename(s)
  PROVE  /\ TypeOK' /\ OutsideStep /\ open' = open
         /\ \A q \in Sessions \ {s} : disk'[q] = disk[q]
         /\ history'.deleted = history.deleted \ {s} /\ ~history'.quiet
         /\ history'.missing = history.missing \cup Missing(disk')
         /\ rows[s] # None /\ rows'[s] # None
         /\ \A q \in Sessions \ {s} : rows'[q] = rows[q]
<1>1. disk[s] \in Transcript /\ rows[s] \in Row /\ rows \in [Sessions -> Row \cup {None}]
  BY TypedParts DEF Rename, Listed
<1> DEFINE t == [disk[s] EXCEPT !.text = @ + 1]
<1>2. t \in Transcript /\ Later(disk[s], t)
  BY <1>1, BoundAssumption DEF Rename, Transcript, Text, Later
<1> HIDE DEF t
<1>3. Becomes(s, t)
  BY DEF t, Rename
<1>4. changed' = Noted(s) /\ UNCHANGED <<skipped, open, refresh>>
  BY DEF Rename
<1>5. disk'[s] = t /\ disk' \in [Sessions -> Transcript] /\ history' \in History
  BY <1>2, <1>3, BecomesFacts
<1>6. PICK read \in Rereads(t) :
        IF read \in {"gone", "empty"}
        THEN UNCHANGED <<rows, dialog>>
        ELSE /\ rows' = [rows EXCEPT ![s] = Reread(@, t, read)]
             /\ dialog' = FALSE
  BY <1>5 DEF Rename
<1>7. /\ dialog' \in BOOLEAN /\ rows' \in [Sessions -> Row \cup {None}]
      /\ rows'[s] # None
      /\ rows'[s] = rows[s] \/ Fresh(rows'[s], t)
      /\ \A q \in Sessions \ {s} : rows'[q] = rows[q]
  <2>1. CASE read \in {"gone", "empty"}
    BY <1>1, <1>6, <2>1, TypedParts, NoneAssumption
  <2>2. CASE read \notin {"gone", "empty"}
    <3>1. rows' = [rows EXCEPT ![s] = Reread(rows[s], t, read)] /\ dialog' = FALSE
      BY <1>6, <2>2
    <3>2. Reread(rows[s], t, read) = rows[s] \/ Fresh(Reread(rows[s], t, read), t)
      BY <1>1, <1>2, <2>2, RereadRow, RereadFacts
    <3>3. Reread(rows[s], t, read) \in Row
      BY <1>1, <3>2 DEF Fresh
    <3> QED  BY <1>1, <3>1, <3>2, <3>3, NoneAssumption
  <2> QED  BY <2>1, <2>2
<1>8. TypeOK'
  BY <1>4, <1>5, <1>7, NotedFacts, TypedParts DEF TypeOK, Rows
<1>9. OutsideStep
  BY <1>2, <1>3, <1>4, <1>5, <1>7, NotedFacts, TypedParts, BecomesFacts DEF OutsideStep
<1> QED  BY <1>1, <1>2, <1>3, <1>4, <1>7, <1>8, <1>9, BecomesFacts, NoneAssumption

LEMMA DeleteStep ==
  ASSUME TypeOK, NEW s \in Sessions, Delete(s)
  PROVE  /\ TypeOK' /\ OutsideStep
         /\ history'.deleted = history.deleted \cup {s}
         /\ ~history'.quiet /\ history'.missing = history.missing \cup Missing(disk')
         /\ ~disk'[s].there /\ rows'[s] = None /\ open' = None
         /\ \A q \in Sessions \ {s} : disk'[q] = disk[q] /\ rows'[q] = rows[q]
         /\ is_refreshing => s \in changed'
<1>1. disk \in [Sessions -> Transcript] /\ rows \in [Sessions -> Row \cup {None}]
  BY TypedParts
<1> DEFINE t == [disk[s] EXCEPT !.there = FALSE]
<1>2. t \in Transcript /\ Later(disk[s], t) /\ ~t.there
  BY <1>1 DEF Transcript, Text, Later
<1>3. disk' = [disk EXCEPT ![s] = t] /\ rows' = [rows EXCEPT ![s] = None]
  BY DEF Delete
<1> HIDE DEF t
<1>4. changed' = Noted(s) /\ UNCHANGED <<skipped, refresh>> /\ ~dialog' /\ open' = None
      /\ dialog' \in BOOLEAN
  BY DEF Delete
<1>5. disk' \in [Sessions -> Transcript] /\ rows' \in [Sessions -> Row \cup {None}]
  BY <1>1, <1>2, <1>3
<1>6. \A q \in Sessions \ {s} : disk'[q] = disk[q] /\ rows'[q] = rows[q]
  BY <1>1, <1>3
<1>7. disk'[s] = t /\ rows'[s] = None
  BY <1>1, <1>3
<1>8. /\ history'.quiet = FALSE
      /\ history'.missing = history.missing \cup Missing(disk')
      /\ history'.deleted = history.deleted \cup {s}
      /\ history' \in History
  BY TypedParts DEF Delete, History, Missing
<1>9. \A q \in Sessions : Later(disk[q], disk'[q])
  BY <1>1, <1>2, <1>6, <1>7, LaterSame
<1>10. /\ changed' \subseteq Sessions /\ changed \subseteq changed'
       /\ is_refreshing => s \in changed'
       /\ ~is_refreshing => changed' = changed
  BY <1>4, TypedParts, NotedFacts
<1>11. TypeOK'
  BY <1>4, <1>5, <1>8, <1>10, TypedParts DEF TypeOK, Rows
<1>12. OutsideStep
  BY <1>4, <1>6, <1>7, <1>9, <1>10 DEF OutsideStep
<1> QED  BY <1>2, <1>4, <1>6, <1>7, <1>8, <1>10, <1>11, <1>12

LEMMA ReadOpenStep ==
  ASSUME TypeOK, NEW s \in Sessions, ReadOpenSession(s)
  PROVE  /\ TypeOK' /\ OutsideStep /\ disk' = disk /\ open = s
         /\ open' # None => open' = s /\ rows'[s] # None
         /\ history'.missing = history.missing
         /\ history'.deleted = history.deleted
         /\ history'.quiet = (history.quiet /\ IsWhole(rows'[s]))
         /\ \A q \in Sessions \ {s} : rows'[q] = rows[q]
         /\ \A q \in Sessions : q \in changed' => q \in changed \/ q = s
         /\ rows[s] = None => rows'[s] = None
         /\ rows[s] # None /\ rows'[s] = None => IsMissing(disk[s])
         /\ \/ rows'[s] = None \/ Fresh(rows'[s], disk'[s]) \/ rows'[s] = rows[s]
<1>1. disk \in [Sessions -> Transcript] /\ rows \in [Sessions -> Row \cup {None}]
  BY TypedParts
<1>2. /\ s = open /\ changed' = Noted(s)
      /\ UNCHANGED <<disk, skipped, dialog, refresh>>
      /\ history' = [history EXCEPT !.quiet = @ /\ IsWhole(rows'[s])]
  BY DEF ReadOpenSession
<1>3. /\ rows' \in [Sessions -> Row \cup {None}]
      /\ open' \in Sessions \cup {None}
      /\ open' # None => open' = s /\ rows'[s] # None
      /\ \A q \in Sessions \ {s} : rows'[q] = rows[q]
      /\ rows[s] = None => rows'[s] = None
      /\ rows[s] # None /\ rows'[s] = None => IsMissing(disk[s])
      /\ \/ rows'[s] = None \/ Fresh(rows'[s], disk'[s]) \/ rows'[s] = rows[s]
  <2>1. CASE s \notin Listed
    <3>1. rows[s] = None
      BY <2>1 DEF Listed
    <3>2. open' = None /\ rows' = rows
      BY <2>1 DEF ReadOpenSession
    <3> QED  BY <1>1, <3>1, <3>2
  <2>2. CASE s \in Listed
    <3>1. rows[s] # None /\ rows[s] \in Row /\ disk[s] \in Transcript
      BY <1>1, <2>2 DEF Listed
    <3>2. PICK read \in Rereads(disk[s]) :
            /\ rows' = [rows EXCEPT ![s] = Reread(@, disk[s], read)]
            /\ open' = IF rows'[s] = None THEN None ELSE open
      BY <2>2 DEF ReadOpenSession
    <3>3. rows' = [rows EXCEPT ![s] = Reread(rows[s], disk[s], read)]
      BY <3>2
    <3>4. /\ rows' \in [Sessions -> Row \cup {None}]
          /\ rows'[s] = Reread(rows[s], disk[s], read)
          /\ \A q \in Sessions \ {s} : rows'[q] = rows[q]
      BY <1>1, <3>1, <3>3, RereadRow
    <3>5. /\ open' \in Sessions \cup {None}
          /\ open' # None => open' = s /\ rows'[s] # None
      BY <1>2, <3>2
    <3>6. \/ rows'[s] = None \/ Fresh(rows'[s], disk'[s]) \/ rows'[s] = rows[s]
      BY <1>2, <3>1, <3>4, RereadRow, RereadFacts
    <3>7. ASSUME rows'[s] = None
          PROVE  IsMissing(disk[s])
      <4>1. Reread(rows[s], disk[s], read) = None /\ rows[s] \in Row \cup {None}
        BY <3>1, <3>4, <3>7
      <4>2. ASSUME IsRow(read) PROVE FALSE
        BY <3>1, <4>1, <4>2, RereadRow, NoneAssumption DEF Fresh
      <4>3. read \notin {"permanent", "transient"}
        BY <3>1, <4>1, RereadRow
      <4> QED  BY <3>1, <4>2, <4>3, RereadFacts DEF IsMissing
    <3> QED  BY <3>1, <3>4, <3>5, <3>6, <3>7
  <2> QED  BY <2>1, <2>2
<1>4. /\ changed' \subseteq Sessions /\ changed \subseteq changed'
      /\ is_refreshing => s \in changed'
      /\ ~is_refreshing => changed' = changed
      /\ \A q \in Sessions : q \in changed' => q \in changed \/ q = s
  BY <1>2, TypedParts, NotedFacts DEF Noted
<1>5. /\ history'.quiet = (history.quiet /\ IsWhole(rows'[s]))
      /\ history'.missing = history.missing
      /\ history'.deleted = history.deleted
      /\ history' \in History
  <2>1. history \in History /\ IsWhole(rows'[s]) \in BOOLEAN
    BY TypedParts DEF IsWhole
  <2> HIDE DEF IsWhole
  <2> QED  BY <2>1, <1>2 DEF History
<1>6. TypeOK'
  BY <1>2, <1>3, <1>4, <1>5, TypedParts DEF TypeOK, Rows
<1>7. \A q \in Sessions : Later(disk[q], disk'[q])
  BY <1>1, <1>2, LaterSame
<1>8. OutsideStep
  BY <1>2, <1>3, <1>4, <1>7 DEF OutsideStep
<1> QED  BY <1>2, <1>3, <1>4, <1>5, <1>6, <1>8

LEMMA LookUpStep ==
  ASSUME TypeOK, NEW s \in Sessions, LookUp(s)
  PROVE  /\ TypeOK' /\ OutsideStep /\ disk' = disk /\ disk[s].there /\ open' = open
         /\ history'.missing = history.missing
         /\ history'.deleted = history.deleted
         /\ history'.quiet = (history.quiet /\ IsWhole(rows'[s]))
         /\ \A q \in Sessions \ {s} : rows'[q] = rows[q]
         /\ \A q \in Sessions : q \in changed' => q \in changed \/ q = s
         /\ rows[s] = None /\ Fresh(rows'[s], disk'[s])
<1>1. disk \in [Sessions -> Transcript] /\ rows \in [Sessions -> Row \cup {None}]
  BY TypedParts
<1>2. /\ rows[s] = None /\ disk[s].there /\ changed' = Noted(s)
      /\ UNCHANGED <<disk, skipped, dialog, open, refresh>>
      /\ history' = [history EXCEPT !.quiet = @ /\ IsWhole(rows'[s])]
  BY DEF LookUp, Listed
<1>3. PICK read \in Reads(disk[s]) :
        /\ IsRow(read)
        /\ rows' = [rows EXCEPT ![s] = RowOf(disk[s].text, disk[s], read)]
  BY DEF LookUp
<1>4. disk[s].text \in Text /\ disk[s] \in Transcript
  BY <1>1 DEF Transcript
<1>5. Fresh(RowOf(disk[s].text, disk[s], read), disk[s])
  BY <1>3, <1>4, RowOfFacts, ReadFacts DEF Fresh
<1>6. /\ rows' \in [Sessions -> Row \cup {None}]
      /\ \A q \in Sessions \ {s} : rows'[q] = rows[q]
      /\ Fresh(rows'[s], disk'[s])
  BY <1>1, <1>2, <1>3, <1>5 DEF Fresh
<1>7. /\ changed' \subseteq Sessions /\ changed \subseteq changed'
      /\ is_refreshing => s \in changed'
      /\ ~is_refreshing => changed' = changed
      /\ \A q \in Sessions : q \in changed' => q \in changed \/ q = s
  BY <1>2, TypedParts, NotedFacts DEF Noted
<1>8. /\ history'.quiet = (history.quiet /\ IsWhole(rows'[s]))
      /\ history'.missing = history.missing
      /\ history'.deleted = history.deleted
      /\ history' \in History
  <2>1. history \in History /\ IsWhole(rows'[s]) \in BOOLEAN
    BY TypedParts DEF IsWhole
  <2> HIDE DEF IsWhole
  <2> QED  BY <2>1, <1>2 DEF History
<1>9. TypeOK'
  BY <1>2, <1>6, <1>7, <1>8, TypedParts DEF TypeOK, Rows
<1>10. \A q \in Sessions : Later(disk[q], disk'[q])
  BY <1>1, <1>2, LaterSame
<1>11. OutsideStep
  BY <1>2, <1>6, <1>7, <1>10 DEF OutsideStep
<1> QED  BY <1>2, <1>6, <1>7, <1>8, <1>9, <1>11

-----------------------------------------------------------------------------
(* The refresh thread *)

(* What is to be read was found.                                           *)
UnreadWereFound == \A s \in refresh.unread : refresh.found[s] # None

LEMMA RefreshFields ==
  ASSUME refresh \in Refresh
  PROVE  /\ refresh.pc \in {"idle", "discover", "read", "done"}
         /\ refresh.rows \in [Sessions -> Row \cup {None}]
         /\ refresh.known \in Skipped /\ refresh.skipped \in Skipped
         /\ refresh.left \subseteq Agents /\ refresh.failed \subseteq Agents
         /\ refresh.found \in [Sessions -> Stamp]
         /\ refresh.unread \subseteq Sessions /\ refresh.removed \subseteq Sessions
         /\ refresh.updated \in [Sessions -> Row \cup {None}]
BY DEF Refresh, Rows

LEMMA SkippedFields ==
  ASSUME NEW k \in Skipped
  PROVE  /\ k.unlisted \in [Sessions -> Stamp] /\ k.unreadable \in [Sessions -> Stamp]
BY DEF Skipped

LEMMA KeepFacts ==
  ASSUME NEW stamps \in [Sessions -> Stamp], NEW known \in [Sessions -> Stamp], NEW these
  PROVE  /\ Keep(stamps, known, these) \in [Sessions -> Stamp]
         /\ \A s \in Sessions :
              Keep(stamps, known, these)[s] = IF s \in these THEN known[s] ELSE stamps[s]
BY DEF Keep

LEMMA KeepSkippedFacts ==
  ASSUME refresh \in Refresh, NEW A, NEW B
  PROVE  /\ KeepSkipped(A, B) \in Skipped
         /\ \A s \in Sessions :
              /\ KeepSkipped(A, B).unlisted[s] =
                   IF s \in A THEN refresh.known.unlisted[s] ELSE refresh.skipped.unlisted[s]
              /\ KeepSkipped(A, B).unreadable[s] =
                   IF s \in B THEN refresh.known.unreadable[s]
                              ELSE refresh.skipped.unreadable[s]
<1>1. /\ refresh.known.unlisted \in [Sessions -> Stamp]
      /\ refresh.known.unreadable \in [Sessions -> Stamp]
      /\ refresh.skipped.unlisted \in [Sessions -> Stamp]
      /\ refresh.skipped.unreadable \in [Sessions -> Stamp]
  BY RefreshFields, SkippedFields
<1>2. /\ KeepSkipped(A, B).unlisted =
           Keep(refresh.skipped.unlisted, refresh.known.unlisted, A)
      /\ KeepSkipped(A, B).unreadable =
           Keep(refresh.skipped.unreadable, refresh.known.unreadable, B)
  BY DEF KeepSkipped
<1>3. KeepSkipped(A, B) \in Skipped
  BY <1>1, KeepFacts DEF KeepSkipped, Skipped
<1>4. \A s \in Sessions :
        KeepSkipped(A, B).unlisted[s] =
          IF s \in A THEN refresh.known.unlisted[s] ELSE refresh.skipped.unlisted[s]
  BY <1>1, <1>2, KeepFacts
<1>5. \A s \in Sessions :
        KeepSkipped(A, B).unreadable[s] =
          IF s \in B THEN refresh.known.unreadable[s] ELSE refresh.skipped.unreadable[s]
  BY <1>1, <1>2, KeepFacts
<1> QED  BY <1>3, <1>4, <1>5

(* What one discovery leaves.  Without a fault it sees every session that  *)
(* is there.                                                               *)
LEMMA DiscoverStep ==
  ASSUME TypeOK, NEW a \in Agents, Discover(a)
  PROVE  \E seen \in SUBSET {s \in Sessions : AgentOf[s] = a /\ disk[s].there} :
           /\ TypeOK' /\ UNCHANGED <<disk, rows, skipped, dialog, open, changed>>
           /\ refresh.pc = "discover" /\ a \in refresh.left
           /\ refresh'.pc = "read" /\ refresh'.left = refresh.left \ {a}
           /\ refresh'.rows = refresh.rows /\ refresh'.known = refresh.known
           /\ refresh'.failed = refresh.failed /\ refresh'.updated = refresh.updated
           /\ \A s \in Sessions :
                /\ refresh'.found[s] = IF s \in seen THEN disk[s].text ELSE None
                /\ s \in refresh'.unread <=> s \in seen /\ ~IsKnown(s, disk[s].text)
                /\ s \in refresh'.removed <=>
                     \/ s \in refresh.removed
                     \/ AgentOf[s] = a /\ s \notin seen /\ refresh.rows[s] # None
                /\ refresh'.skipped.unlisted[s] \in
                     {refresh.known.unlisted[s], refresh.skipped.unlisted[s]}
                /\ refresh'.skipped.unreadable[s] \in
                     {refresh.known.unreadable[s], refresh.skipped.unreadable[s]}
           /\ history'.missing = history.missing
           /\ history'.deleted = history.deleted
           /\ history'.quiet =>
                history.quiet /\ seen = {s \in Sessions : AgentOf[s] = a /\ disk[s].there}
           /\ "directory" \notin Faults =>
                seen = {s \in Sessions : AgentOf[s] = a /\ disk[s].there}
<1> DEFINE there == {s \in Sessions : AgentOf[s] = a /\ disk[s].there}
<1>1. PICK seen \in (IF Fails("directory") THEN SUBSET there ELSE {there}) :
        LET found == [s \in Sessions |-> IF s \in seen THEN disk[s].text ELSE None]
        IN /\ refresh' =
                [refresh EXCEPT
                  !.pc = "read", !.left = @ \ {a}, !.found = found,
                  !.unread = {s \in seen : ~IsKnown(s, found[s])},
                  !.skipped = KeepUnchanged(found),
                  !.removed = @ \cup {s \in Of(a) \ seen : refresh.rows[s] # None}]
           /\ history' = [history EXCEPT !.quiet = @ /\ seen = there]
  <2>1. there = {s \in Of(a) : disk[s].there}
    BY DEF Of
  <2> HIDE DEF there
  <2> QED  BY <2>1 DEF Discover
<1>2. seen \subseteq there /\ ("directory" \notin Faults => seen = there)
  BY <1>1 DEF Fails
<1>3. /\ UNCHANGED <<disk, rows, skipped, dialog, open, changed>>
      /\ refresh.pc = "discover" /\ a \in refresh.left
  BY DEF Discover
<1> DEFINE found == [s \in Sessions |-> IF s \in seen THEN disk[s].text ELSE None]
<1>4. found \in [Sessions -> Stamp]
  BY TypedParts DEF Transcript, Stamp
<1>5. \A s \in Sessions : found[s] = IF s \in seen THEN disk[s].text ELSE None
  OBVIOUS
<1>6. refresh' =
        [refresh EXCEPT
          !.pc = "read", !.left = @ \ {a}, !.found = found,
          !.unread = {s \in seen : ~IsKnown(s, found[s])},
          !.skipped = KeepUnchanged(found),
          !.removed = @ \cup {s \in Of(a) \ seen : refresh.rows[s] # None}]
  BY <1>1, Zenon
<1> HIDE DEF found
<1>7. KeepUnchanged(found) \in Skipped
  BY TypedParts, KeepSkippedFacts DEF KeepUnchanged
<1>8. \A s \in Sessions :
        /\ KeepUnchanged(found).unlisted[s] \in
             {refresh.known.unlisted[s], refresh.skipped.unlisted[s]}
        /\ KeepUnchanged(found).unreadable[s] \in
             {refresh.known.unreadable[s], refresh.skipped.unreadable[s]}
  BY TypedParts, KeepSkippedFacts DEF KeepUnchanged
<1>9. /\ refresh'.pc = "read" /\ refresh'.left = refresh.left \ {a}
      /\ refresh'.rows = refresh.rows /\ refresh'.known = refresh.known
      /\ refresh'.failed = refresh.failed /\ refresh'.updated = refresh.updated
      /\ refresh'.found = found
      /\ refresh'.unread = {s \in seen : ~IsKnown(s, found[s])}
      /\ refresh'.skipped = KeepUnchanged(found)
      /\ refresh'.removed =
           refresh.removed \cup {s \in Of(a) \ seen : refresh.rows[s] # None}
  BY <1>6, TypedParts DEF Refresh
<1>10. seen \subseteq Sessions /\ Of(a) \subseteq Sessions
  BY <1>2 DEF Of
<1>11. refresh' \in Refresh
  <2>1. {s \in seen : ~IsKnown(s, found[s])} \subseteq Sessions
    BY <1>10
  <2>2. {s \in Of(a) \ seen : refresh.rows[s] # None} \subseteq Sessions
    BY <1>10
  <2> QED  BY <1>4, <1>6, <1>7, <2>1, <2>2, TypedParts DEF Refresh
<1>12. /\ history'.missing = history.missing
       /\ history'.deleted = history.deleted
       /\ history'.quiet = (history.quiet /\ seen = there)
       /\ history' \in History
  <2> HIDE DEF there
  <2> QED  BY <1>1, TypedParts DEF History
<1>13. TypeOK'
  BY <1>3, <1>11, <1>12, TypedParts DEF TypeOK, Rows
<1>14. \A s \in Sessions :
         /\ s \in refresh'.unread <=> s \in seen /\ ~IsKnown(s, disk[s].text)
         /\ s \in refresh'.removed <=>
              \/ s \in refresh.removed
              \/ AgentOf[s] = a /\ s \notin seen /\ refresh.rows[s] # None
  BY <1>5, <1>9 DEF Of
<1>15. /\ \A s \in Sessions :
            /\ refresh'.found[s] = IF s \in seen THEN disk[s].text ELSE None
            /\ refresh'.skipped.unlisted[s] \in
                 {refresh.known.unlisted[s], refresh.skipped.unlisted[s]}
            /\ refresh'.skipped.unreadable[s] \in
                 {refresh.known.unreadable[s], refresh.skipped.unreadable[s]}
       /\ history'.quiet => history.quiet /\ seen = there
  BY <1>5, <1>8, <1>9, <1>12
<1> WITNESS seen \in SUBSET there
<1> QED  BY <1>2, <1>3, <1>9, <1>12, <1>13, <1>14, <1>15

Joins(s) == refresh.rows[s] # None \/ disk[s].kind = "listed"

WithStamps(k, s, x, y) == [k EXCEPT !.unlisted[s] = x, !.unreadable[s] = y]

LEMMA WithStampsFacts ==
  ASSUME NEW k \in Skipped, NEW s \in Sessions, NEW x \in Stamp, NEW y \in Stamp
  PROVE  /\ WithStamps(k, s, x, y) \in Skipped
         /\ WithStamps(k, s, x, y).unlisted = [k.unlisted EXCEPT ![s] = x]
         /\ WithStamps(k, s, x, y).unreadable = [k.unreadable EXCEPT ![s] = y]
<1>1. WithStamps(k, s, x, y) = [unlisted |-> [k.unlisted EXCEPT ![s] = x],
                                unreadable |-> [k.unreadable EXCEPT ![s] = y]]
  <2>1. PICK u \in [Sessions -> Stamp], v \in [Sessions -> Stamp] :
          k = [unlisted |-> u, unreadable |-> v]
    BY DEF Skipped
  <2>2. k.unlisted = u /\ k.unreadable = v
    BY <2>1
  <2>3. WithStamps(k, s, x, y) = [k EXCEPT !.unlisted = [@ EXCEPT ![s] = x],
                                           !.unreadable = [@ EXCEPT ![s] = y]]
    BY <2>1 DEF WithStamps
  <2> QED  BY <2>1, <2>2, <2>3
<1>2. [k.unlisted EXCEPT ![s] = x] \in [Sessions -> Stamp]
  BY SkippedFields
<1>3. [k.unreadable EXCEPT ![s] = y] \in [Sessions -> Stamp]
  BY SkippedFields
<1> QED  BY <1>1, <1>2, <1>3 DEF Skipped

LEMMA AbsorbFacts ==
  ASSUME TypeOK, UnreadWereFound, NEW s \in refresh.unread, NEW read \in Reads(disk[s]),
         refresh' = Absorb(s, read)
  PROVE  /\ s \in Sessions /\ refresh.found[s] \in Text
         /\ refresh' \in Refresh
         /\ refresh'.pc = refresh.pc /\ refresh'.left = refresh.left
         /\ refresh'.rows = refresh.rows /\ refresh'.known = refresh.known
         /\ refresh'.failed = refresh.failed /\ refresh'.found = refresh.found
         /\ refresh'.unread = refresh.unread \ {s}
         /\ \A q \in Sessions \ {s} :
              /\ refresh'.updated[q] = refresh.updated[q]
              /\ refresh'.skipped.unlisted[q] = refresh.skipped.unlisted[q]
              /\ refresh'.skipped.unreadable[q] = refresh.skipped.unreadable[q]
         /\ refresh'.updated[s] =
              IF IsRow(read) /\ Joins(s) THEN RowOf(refresh.found[s], disk[s], read)
              ELSE refresh.updated[s]
         /\ refresh'.removed =
              IF read = "empty" /\ refresh.rows[s] # None
              THEN refresh.removed \cup {s} ELSE refresh.removed
         /\ refresh'.skipped.unlisted[s] =
              CASE read = "empty" \/ (read = "listed" /\ ~Joins(s)) -> refresh.found[s]
                [] read = "partial" /\ ~Joins(s) -> None
                [] OTHER -> refresh.skipped.unlisted[s]
         /\ refresh'.skipped.unreadable[s] =
              IF read = "permanent" THEN refresh.found[s]
              ELSE refresh.skipped.unreadable[s]
<1>1. s \in Sessions /\ refresh.found[s] \in Text /\ refresh \in Refresh
  BY TypedParts, RefreshFields DEF UnreadWereFound, Stamp
<1>2. disk[s] \in Transcript
  BY <1>1, TypedParts
<1> DEFINE row == RowOf(refresh.found[s], disk[s], read)
           newRow == IF IsRow(read) /\ Joins(s) THEN row ELSE refresh.updated[s]
           newGone == IF read = "empty" /\ refresh.rows[s] # None
                      THEN refresh.removed \cup {s} ELSE refresh.removed
           newUnlisted ==
             CASE read = "empty" \/ (read = "listed" /\ ~Joins(s)) -> refresh.found[s]
               [] read = "partial" /\ ~Joins(s) -> None
               [] OTHER -> refresh.skipped.unlisted[s]
           newUnreadable == IF read = "permanent" THEN refresh.found[s]
                            ELSE refresh.skipped.unreadable[s]
           newSkipped == WithStamps(refresh.skipped, s, newUnlisted, newUnreadable)
<1>3. row \in Row /\ row.stamp = refresh.found[s]
  BY <1>1, <1>2, RowOfFacts
<1>4. newUnlisted = CASE read = "listed" /\ ~Joins(s) -> row.stamp
                      [] read = "partial" /\ ~Joins(s) -> None
                      [] read = "empty" -> refresh.found[s]
                      [] OTHER -> refresh.skipped.unlisted[s]
  BY <1>3
<1>5. refresh' = [refresh EXCEPT
        !.unread = @ \ {s}, !.updated[s] = newRow, !.removed = newGone,
        !.skipped.unlisted[s] = newUnlisted,
        !.skipped.unreadable[s] = newUnreadable]
  BY <1>4 DEF Absorb, Joins
<1>6. newRow \in Row \cup {None} /\ newUnlisted \in Stamp /\ newUnreadable \in Stamp
      /\ newGone \subseteq Sessions
  BY <1>1, <1>3, RefreshFields, SkippedFields DEF Stamp
<1> HIDE DEF row, newRow, newGone, newUnlisted, newUnreadable
<1> DEFINE newUpdated == [refresh.updated EXCEPT ![s] = newRow]
<1>7. /\ refresh.skipped.unlisted \in [Sessions -> Stamp]
      /\ refresh.skipped.unreadable \in [Sessions -> Stamp]
      /\ refresh.updated \in [Sessions -> Row \cup {None}]
  BY <1>1, RefreshFields, SkippedFields
<1>8. newUpdated \in Rows
  BY <1>6, <1>7 DEF Rows
<1>9. /\ newSkipped \in Skipped
      /\ newSkipped.unlisted = [refresh.skipped.unlisted EXCEPT ![s] = newUnlisted]
      /\ newSkipped.unreadable = [refresh.skipped.unreadable EXCEPT ![s] = newUnreadable]
  <2>1. refresh.skipped \in Skipped
    BY <1>1, RefreshFields
  <2> QED  BY <1>1, <1>6, <2>1, WithStampsFacts
<1>10. refresh' = [refresh EXCEPT !.unread = refresh.unread \ {s},
                     !.updated = newUpdated, !.removed = newGone,
                     !.skipped = newSkipped]
  <2>1. refresh = [pc |-> refresh.pc, rows |-> refresh.rows, known |-> refresh.known,
                   left |-> refresh.left, failed |-> refresh.failed,
                   found |-> refresh.found, unread |-> refresh.unread,
                   updated |-> refresh.updated, removed |-> refresh.removed,
                   skipped |-> refresh.skipped]
    BY <1>1 DEF Refresh
  <2> QED  BY <1>5, <2>1, ZenonT(60) DEF WithStamps
<1> HIDE DEF newSkipped, newUpdated
<1>11. /\ refresh'.pc = refresh.pc /\ refresh'.left = refresh.left
       /\ refresh'.rows = refresh.rows /\ refresh'.known = refresh.known
       /\ refresh'.failed = refresh.failed /\ refresh'.found = refresh.found
       /\ refresh'.unread = refresh.unread \ {s}
       /\ refresh'.removed = newGone
       /\ refresh'.updated = newUpdated
       /\ refresh'.skipped = newSkipped
  BY <1>1, <1>10 DEF Refresh
<1>12. refresh' \in Refresh
  <2>1. refresh.unread \ {s} \subseteq Sessions
    BY <1>1, RefreshFields
  <2> QED  BY <1>1, <1>6, <1>8, <1>9, <1>10, <2>1 DEF Refresh
<1>13. /\ \A q \in Sessions \ {s} :
            /\ refresh'.updated[q] = refresh.updated[q]
            /\ refresh'.skipped.unlisted[q] = refresh.skipped.unlisted[q]
            /\ refresh'.skipped.unreadable[q] = refresh.skipped.unreadable[q]
       /\ refresh'.updated[s] = newRow
       /\ refresh'.skipped.unlisted[s] = newUnlisted
       /\ refresh'.skipped.unreadable[s] = newUnreadable
  BY <1>1, <1>7, <1>9, <1>11 DEF newUpdated
<1> QED
  BY <1>1, <1>11, <1>12, <1>13 DEF newRow, newGone, newUnlisted, newUnreadable, row

LEMMA ReadStep ==
  ASSUME TypeOK, UnreadWereFound, NEW s \in Sessions, Read(s)
  PROVE  /\ TypeOK' /\ UNCHANGED <<disk, rows, skipped, dialog, open, changed>>
         /\ refresh.pc = "read" /\ s \in refresh.unread
         /\ history'.missing = history.missing
         /\ history'.deleted = history.deleted
         /\ \E read \in Reads(disk[s]) :
              /\ refresh' = Absorb(s, read)
              /\ history'.quiet = (history.quiet /\ read \notin {"transient", "partial"})
<1>1. /\ UNCHANGED <<disk, rows, skipped, dialog, open, changed>>
      /\ refresh.pc = "read" /\ s \in refresh.unread
  BY DEF Read
<1>2. PICK read \in Reads(disk[s]) :
        /\ refresh' = Absorb(s, read)
        /\ history' = [history EXCEPT
                         !.quiet = @ /\ read \notin {"transient", "partial"}]
  BY DEF Read
<1>3. /\ history'.missing = history.missing
      /\ history'.deleted = history.deleted
      /\ history'.quiet = (history.quiet /\ read \notin {"transient", "partial"})
      /\ history' \in History
  BY <1>2, TypedParts DEF History
<1>4. refresh' \in Refresh
  BY <1>1, <1>2, AbsorbFacts
<1>5. TypeOK'
  BY <1>1, <1>3, <1>4, TypedParts DEF TypeOK, Rows
<1> QED  BY <1>1, <1>2, <1>3, <1>5

(* The other steps of the thread, that read nothing.                       *)
LEMMA OtherThreadSteps ==
  ASSUME TypeOK, NextAgent \/ Stop \/ \E a \in Agents : FailDiscovery(a)
  PROVE  /\ TypeOK' /\ UNCHANGED <<disk, rows, skipped, dialog, open, changed>>
         /\ refresh.pc \in {"discover", "read"} /\ refresh'.pc # "idle"
         /\ refresh'.rows = refresh.rows /\ refresh'.known = refresh.known
         /\ refresh'.found = refresh.found /\ refresh'.unread = refresh.unread
         /\ refresh'.updated = refresh.updated /\ refresh'.removed = refresh.removed
         /\ \A s \in Sessions :
              /\ refresh'.skipped.unlisted[s] \in
                   {refresh.known.unlisted[s], refresh.skipped.unlisted[s]}
              /\ refresh'.skipped.unreadable[s] \in
                   {refresh.known.unreadable[s], refresh.skipped.unreadable[s]}
         /\ history'.missing = history.missing
         /\ history'.deleted = history.deleted
         /\ history'.quiet =>
              /\ history.quiet /\ NextAgent
              /\ refresh'.left = refresh.left /\ refresh'.failed = refresh.failed
              /\ \/ refresh.pc = "read" /\ refresh.unread = {}
                 \/ refresh.pc = "discover" /\ refresh.left = {}
              /\ refresh'.pc = IF refresh.left = {} THEN "done" ELSE "discover"
<1> USE DEF Refresh, History
<1>1. CASE NextAgent
  BY <1>1, TypedParts, Zenon DEF NextAgent, TypeOK, Rows
<1>2. CASE Stop
  BY <1>2, TypedParts DEF Stop, TypeOK, Rows
<1>3. ASSUME NEW a \in Agents, FailDiscovery(a)
      PROVE  /\ TypeOK' /\ UNCHANGED <<disk, rows, skipped, dialog, open, changed>>
             /\ refresh.pc = "discover" /\ refresh'.pc = "discover"
             /\ refresh'.rows = refresh.rows /\ refresh'.known = refresh.known
             /\ refresh'.found = refresh.found /\ refresh'.unread = refresh.unread
             /\ refresh'.updated = refresh.updated /\ refresh'.removed = refresh.removed
             /\ \A s \in Sessions :
                  /\ refresh'.skipped.unlisted[s] \in
                       {refresh.known.unlisted[s], refresh.skipped.unlisted[s]}
                  /\ refresh'.skipped.unreadable[s] \in
                       {refresh.known.unreadable[s], refresh.skipped.unreadable[s]}
             /\ history'.missing = history.missing
             /\ history'.deleted = history.deleted /\ ~history'.quiet
  <2> DEFINE kept == KeepSkipped(Of(a), Of(a))
  <2>1. /\ kept \in Skipped
        /\ \A s \in Sessions :
             /\ kept.unlisted[s] \in
                  {refresh.known.unlisted[s], refresh.skipped.unlisted[s]}
             /\ kept.unreadable[s] \in
                  {refresh.known.unreadable[s], refresh.skipped.unreadable[s]}
    <3> HIDE DEF Refresh
    <3> QED  BY TypedParts, KeepSkippedFacts
  <2>2. /\ refresh.pc = "discover"
        /\ refresh' = [refresh EXCEPT !.left = @ \ {a}, !.failed = @ \cup {a},
                                      !.skipped = kept]
        /\ history' = [history EXCEPT !.quiet = FALSE]
        /\ UNCHANGED <<disk, rows, skipped, dialog, open, changed>>
    BY <1>3 DEF FailDiscovery
  <2> HIDE DEF kept
  <2>3. refresh' \in Refresh /\ history' \in History
    BY <2>1, <2>2, TypedParts
  <2>4. TypeOK'
    BY <2>2, <2>3, TypedParts DEF TypeOK, Rows
  <2>5. refresh'.skipped = kept
    BY <2>2, TypedParts
  <2>6. /\ refresh'.pc = "discover"
        /\ refresh'.rows = refresh.rows /\ refresh'.known = refresh.known
        /\ refresh'.found = refresh.found /\ refresh'.unread = refresh.unread
        /\ refresh'.updated = refresh.updated /\ refresh'.removed = refresh.removed
        /\ history'.missing = history.missing
        /\ history'.deleted = history.deleted /\ ~history'.quiet
    BY <2>2, TypedParts
  <2> QED  BY <2>1, <2>2, <2>4, <2>5, <2>6
<1> QED  BY <1>1, <1>2, <1>3

-----------------------------------------------------------------------------
(* The refresh begins and is applied *)

LEMMA BeginStep ==
  ASSUME TypeOK, Begin
  PROVE  /\ TypeOK' /\ UNCHANGED <<disk, rows, skipped, dialog, open, changed>>
         /\ ~is_refreshing /\ refresh'.pc = "discover"
         /\ refresh'.rows = rows /\ refresh'.known = skipped
         /\ refresh'.left = Agents /\ refresh'.failed = {}
         /\ refresh'.unread = {} /\ refresh'.removed = {}
         /\ \A s \in Sessions :
              /\ refresh'.found[s] = None /\ refresh'.updated[s] = None
              /\ refresh'.skipped.unlisted[s] = None
              /\ refresh'.skipped.unreadable[s] = None
         /\ history'.quiet /\ history'.missing = Missing(disk)
         /\ history'.deleted = history.deleted
<1>1. /\ UNCHANGED <<disk, rows, skipped, dialog, open, changed>> /\ ~is_refreshing
      /\ refresh' = [Idle EXCEPT !.pc = "discover", !.rows = rows,
                                 !.known = skipped, !.left = Agents]
      /\ history' = [history EXCEPT !.quiet = TRUE, !.missing = Missing(disk)]
  BY DEF Begin
<1>2. /\ refresh'.pc = "discover"
      /\ refresh'.rows = rows /\ refresh'.known = skipped
      /\ refresh'.left = Agents /\ refresh'.failed = {}
      /\ refresh'.unread = {} /\ refresh'.removed = {}
      /\ refresh'.found = NoStamps /\ refresh'.updated = NoRows
      /\ refresh'.skipped = NoneSkipped
  BY <1>1 DEF Idle
<1>3. NoStamps \in [Sessions -> Stamp] /\ NoRows \in Rows /\ NoneSkipped \in Skipped
  BY DEF NoStamps, NoRows, NoneSkipped, Stamp, Rows, Skipped
<1>4. refresh' \in Refresh
  BY <1>1, <1>3, TypedParts DEF Idle, Refresh, Rows
<1>5. /\ history'.quiet /\ history'.missing = Missing(disk)
      /\ history'.deleted = history.deleted /\ history' \in History
  BY <1>1, TypedParts DEF History, Missing
<1>6. TypeOK'
  BY <1>1, <1>4, <1>5, TypedParts DEF TypeOK, Rows
<1> QED  BY <1>1, <1>2, <1>5, <1>6 DEF NoStamps, NoRows, NoneSkipped

(* What applying does to the row of a session.                             *)
AppliedRow(s) ==
  /\ s \in changed /\ rows[s] = None => rows'[s] = None
  /\ s \in changed /\ rows[s] # None =>
       \E read \in Rereads(disk[s]) :
         /\ rows'[s] = Reread(rows[s], disk[s], read)
         /\ history'.quiet => read \notin {"transient", "partial"}
  /\ s \notin changed /\ s \in refresh.removed => rows'[s] = None
  /\ s \notin changed /\ s \notin refresh.removed =>
       rows'[s] = IF refresh.updated[s] # None
                     /\ (rows[s] # None) = (refresh.rows[s] # None)
                  THEN refresh.updated[s] ELSE rows[s]
  /\ skipped'.unlisted[s] =
       IF rows'[s] # None THEN None ELSE refresh.skipped.unlisted[s]
  /\ skipped'.unreadable[s] = refresh.skipped.unreadable[s]

LEMMA IdleType == Idle \in Refresh
BY DEF Idle, Refresh, NoStamps, NoRows, NoneSkipped, Stamp, Rows, Skipped

LEMMA ApplyStep ==
  ASSUME TypeOK, Apply
  PROVE  /\ TypeOK' /\ disk' = disk /\ open' = open /\ ~covered
         /\ refresh.pc = "done" /\ refresh' = Idle /\ changed' = {}
         /\ history'.missing = history.missing
         /\ history'.deleted = history.deleted
         /\ history'.quiet => history.quiet
         /\ \/ refresh.failed = Agents /\ UNCHANGED <<rows, skipped>>
            \/ \A s \in Sessions : AppliedRow(s)
<1>1. /\ UNCHANGED <<disk, dialog, open>> /\ refresh.pc = "done" /\ ~covered
      /\ refresh' = Idle /\ changed' = {}
  BY DEF Apply
<1>2. refresh' \in Refresh
  BY <1>1, IdleType
<1>3. CASE refresh.failed = Agents
  <2>1. UNCHANGED <<rows, skipped, history>>
    BY <1>3 DEF Apply
  <2> QED  BY <1>1, <1>2, <1>3, <2>1, TypedParts DEF TypeOK, Rows
<1>4. CASE refresh.failed # Agents
  <2>1. PICK reads \in [changed \cap Listed ->
                          UNION {Rereads(disk[s]) : s \in changed \cap Listed}] :
          /\ \A s \in changed \cap Listed : reads[s] \in Rereads(disk[s])
          /\ rows' = Changes(reads)
          /\ skipped' = [refresh.skipped EXCEPT
               !.unlisted = [s \in Sessions |->
                               IF rows'[s] # None THEN None ELSE @[s]]]
          /\ history' = [history EXCEPT
               !.quiet = @ /\ \A s \in DOMAIN reads :
                                 reads[s] \notin {"transient", "partial"}]
    BY <1>4 DEF Apply
  <2>2. /\ history'.missing = history.missing
        /\ history'.deleted = history.deleted
        /\ history'.quiet => history.quiet
        /\ history' \in History
        /\ history'.quiet => \A s \in changed \cap Listed :
                               reads[s] \notin {"transient", "partial"}
    BY <2>1, TypedParts DEF History
  <2> DEFINE gone == [s \in Sessions |-> IF rows'[s] # None THEN None
                                         ELSE refresh.skipped.unlisted[s]]
  <2>3. refresh.skipped \in Skipped /\ refresh.skipped.unlisted \in [Sessions -> Stamp]
    BY TypedParts, RefreshFields, SkippedFields
  <2>4. gone \in [Sessions -> Stamp]
    BY <2>3 DEF Stamp
  <2>5. skipped' = [refresh.skipped EXCEPT !.unlisted = gone]
    BY <2>1, <2>3 DEF Skipped
  <2>6. \A s \in Sessions :
          gone[s] = IF rows'[s] # None THEN None ELSE refresh.skipped.unlisted[s]
    OBVIOUS
  <2> HIDE DEF gone
  <2>7. /\ skipped' \in Skipped /\ skipped'.unlisted = gone
        /\ skipped'.unreadable = refresh.skipped.unreadable
    BY <2>3, <2>4, <2>5 DEF Skipped
  <2>8. ASSUME NEW s \in Sessions
        PROVE  rows'[s] \in Row \cup {None} /\ AppliedRow(s)
    <3>1. /\ rows[s] \in Row \cup {None} /\ disk[s] \in Transcript
          /\ refresh.updated[s] \in Row \cup {None}
      BY TypedParts, RefreshFields
    <3>2. rows'[s] =
            CASE s \in changed ->
                   IF rows[s] # None THEN Reread(rows[s], disk[s], reads[s]) ELSE None
              [] s \notin changed /\ s \in refresh.removed -> None
              [] /\ s \notin changed \cup refresh.removed
                 /\ refresh.updated[s] # None
                 /\ (rows[s] # None) = (refresh.rows[s] # None) -> refresh.updated[s]
              [] OTHER -> rows[s]
      BY <2>1 DEF Changes
    <3>3. /\ skipped'.unlisted[s] =
               IF rows'[s] # None THEN None ELSE refresh.skipped.unlisted[s]
          /\ skipped'.unreadable[s] = refresh.skipped.unreadable[s]
      BY <2>6, <2>7
    <3>4. CASE s \in changed /\ rows[s] # None
      <4>1. s \in changed \cap Listed
        BY <3>4 DEF Listed
      <4>2. reads[s] \in Rereads(disk[s])
        BY <2>1, <4>1
      <4>3. rows'[s] = Reread(rows[s], disk[s], reads[s])
        BY <3>2, <3>4
      <4>4. history'.quiet => reads[s] \notin {"transient", "partial"}
        BY <2>2, <4>1
      <4>5. rows'[s] \in Row \cup {None}
        BY <3>1, <4>2, <4>3, RereadRow
      <4> QED  BY <3>3, <3>4, <4>2, <4>3, <4>4, <4>5 DEF AppliedRow
    <3>5. CASE s \in changed /\ rows[s] = None
      BY <3>2, <3>3, <3>5 DEF AppliedRow
    <3>6. CASE s \notin changed /\ s \in refresh.removed
      BY <3>2, <3>3, <3>6 DEF AppliedRow
    <3>7. CASE s \notin changed /\ s \notin refresh.removed
      BY <3>1, <3>2, <3>3, <3>7 DEF AppliedRow
    <3> QED  BY <3>4, <3>5, <3>6, <3>7
  <2>9. rows' \in [Sessions -> Row \cup {None}]
    <3>1. rows' = [s \in Sessions |-> rows'[s]]
      BY <2>1 DEF Changes
    <3> QED  BY <2>8, <3>1
  <2>10. TypeOK'
    BY <1>1, <1>2, <2>2, <2>7, <2>9, TypedParts DEF TypeOK, Rows
  <2> QED  BY <1>1, <2>2, <2>8, <2>10
<1> QED  BY <1>3, <1>4

-----------------------------------------------------------------------------
(* What the steps outside the refresh do to what the properties speak of *)

OpenIsListed == open # None => rows[open] # None

(* A session that stays deleted is as it was, and gets no row.             *)
DeletedStep ==
  \A s \in Sessions : s \in history'.deleted =>
    \/ /\ s \in history.deleted /\ disk'[s] = disk[s]
       /\ (rows[s] = None /\ rows'[s] # None => disk[s].there)
    \/ ~disk'[s].there /\ rows'[s] = None /\ (is_refreshing => s \in changed')

MissingStep ==
  /\ history.missing \subseteq history'.missing
  /\ disk' = disk \/ Missing(disk') \subseteq history'.missing

(* A row leaves only with its session gone or empty.                       *)
LeavingStep ==
  \A s \in Sessions :
    rows[s] # None /\ rows'[s] = None => IsMissing(disk'[s])

QuietStep ==
  history'.quiet =>
    /\ history.quiet /\ disk' = disk
    /\ \A s \in Sessions :
         /\ rows'[s] # rows[s] /\ rows'[s] # None => rows'[s].whole
         /\ s \in changed' /\ s \notin changed /\ rows'[s] = None
              => IsMissing(disk[s])

Outside ==
  \/ \E s \in Sessions : Append(s) \/ Vanish(s) \/ User(s)
  \/ Dialog \/ Close

LEMMA OutsideEffects ==
  ASSUME TypeOK, OpenIsListed, Outside
  PROVE  /\ TypeOK' /\ OutsideStep /\ OpenIsListed'
         /\ DeletedStep /\ MissingStep /\ LeavingStep /\ QuietStep
<1> USE DEF OpenIsListed, DeletedStep, MissingStep, LeavingStep, QuietStep
<1>1. ASSUME NEW s \in Sessions, Append(s) \/ Vanish(s)
      PROVE  /\ TypeOK' /\ OutsideStep /\ OpenIsListed'
             /\ DeletedStep /\ MissingStep /\ LeavingStep /\ QuietStep
  BY <1>1, AppendStep, VanishStep
<1>2. ASSUME NEW s \in Sessions, Rename(s)
      PROVE  /\ TypeOK' /\ OutsideStep /\ OpenIsListed'
             /\ DeletedStep /\ MissingStep /\ LeavingStep /\ QuietStep
  <2>1. OpenIsListed'
    BY <1>2, RenameStep, TypedParts
  <2>2. DeletedStep /\ LeavingStep
    BY <1>2, RenameStep
  <2> QED  BY <1>2, <2>1, <2>2, RenameStep
<1>3. ASSUME NEW s \in Sessions, Delete(s)
      PROVE  /\ TypeOK' /\ OutsideStep /\ OpenIsListed'
             /\ DeletedStep /\ MissingStep /\ LeavingStep /\ QuietStep
  <2>1. DeletedStep
    BY <1>3, DeleteStep
  <2>2. LeavingStep
    BY <1>3, DeleteStep DEF IsMissing
  <2> QED  BY <1>3, <2>1, <2>2, DeleteStep
<1>4. ASSUME NEW s \in Sessions, ReadOpenSession(s)
      PROVE  /\ TypeOK' /\ OutsideStep /\ OpenIsListed'
             /\ DeletedStep /\ MissingStep /\ LeavingStep /\ QuietStep
  <2>1. rows[s] # None
    BY <1>4, ReadOpenStep, NoneAssumption
  <2>2. DeletedStep /\ LeavingStep /\ MissingStep /\ OpenIsListed'
    BY <1>4, <2>1, ReadOpenStep
  <2>3. QuietStep
    BY <1>4, <2>1, ReadOpenStep DEF IsWhole
  <2> QED  BY <1>4, <2>2, <2>3, ReadOpenStep
<1>5. ASSUME NEW s \in Sessions, LookUp(s)
      PROVE  /\ TypeOK' /\ OutsideStep /\ OpenIsListed'
             /\ DeletedStep /\ MissingStep /\ LeavingStep /\ QuietStep
  <2>1. rows'[s] # None
    BY <1>5, LookUpStep, NoneAssumption DEF Fresh
  <2>2. DeletedStep /\ LeavingStep /\ MissingStep /\ OpenIsListed'
    BY <1>5, <2>1, LookUpStep, TypedParts
  <2>3. QuietStep
    BY <1>5, <2>1, LookUpStep DEF IsWhole
  <2> QED  BY <1>5, <2>2, <2>3, LookUpStep
<1>6. ASSUME Dialog \/ Close \/ \E s \in Sessions : Open(s)
      PROVE  /\ TypeOK' /\ OutsideStep /\ OpenIsListed'
             /\ DeletedStep /\ MissingStep /\ LeavingStep /\ QuietStep
  BY <1>6, CoverSteps
<1> QED  BY <1>1, <1>2, <1>3, <1>4, <1>5, <1>6 DEF Outside, User

-----------------------------------------------------------------------------
(* The invariant behind the theorems *)

(* A row holds nothing that is yet to be written, was fingerprinted before *)
(* it was read, and one as new as the transcript is of a conversation.     *)
Honest(row, t) ==
  row # None =>
    /\ row.stamp <= row.text /\ row.text <= t.text
    /\ row.text = t.text => t.kind \in {"listed", "outside"}

(* A session skipped at the fingerprint it has was rightly skipped.        *)
HonestStamps(k, s, t) ==
  /\ k.unlisted[s] # None =>
       /\ k.unlisted[s] <= t.text
       /\ k.unlisted[s] = t.text => t.kind \in {"outside", "empty"}
  /\ k.unreadable[s] # None =>
       /\ k.unreadable[s] <= t.text
       /\ k.unreadable[s] = t.text /\ t.there => t.kind = "bad"

NotLater(stamp, row) == stamp # None /\ row # None => stamp <= row.text

(* This holds of everything known of a session, at any time.               *)
SessionHonest(s) ==
  /\ Honest(rows[s], disk[s])
  /\ Honest(refresh.rows[s], disk[s]) /\ Honest(refresh.updated[s], disk[s])
  /\ HonestStamps(skipped, s, disk[s])
  /\ HonestStamps(refresh.known, s, disk[s])
  /\ HonestStamps(refresh.skipped, s, disk[s])
  /\ refresh.found[s] # None => refresh.found[s] <= disk[s].text
  /\ NotLater(skipped.unlisted[s], rows[s])
  /\ NotLater(refresh.known.unlisted[s], refresh.rows[s])

(* The refresh knows a row as the list holds it, but for what the user     *)
(* changed, and reads nothing older than what it knows.                    *)
KnownIsShown(s) ==
  /\ is_refreshing /\ s \notin changed => rows[s] = refresh.rows[s]
  /\ refresh.rows[s] # None /\ refresh.updated[s] # None
       => refresh.rows[s].text <= refresh.updated[s].text

(* A deleted session is gone, and no refresh holds a row for it that could *)
(* be applied.                                                             *)
DeletedIsGone(s) ==
  s \in history.deleted =>
    /\ ~disk[s].there /\ rows[s] = None
    /\ is_refreshing /\ s \notin changed => refresh.updated[s] = None

SessionSafe(s) == SessionHonest(s) /\ KnownIsShown(s) /\ DeletedIsGone(s)

SafeInv ==
  /\ TypeOK /\ UnreadWereFound /\ OpenIsListed
  /\ ~is_refreshing => changed = {}
  /\ \A s \in Sessions : SessionSafe(s)

(* Arithmetic needs numbers.                                               *)
LEMMA SessionNumbers ==
  ASSUME TypeOK, NEW s \in Sessions
  PROVE  /\ disk[s] \in Transcript /\ disk[s].text \in Nat
         /\ rows[s] \in Row \cup {None} /\ refresh.rows[s] \in Row \cup {None}
         /\ refresh.updated[s] \in Row \cup {None}
         /\ refresh.found[s] \in Nat \cup {None}
         /\ skipped.unlisted[s] \in Nat \cup {None}
         /\ skipped.unreadable[s] \in Nat \cup {None}
         /\ refresh.known.unlisted[s] \in Nat \cup {None}
         /\ refresh.known.unreadable[s] \in Nat \cup {None}
         /\ refresh.skipped.unlisted[s] \in Nat \cup {None}
         /\ refresh.skipped.unreadable[s] \in Nat \cup {None}
<1>1. Stamp \subseteq Nat \cup {None} /\ Text \subseteq Nat
  BY BoundAssumption DEF Stamp, Text
<1>2. disk[s] \in Transcript /\ disk[s].text \in Text
  BY TypedParts DEF Transcript
<1> QED  BY <1>1, <1>2, TypedParts, RefreshFields, SkippedFields

LEMMA RowNumbers ==
  ASSUME NEW row \in Row
  PROVE  row.stamp \in Nat /\ row.text \in Nat /\ row # None
BY BoundAssumption, NoneAssumption DEF Row, Text

LEMMA HonestLater ==
  ASSUME NEW row \in Row \cup {None}, NEW t, NEW u, Later(t, u), Honest(row, t)
  PROVE  Honest(row, u)
BY RowNumbers, BoundAssumption DEF Honest, Later, Transcript, Text

LEMMA FreshHonest ==
  ASSUME NEW row, NEW t \in Transcript, Fresh(row, t)
  PROVE  Honest(row, t)
BY RowNumbers DEF Honest, Fresh

LEMMA HonestStampsLater ==
  ASSUME NEW k \in Skipped, NEW s \in Sessions, NEW t, NEW u, Later(t, u),
         HonestStamps(k, s, t)
  PROVE  HonestStamps(k, s, u)
<1>1. k.unlisted[s] \in Nat \cup {None} /\ k.unreadable[s] \in Nat \cup {None}
  BY SkippedFields, BoundAssumption DEF Stamp, Text
<1>2. t.text \in Nat /\ u.text \in Nat
  BY BoundAssumption DEF Later, Transcript, Text
<1> QED  BY <1>1, <1>2 DEF HonestStamps, Later

LEMMA InitSafe == Init => SafeInv
<1> SUFFICES ASSUME Init PROVE SafeInv
  OBVIOUS
<1>1. /\ disk \in [Sessions -> Transcript]
      /\ \A s \in Sessions : disk[s].text = 1 /\ disk[s].there \in BOOLEAN
                             /\ disk[s].kind \in Kind
  BY BoundAssumption DEF Init, Transcript, Text
<1>2. \A s \in Sessions :
        rows[s] = IF disk[s].there /\ disk[s].kind = "listed"
                  THEN [stamp |-> 1, text |-> 1, whole |-> TRUE] ELSE None
  BY DEF Init
<1>3. 1 \in Text /\ 1 \in Nat /\ [stamp |-> 1, text |-> 1, whole |-> TRUE] \in Row
  BY BoundAssumption DEF Text, Row
<1>4. rows \in Rows
  <2>1. rows = [s \in Sessions |-> rows[s]]
    BY DEF Init
  <2> QED  BY <1>2, <1>3, <2>1 DEF Rows
<1>5. /\ skipped \in Skipped
      /\ \A s \in Sessions :
           /\ skipped.unlisted[s] =
                IF disk[s].there /\ disk[s].kind \in {"outside", "empty"}
                THEN 1 ELSE None
           /\ skipped.unreadable[s] =
                IF disk[s].there /\ disk[s].kind = "bad" THEN 1 ELSE None
  BY <1>3 DEF Init, Skipped, Stamp
<1>6. /\ dialog = FALSE /\ open = None /\ changed = {} /\ refresh = Idle
      /\ history = [quiet |-> TRUE, missing |-> {}, deleted |-> {}]
  BY DEF Init
<1>7. TypeOK
  BY <1>1, <1>4, <1>5, <1>6, IdleType DEF TypeOK, History
<1>8. /\ refresh.pc = "idle" /\ refresh.unread = {} /\ refresh.skipped = NoneSkipped
      /\ refresh.known = NoneSkipped /\ refresh.rows = NoRows
      /\ refresh.updated = NoRows /\ refresh.found = NoStamps
  BY <1>6 DEF Idle
<1>9. ASSUME NEW s \in Sessions
      PROVE  SessionSafe(s)
  <2>1. /\ refresh.skipped.unlisted[s] = None /\ refresh.skipped.unreadable[s] = None
        /\ refresh.known.unlisted[s] = None /\ refresh.known.unreadable[s] = None
        /\ refresh.rows[s] = None /\ refresh.updated[s] = None
        /\ refresh.found[s] = None
    BY <1>8 DEF NoneSkipped, NoRows, NoStamps
  <2>2. Honest(rows[s], disk[s]) /\ HonestStamps(skipped, s, disk[s])
    BY <1>1, <1>2, <1>5 DEF Honest, HonestStamps
  <2>3. NotLater(skipped.unlisted[s], rows[s])
    BY <1>2, <1>5 DEF NotLater
  <2>4. s \notin history.deleted /\ ~is_refreshing
    BY <1>6, <1>8 DEF is_refreshing
  <2> QED
    BY <2>1, <2>2, <2>3, <2>4
    DEF SessionSafe, SessionHonest, KnownIsShown, DeletedIsGone, Honest,
        HonestStamps, NotLater
<1> QED
  BY <1>6, <1>7, <1>8, <1>9 DEF SafeInv, UnreadWereFound, OpenIsListed

LEMMA OutsideSafe ==
  ASSUME SafeInv, Outside
  PROVE  SafeInv'
<1>1. TypeOK /\ TypeOK' /\ OutsideStep /\ OpenIsListed' /\ DeletedStep
  BY OutsideEffects DEF SafeInv
<1>2. skipped' = skipped /\ refresh' = refresh /\ is_refreshing' = is_refreshing
  BY <1>1 DEF OutsideStep, is_refreshing
<1>3. ASSUME NEW s \in Sessions
      PROVE  SessionSafe(s)'
  <2>1. SessionHonest(s) /\ KnownIsShown(s) /\ DeletedIsGone(s)
    BY DEF SafeInv, SessionSafe
  <2>2. Later(disk[s], disk'[s])
    BY <1>1 DEF OutsideStep
  <2>3. /\ refresh.rows[s] \in Row \cup {None} /\ refresh.updated[s] \in Row \cup {None}
        /\ rows[s] \in Row \cup {None} /\ rows'[s] \in Row \cup {None}
        /\ disk'[s] \in Transcript
    BY <1>1, SessionNumbers, TypedParts DEF TypeOK, Rows
  <2>4. /\ skipped \in Skipped /\ refresh.known \in Skipped
        /\ refresh.skipped \in Skipped
    BY <1>1, TypedParts, RefreshFields
  <2>5. \/ rows'[s] = rows[s]
        \/ /\ is_refreshing => s \in changed'
           /\ rows'[s] = None \/ Fresh(rows'[s], disk'[s])
    BY <1>1 DEF OutsideStep
  <2>6. /\ disk[s].text \in Nat /\ disk'[s].text \in Nat
        /\ disk[s].text <= disk'[s].text
    BY <2>2, BoundAssumption DEF Later, Transcript, Text
  <2>7. Honest(rows'[s], disk'[s])
    <3>1. CASE rows'[s] = rows[s]
      BY <2>1, <2>2, <2>3, <3>1, HonestLater DEF SessionHonest
    <3>2. CASE rows'[s] = None
      BY <3>2 DEF Honest
    <3>3. CASE Fresh(rows'[s], disk'[s])
      BY <2>3, <3>3, FreshHonest
    <3> QED  BY <2>5, <3>1, <3>2, <3>3
  <2>8. /\ Honest(refresh.rows[s], disk'[s]) /\ Honest(refresh.updated[s], disk'[s])
        /\ HonestStamps(skipped, s, disk'[s])
        /\ HonestStamps(refresh.known, s, disk'[s])
        /\ HonestStamps(refresh.skipped, s, disk'[s])
    BY <2>1, <2>2, <2>3, <2>4, HonestLater, HonestStampsLater DEF SessionHonest
  <2>9. refresh.found[s] # None => refresh.found[s] <= disk'[s].text
    BY <1>1, <2>1, <2>6, SessionNumbers DEF SessionHonest
  <2>10. NotLater(skipped.unlisted[s], rows'[s])
    <3>1. CASE rows'[s] = rows[s]
      BY <2>1, <3>1 DEF SessionHonest
    <3>2. CASE rows'[s] = None
      BY <3>2 DEF NotLater
    <3>3. CASE Fresh(rows'[s], disk'[s])
      BY <1>1, <2>1, <2>6, <3>3, SessionNumbers
      DEF SessionHonest, HonestStamps, NotLater, Fresh
    <3> QED  BY <2>5, <3>1, <3>2, <3>3
  <2>11. SessionHonest(s)'
    BY <1>2, <2>1, <2>7, <2>8, <2>9, <2>10 DEF SessionHonest
  <2>12. KnownIsShown(s)'
    BY <1>1, <1>2, <2>1, <2>5 DEF KnownIsShown, OutsideStep
  <2>13. DeletedIsGone(s)'
    BY <1>1, <1>2, <2>1 DEF DeletedIsGone, DeletedStep, OutsideStep
  <2> QED  BY <2>11, <2>12, <2>13 DEF SessionSafe
<1>4. UnreadWereFound'
  BY <1>2 DEF SafeInv, UnreadWereFound
<1>5. ~is_refreshing' => changed' = {}
  BY <1>1, <1>2 DEF SafeInv, OutsideStep
<1> QED  BY <1>1, <1>3, <1>4, <1>5 DEF SafeInv

(* The thread changes nothing but its own readings.                        *)
LEMMA ThreadSafe ==
  ASSUME SafeInv, TypeOK', UnreadWereFound',
         UNCHANGED <<disk, rows, skipped, dialog, open, changed>>,
         history'.deleted = history.deleted,
         is_refreshing, is_refreshing',
         refresh'.rows = refresh.rows, refresh'.known = refresh.known,
         \A s \in Sessions :
           /\ Honest(refresh'.updated[s], disk[s])
           /\ HonestStamps(refresh'.skipped, s, disk[s])
           /\ refresh'.found[s] # None => refresh'.found[s] <= disk[s].text
           /\ refresh.rows[s] # None /\ refresh'.updated[s] # None
                => refresh.rows[s].text <= refresh'.updated[s].text
           /\ refresh'.updated[s] # None
                => refresh.updated[s] # None \/ disk[s].there
  PROVE  SafeInv'
<1>1. ASSUME NEW s \in Sessions
      PROVE  SessionSafe(s)'
  <2>1. SessionHonest(s) /\ KnownIsShown(s) /\ DeletedIsGone(s)
    BY DEF SafeInv, SessionSafe
  <2>2. SessionHonest(s)'
    BY <2>1 DEF SessionHonest
  <2>3. KnownIsShown(s)'
    BY <2>1 DEF KnownIsShown
  <2>4. DeletedIsGone(s)'
    BY <2>1 DEF DeletedIsGone
  <2> QED  BY <2>2, <2>3, <2>4 DEF SessionSafe
<1> QED  BY <1>1 DEF SafeInv, OpenIsListed

LEMMA DiscoverSafe ==
  ASSUME SafeInv, NEW a \in Agents, Discover(a)
  PROVE  SafeInv'
<1>1. TypeOK
  BY DEF SafeInv
<1>2. PICK seen \in SUBSET {s \in Sessions : AgentOf[s] = a /\ disk[s].there} :
        /\ TypeOK' /\ UNCHANGED <<disk, rows, skipped, dialog, open, changed>>
        /\ refresh.pc = "discover" /\ refresh'.pc = "read"
        /\ refresh'.rows = refresh.rows /\ refresh'.known = refresh.known
        /\ refresh'.updated = refresh.updated
        /\ \A s \in Sessions :
             /\ refresh'.found[s] = IF s \in seen THEN disk[s].text ELSE None
             /\ s \in refresh'.unread <=> s \in seen /\ ~IsKnown(s, disk[s].text)
             /\ refresh'.skipped.unlisted[s] \in
                  {refresh.known.unlisted[s], refresh.skipped.unlisted[s]}
             /\ refresh'.skipped.unreadable[s] \in
                  {refresh.known.unreadable[s], refresh.skipped.unreadable[s]}
        /\ history'.deleted = history.deleted
  BY <1>1, DiscoverStep, SMTT(40)
<1>3. is_refreshing /\ is_refreshing'
  BY <1>2 DEF is_refreshing
<1>4. UnreadWereFound'
  <2>1. refresh'.unread \subseteq Sessions
    BY <1>2 DEF TypeOK, Refresh
  <2>2. \A s \in Sessions : disk[s].text # None
    BY <1>1, SessionNumbers, NoneAssumption
  <2> QED  BY <1>2, <2>1, <2>2 DEF UnreadWereFound
<1>5. ASSUME NEW s \in Sessions
      PROVE  /\ Honest(refresh'.updated[s], disk[s])
             /\ HonestStamps(refresh'.skipped, s, disk[s])
             /\ refresh'.found[s] # None => refresh'.found[s] <= disk[s].text
             /\ refresh.rows[s] # None /\ refresh'.updated[s] # None
                  => refresh.rows[s].text <= refresh'.updated[s].text
             /\ refresh'.updated[s] # None
                  => refresh.updated[s] # None \/ disk[s].there
  <2>1. SessionHonest(s) /\ KnownIsShown(s)
    BY DEF SafeInv, SessionSafe
  <2>2. HonestStamps(refresh'.skipped, s, disk[s])
    BY <1>2, <2>1 DEF SessionHonest, HonestStamps
  <2>3. refresh'.found[s] # None => refresh'.found[s] <= disk[s].text
    BY <1>1, <1>2, SessionNumbers
  <2> QED  BY <1>2, <2>1, <2>2, <2>3 DEF SessionHonest, KnownIsShown
<1> QED  BY <1>2, <1>3, <1>4, <1>5, ThreadSafe

LEMMA OtherThreadSafe ==
  ASSUME SafeInv, NextAgent \/ Stop \/ \E a \in Agents : FailDiscovery(a)
  PROVE  SafeInv'
<1>1. TypeOK
  BY DEF SafeInv
<1>2. /\ TypeOK' /\ UNCHANGED <<disk, rows, skipped, dialog, open, changed>>
      /\ refresh.pc \in {"discover", "read"} /\ refresh'.pc # "idle"
      /\ refresh'.rows = refresh.rows /\ refresh'.known = refresh.known
      /\ refresh'.found = refresh.found /\ refresh'.unread = refresh.unread
      /\ refresh'.updated = refresh.updated
      /\ \A s \in Sessions :
           /\ refresh'.skipped.unlisted[s] \in
                {refresh.known.unlisted[s], refresh.skipped.unlisted[s]}
           /\ refresh'.skipped.unreadable[s] \in
                {refresh.known.unreadable[s], refresh.skipped.unreadable[s]}
      /\ history'.deleted = history.deleted
  BY <1>1, OtherThreadSteps
<1>3. is_refreshing /\ is_refreshing' /\ UnreadWereFound'
  BY <1>2 DEF is_refreshing, SafeInv, UnreadWereFound
<1>4. ASSUME NEW s \in Sessions
      PROVE  /\ Honest(refresh'.updated[s], disk[s])
             /\ HonestStamps(refresh'.skipped, s, disk[s])
             /\ refresh'.found[s] # None => refresh'.found[s] <= disk[s].text
             /\ refresh.rows[s] # None /\ refresh'.updated[s] # None
                  => refresh.rows[s].text <= refresh'.updated[s].text
             /\ refresh'.updated[s] # None
                  => refresh.updated[s] # None \/ disk[s].there
  <2>1. SessionHonest(s) /\ KnownIsShown(s)
    BY DEF SafeInv, SessionSafe
  <2>2. HonestStamps(refresh'.skipped, s, disk[s])
    BY <1>2, <2>1 DEF SessionHonest, HonestStamps
  <2> QED  BY <1>2, <2>1, <2>2 DEF SessionHonest, KnownIsShown
<1> QED  BY <1>2, <1>3, <1>4, ThreadSafe

LEMMA ReadSafe ==
  ASSUME SafeInv, NEW s \in Sessions, Read(s)
  PROVE  SafeInv'
<1>1. TypeOK /\ UnreadWereFound
  BY DEF SafeInv
<1>2. /\ TypeOK' /\ UNCHANGED <<disk, rows, skipped, dialog, open, changed>>
      /\ refresh.pc = "read" /\ s \in refresh.unread
      /\ history'.deleted = history.deleted
  BY <1>1, ReadStep
<1>3. PICK read \in Reads(disk[s]) : refresh' = Absorb(s, read)
  BY <1>1, ReadStep
<1> DEFINE found == refresh.found[s]
<1>4. /\ found \in Text
      /\ refresh'.pc = refresh.pc
      /\ refresh'.rows = refresh.rows /\ refresh'.known = refresh.known
      /\ refresh'.found = refresh.found /\ refresh'.unread = refresh.unread \ {s}
      /\ \A q \in Sessions \ {s} :
           /\ refresh'.updated[q] = refresh.updated[q]
           /\ refresh'.skipped.unlisted[q] = refresh.skipped.unlisted[q]
           /\ refresh'.skipped.unreadable[q] = refresh.skipped.unreadable[q]
      /\ refresh'.updated[s] =
           IF IsRow(read) /\ Joins(s) THEN RowOf(found, disk[s], read)
           ELSE refresh.updated[s]
      /\ refresh'.skipped.unlisted[s] =
           CASE read = "empty" \/ (read = "listed" /\ ~Joins(s)) -> found
             [] read = "partial" /\ ~Joins(s) -> None
             [] OTHER -> refresh.skipped.unlisted[s]
      /\ refresh'.skipped.unreadable[s] =
           IF read = "permanent" THEN found ELSE refresh.skipped.unreadable[s]
  BY <1>1, <1>2, <1>3, AbsorbFacts
<1>5. is_refreshing /\ is_refreshing' /\ UnreadWereFound'
  BY <1>1, <1>2, <1>4 DEF is_refreshing, UnreadWereFound
<1>6. ASSUME NEW q \in Sessions
      PROVE  /\ Honest(refresh'.updated[q], disk[q])
             /\ HonestStamps(refresh'.skipped, q, disk[q])
             /\ refresh'.found[q] # None => refresh'.found[q] <= disk[q].text
             /\ refresh.rows[q] # None /\ refresh'.updated[q] # None
                  => refresh.rows[q].text <= refresh'.updated[q].text
             /\ refresh'.updated[q] # None
                  => refresh.updated[q] # None \/ disk[q].there
  <2>1. SessionHonest(q) /\ KnownIsShown(q)
    BY DEF SafeInv, SessionSafe
  <2>2. CASE q # s
    BY <1>4, <2>1, <2>2 DEF SessionHonest, KnownIsShown, HonestStamps
  <2>3. CASE q = s
    <3>1. disk[s] \in Transcript /\ disk[s].text \in Nat /\ found \in Nat
      BY <1>1, <1>4, SessionNumbers, BoundAssumption DEF Text
    <3>2. found <= disk[s].text
      BY <1>4, <2>1, <2>3, NoneAssumption, BoundAssumption DEF SessionHonest, Text
    <3>3. /\ IsRow(read) => disk[s].there /\ disk[s].kind \in {"listed", "outside"}
          /\ read = "empty" => disk[s].there /\ disk[s].kind = "empty"
          /\ read = "permanent" => ~disk[s].there \/ disk[s].kind = "bad"
      BY <3>1, ReadFacts
    <3>4. /\ RowOf(found, disk[s], read) \in Row
          /\ RowOf(found, disk[s], read).stamp = found
          /\ RowOf(found, disk[s], read).text = disk[s].text
      BY <1>4, <3>1, RowOfFacts
    <3>5. refresh.rows[s] # None => /\ refresh.rows[s].text \in Nat
                                    /\ refresh.rows[s].text <= disk[s].text
      BY <1>1, <2>1, <2>3, SessionNumbers, RowNumbers DEF SessionHonest, Honest
    <3>6. Honest(refresh'.updated[s], disk[s])
      BY <1>4, <2>1, <2>3, <3>1, <3>2, <3>3, <3>4 DEF SessionHonest, Honest
    <3>7. HonestStamps(refresh'.skipped, s, disk[s])
      <4>1. IsRow(read) /\ ~Joins(s) => disk[s].kind = "outside"
        BY <3>3 DEF Joins
      <4>2. read = "listed" => IsRow(read)
        BY DEF IsRow
      <4>3. refresh'.skipped.unlisted[s] \in
              {found, None, refresh.skipped.unlisted[s]}
        BY <1>4
      <4>4. /\ refresh'.skipped.unlisted[s] # None =>
                 refresh'.skipped.unlisted[s] <= disk[s].text
            /\ refresh'.skipped.unlisted[s] # None
               /\ refresh'.skipped.unlisted[s] = disk[s].text
                 => disk[s].kind \in {"outside", "empty"}
        BY <1>4, <2>1, <2>3, <3>2, <3>3, <4>1, <4>2, <4>3
           DEF SessionHonest, HonestStamps
      <4>5. /\ refresh'.skipped.unreadable[s] # None =>
                 refresh'.skipped.unreadable[s] <= disk[s].text
            /\ refresh'.skipped.unreadable[s] # None
               /\ refresh'.skipped.unreadable[s] = disk[s].text
                 => ~disk[s].there \/ disk[s].kind = "bad"
        BY <1>4, <2>1, <2>3, <3>2, <3>3 DEF SessionHonest, HonestStamps
      <4> QED  BY <4>4, <4>5 DEF HonestStamps
    <3>8. refresh.rows[s] # None /\ refresh'.updated[s] # None
            => refresh.rows[s].text <= refresh'.updated[s].text
      BY <1>4, <2>1, <2>3, <3>4, <3>5 DEF KnownIsShown
    <3>9. refresh'.updated[s] # None => refresh.updated[s] # None \/ disk[s].there
      BY <1>4, <3>3
    <3> QED  BY <1>4, <2>1, <2>3, <3>6, <3>7, <3>8, <3>9 DEF SessionHonest
  <2> QED  BY <2>2, <2>3
<1> QED  BY <1>2, <1>4, <1>5, <1>6, ThreadSafe

LEMMA IdleFields ==
  ASSUME refresh' = Idle
  PROVE  /\ refresh'.pc = "idle" /\ refresh'.unread = {}
         /\ \A s \in Sessions :
              /\ refresh'.rows[s] = None /\ refresh'.updated[s] = None
              /\ refresh'.found[s] = None
              /\ refresh'.known.unlisted[s] = None
              /\ refresh'.known.unreadable[s] = None
              /\ refresh'.skipped.unlisted[s] = None
              /\ refresh'.skipped.unreadable[s] = None
BY DEF Idle, NoRows, NoStamps, NoneSkipped

LEMMA BeginSafe ==
  ASSUME SafeInv, Begin
  PROVE  SafeInv'
<1>1. TypeOK
  BY DEF SafeInv
<1>2. /\ TypeOK' /\ UNCHANGED <<disk, rows, skipped, dialog, open, changed>>
      /\ ~is_refreshing /\ refresh'.pc = "discover"
      /\ refresh'.rows = rows /\ refresh'.known = skipped
      /\ refresh'.unread = {}
      /\ \A s \in Sessions :
           /\ refresh'.found[s] = None /\ refresh'.updated[s] = None
           /\ refresh'.skipped.unlisted[s] = None
           /\ refresh'.skipped.unreadable[s] = None
      /\ history'.deleted = history.deleted
  BY <1>1, BeginStep
<1>3. is_refreshing' /\ UnreadWereFound'
  BY <1>2 DEF is_refreshing, UnreadWereFound
<1>4. ASSUME NEW s \in Sessions
      PROVE  SessionSafe(s)'
  <2>1. SessionHonest(s) /\ DeletedIsGone(s)
    BY DEF SafeInv, SessionSafe
  <2>2. SessionHonest(s)'
    BY <1>2, <2>1 DEF SessionHonest, Honest, HonestStamps
  <2>3. KnownIsShown(s)' /\ DeletedIsGone(s)'
    BY <1>2, <2>1 DEF KnownIsShown, DeletedIsGone
  <2> QED  BY <2>2, <2>3 DEF SessionSafe
<1> QED  BY <1>2, <1>3, <1>4 DEF SafeInv, OpenIsListed

(* What applying leaves of a row is gone, was just read, or was there.     *)
LEMMA AppliedRows ==
  ASSUME TypeOK, NEW s \in Sessions, AppliedRow(s)
  PROVE  \/ rows'[s] = None
         \/ Fresh(rows'[s], disk[s]) /\ s \in changed /\ rows[s] # None
         \/ rows'[s] = rows[s]
         \/ /\ rows'[s] = refresh.updated[s] /\ refresh.updated[s] # None
            /\ s \notin changed /\ (rows[s] # None) = (refresh.rows[s] # None)
<1>1. rows[s] \in Row \cup {None} /\ disk[s] \in Transcript
  BY SessionNumbers
<1>2. CASE s \in changed /\ rows[s] # None
  <2>1. PICK read \in Rereads(disk[s]) : rows'[s] = Reread(rows[s], disk[s], read)
    BY <1>2 DEF AppliedRow
  <2> QED  BY <1>1, <1>2, <2>1, RereadRow, RereadFacts
<1>3. CASE s \in changed /\ rows[s] = None
  BY <1>3 DEF AppliedRow
<1>4. CASE s \notin changed
  BY <1>4 DEF AppliedRow
<1> QED  BY <1>2, <1>3, <1>4

LEMMA ApplySafe ==
  ASSUME SafeInv, Apply
  PROVE  SafeInv'
<1>1. TypeOK
  BY DEF SafeInv
<1>2. /\ TypeOK' /\ disk' = disk /\ open' = open /\ ~covered
      /\ refresh' = Idle /\ changed' = {}
      /\ history'.deleted = history.deleted
      /\ \/ UNCHANGED <<rows, skipped>>
         \/ \A s \in Sessions : AppliedRow(s)
  BY <1>1, ApplyStep
<1>3. ~is_refreshing' /\ UnreadWereFound'
  BY <1>2, IdleFields DEF is_refreshing, UnreadWereFound
<1>4. OpenIsListed'
  BY <1>2 DEF covered, OpenIsListed
<1>5. ASSUME NEW s \in Sessions
      PROVE  SessionSafe(s)'
  <2>1. SessionHonest(s) /\ KnownIsShown(s) /\ DeletedIsGone(s)
    BY DEF SafeInv, SessionSafe
  <2>2. disk[s] \in Transcript
    BY <1>1, SessionNumbers
  <2>3. /\ Honest(rows'[s], disk[s]) /\ HonestStamps(skipped', s, disk[s])
        /\ NotLater(skipped'.unlisted[s], rows'[s])
    <3>1. CASE UNCHANGED <<rows, skipped>>
      BY <2>1, <3>1 DEF SessionHonest
    <3>2. CASE AppliedRow(s)
      <4>1. Honest(rows'[s], disk[s])
        <5>1. CASE rows'[s] = None
          BY <5>1 DEF Honest
        <5>2. CASE Fresh(rows'[s], disk[s])
          BY <2>2, <5>2, FreshHonest
        <5>3. CASE rows'[s] = rows[s] \/ rows'[s] = refresh.updated[s]
          BY <2>1, <5>3 DEF SessionHonest
        <5> QED  BY <1>1, <3>2, <5>1, <5>2, <5>3, AppliedRows
      <4>2. /\ skipped'.unlisted[s] =
                 IF rows'[s] # None THEN None ELSE refresh.skipped.unlisted[s]
            /\ skipped'.unreadable[s] = refresh.skipped.unreadable[s]
        BY <3>2 DEF AppliedRow
      <4>3. HonestStamps(skipped', s, disk[s])
        BY <2>1, <4>2 DEF SessionHonest, HonestStamps
      <4> QED  BY <4>1, <4>2, <4>3 DEF NotLater
    <3> QED  BY <1>2, <3>1, <3>2
  <2>4. /\ refresh'.rows[s] = None /\ refresh'.updated[s] = None
        /\ refresh'.found[s] = None
        /\ refresh'.known.unlisted[s] = None
        /\ refresh'.known.unreadable[s] = None
        /\ refresh'.skipped.unlisted[s] = None
        /\ refresh'.skipped.unreadable[s] = None
    BY <1>2, IdleFields
  <2>5. SessionHonest(s)'
    BY <1>2, <2>3, <2>4 DEF SessionHonest, Honest, HonestStamps, NotLater
  <2>6. KnownIsShown(s)'
    BY <1>3, <2>4 DEF KnownIsShown
  <2>7. DeletedIsGone(s)'
    <3>1. ASSUME s \in history.deleted
          PROVE  ~disk[s].there /\ rows'[s] = None
      <4>1. /\ ~disk[s].there /\ rows[s] = None
            /\ is_refreshing /\ s \notin changed => refresh.updated[s] = None
        BY <2>1, <3>1 DEF DeletedIsGone
      <4>2. is_refreshing
        BY <1>1, ApplyStep DEF is_refreshing
      <4> QED  BY <1>1, <1>2, <4>1, <4>2, AppliedRows
    <3> QED  BY <1>2, <1>3, <3>1 DEF DeletedIsGone
  <2> QED  BY <2>5, <2>6, <2>7 DEF SessionSafe
<1> QED  BY <1>2, <1>3, <1>4, <1>5 DEF SafeInv

LEMMA NextCases ==
  ASSUME Next
  PROVE  \/ Outside \/ Begin \/ Apply
         \/ NextAgent \/ Stop \/ \E a \in Agents : FailDiscovery(a)
         \/ \E a \in Agents : Discover(a)
         \/ \E s \in Sessions : Read(s)
BY DEF Next, Outside, Thread

LEMMA SafeStep == SafeInv /\ [Next]_vars => SafeInv'
<1> SUFFICES ASSUME SafeInv, [Next]_vars PROVE SafeInv'
  OBVIOUS
<1>1. CASE Next
  BY <1>1, NextCases, OutsideSafe, BeginSafe, ApplySafe, OtherThreadSafe,
     DiscoverSafe, ReadSafe
<1>2. CASE UNCHANGED vars
  <2>1. TypeOK' /\ UnreadWereFound' /\ OpenIsListed' /\ (~is_refreshing' => changed' = {})
    BY <1>2 DEF vars, SafeInv, TypeOK, UnreadWereFound, OpenIsListed, is_refreshing
  <2>2. ASSUME NEW s \in Sessions
        PROVE  SessionSafe(s)'
    <3>1. SessionSafe(s)
      BY DEF SafeInv
    <3> QED
      BY <1>2, <3>1 DEF vars, SessionSafe, SessionHonest, KnownIsShown,
                        DeletedIsGone, is_refreshing
  <2> QED  BY <2>1, <2>2 DEF SafeInv
<1> QED  BY <1>1, <1>2

(* The inductive invariant behind the theorems: what a refresh found, read *)
(* and keeps of each session agrees with the transcript it was found as,   *)
(* and no step of the user or of an agent comes between them.              *)
THEOREM SpecIsSafe == Spec => []SafeInv
<1>1. QED  BY InitSafe, SafeStep, PTL DEF Spec

-----------------------------------------------------------------------------
(* Theorems *)

(* Each variable has its type, whatever the transcripts become and         *)
(* whatever fails.                                                         *)
THEOREM TypeCorrect == Spec => []TypeOK
<1>1. SafeInv => TypeOK
  BY DEF SafeInv
<1> QED  BY <1>1, SpecIsSafe, PTL

(* A session the user deletes, during a refresh or before one, gets no row *)
(* again from any refresh, rename, lookup or reading of it                 *)
(* (apply_session_changes), until an agent writes it again.                *)
THEOREM DeletedStaysOutHolds == Spec => []DeletedStaysOut
<1>1. SafeInv => DeletedStaysOut
  BY DEF SafeInv, SessionSafe, DeletedIsGone, DeletedStaysOut, Listed
<1> QED  BY <1>1, SpecIsSafe, PTL

LEMMA RowsStep == SafeInv /\ [Next]_vars =>
  [\A s \in Listed : rows'[s] # None => rows'[s].text >= rows[s].text]_vars
<1> SUFFICES ASSUME SafeInv, Next, NEW s \in Listed, rows'[s] # None
             PROVE  rows'[s].text >= rows[s].text
  OBVIOUS
<1>1. TypeOK /\ s \in Sessions /\ SessionHonest(s) /\ KnownIsShown(s) /\ rows[s] # None
  BY DEF SafeInv, SessionSafe, Listed
<1>2. rows[s].text \in Nat /\ disk[s].text \in Nat /\ rows[s].text <= disk[s].text
  BY <1>1, SessionNumbers, RowNumbers DEF SessionHonest, Honest
<1>3. CASE rows'[s] = rows[s]
  BY <1>2, <1>3
<1>4. CASE Outside
  <2>1. Later(disk[s], disk'[s]) /\ (rows'[s] = rows[s] \/ Fresh(rows'[s], disk'[s]))
    BY <1>1, <1>4, OutsideEffects DEF SafeInv, OutsideStep
  <2>2. disk'[s].text \in Nat /\ disk[s].text <= disk'[s].text
    BY <1>2, <2>1, BoundAssumption DEF Later, Transcript, Text
  <2> QED  BY <1>2, <1>3, <2>1, <2>2 DEF Fresh
<1>5. CASE Apply
  <2>1. rows'[s] = rows[s] \/ AppliedRow(s)
    BY <1>1, <1>5, ApplyStep
  <2>2. CASE AppliedRow(s)
    <3>1. CASE Fresh(rows'[s], disk[s])
      BY <1>2, <3>1 DEF Fresh
    <3>2. CASE /\ rows'[s] = refresh.updated[s] /\ refresh.updated[s] # None
               /\ s \notin changed
      <4>1. is_refreshing
        BY <1>1, <1>5, ApplyStep DEF is_refreshing
      <4>2. rows[s] = refresh.rows[s]
        BY <1>1, <3>2, <4>1 DEF KnownIsShown
      <4>3. refresh.updated[s].text \in Nat
        BY <1>1, <3>2, SessionNumbers, RowNumbers
      <4> QED  BY <1>1, <1>2, <3>2, <4>2, <4>3 DEF KnownIsShown
    <3> QED  BY <1>1, <1>3, <2>2, <3>1, <3>2, AppliedRows
  <2> QED  BY <1>3, <2>1, <2>2
<1>6. CASE ~Outside /\ ~Apply
  BY <1>1, <1>3, <1>6, NextCases, BeginStep, OtherThreadSteps, DiscoverStep, ReadStep
     DEF SafeInv
<1> QED  BY <1>4, <1>5, <1>6

(* No refresh, applied however late, takes a row back to an older reading  *)
(* of its session than the list shows (apply_session_changes).             *)
THEOREM RowsNeverGoBackHolds == Spec => RowsNeverGoBack
BY SpecIsSafe, RowsStep, PTL DEF Spec, RowsNeverGoBack

-----------------------------------------------------------------------------
(* Rows that leave *)

(* What the refresh is to remove was gone, or empty, since it began.       *)
RemovedWasGone ==
  is_refreshing => /\ refresh.removed \subseteq history.missing
                   /\ Missing(disk) \subseteq history.missing

LEMMA RemovedStep ==
  ASSUME "directory" \notin Faults, SafeInv, RemovedWasGone, [Next]_vars
  PROVE  RemovedWasGone'
<1>1. TypeOK /\ UnreadWereFound
  BY DEF SafeInv
<1>2. CASE Outside
  <2>1. MissingStep /\ refresh' = refresh
    BY <1>1, <1>2, OutsideEffects DEF SafeInv, OutsideStep
  <2>2. is_refreshing' = is_refreshing
    BY <2>1 DEF is_refreshing
  <2>3. disk' = disk => Missing(disk') = Missing(disk)
    OBVIOUS
  <2> QED  BY <2>1, <2>2, <2>3 DEF MissingStep, RemovedWasGone
<1>3. CASE Begin
  BY <1>1, <1>3, BeginStep DEF RemovedWasGone
<1>4. CASE Apply
  BY <1>1, <1>4, ApplyStep, IdleFields DEF RemovedWasGone, is_refreshing
<1>5. CASE NextAgent \/ Stop \/ \E a \in Agents : FailDiscovery(a)
  <2>1. /\ disk' = disk /\ history'.missing = history.missing
        /\ refresh'.removed = refresh.removed /\ is_refreshing
    BY <1>1, <1>5, OtherThreadSteps DEF is_refreshing
  <2> QED  BY <2>1 DEF RemovedWasGone
<1>6. ASSUME NEW a \in Agents, Discover(a)
      PROVE  RemovedWasGone'
  <2>1. PICK seen \in SUBSET {s \in Sessions : AgentOf[s] = a /\ disk[s].there} :
          /\ TypeOK' /\ disk' = disk /\ refresh.pc = "discover"
          /\ \A s \in Sessions :
               s \in refresh'.removed <=>
                 \/ s \in refresh.removed
                 \/ AgentOf[s] = a /\ s \notin seen /\ refresh.rows[s] # None
          /\ history'.missing = history.missing
          /\ seen = {s \in Sessions : AgentOf[s] = a /\ disk[s].there}
    BY <1>1, <1>6, DiscoverStep
  <2>2. refresh'.removed \subseteq Sessions
    BY <2>1 DEF TypeOK, Refresh
  <2>3. \A s \in Sessions : s \in refresh'.removed =>
          s \in refresh.removed \/ s \in Missing(disk)
    BY <2>1 DEF Missing, IsMissing
  <2>4. is_refreshing
    BY <2>1 DEF is_refreshing
  <2> QED  BY <2>1, <2>2, <2>3, <2>4 DEF RemovedWasGone
<1>7. ASSUME NEW s \in Sessions, Read(s)
      PROVE  RemovedWasGone'
  <2>1. /\ disk' = disk /\ history'.missing = history.missing
        /\ s \in refresh.unread /\ is_refreshing
    BY <1>1, <1>7, ReadStep DEF is_refreshing
  <2>2. PICK read \in Reads(disk[s]) : refresh' = Absorb(s, read)
    BY <1>1, <1>7, ReadStep
  <2>3. refresh'.removed = IF read = "empty" /\ refresh.rows[s] # None
                           THEN refresh.removed \cup {s} ELSE refresh.removed
    BY <1>1, <2>1, <2>2, AbsorbFacts
  <2>4. read = "empty" => s \in Missing(disk)
    BY <1>1, ReadFacts, SessionNumbers DEF Missing, IsMissing
  <2> QED  BY <2>1, <2>3, <2>4 DEF RemovedWasGone
<1>8. CASE UNCHANGED vars
  BY <1>8 DEF vars, RemovedWasGone, is_refreshing
<1> QED  BY <1>2, <1>3, <1>4, <1>5, <1>6, <1>7, <1>8, NextCases

LEMMA LeaveStep == SafeInv /\ RemovedWasGone /\ [Next]_vars =>
  [\A s \in Listed : rows'[s] = None => s \in history'.missing \cup Missing(disk')]_vars
<1> SUFFICES ASSUME SafeInv, RemovedWasGone, Next, NEW s \in Listed, rows'[s] = None
             PROVE  s \in history'.missing \cup Missing(disk')
  OBVIOUS
<1>1. TypeOK /\ UnreadWereFound /\ s \in Sessions /\ rows[s] # None
  BY DEF SafeInv, Listed
<1>2. CASE Outside
  BY <1>1, <1>2, OutsideEffects DEF SafeInv, LeavingStep, Missing
<1>3. CASE Apply
  <2>1. /\ AppliedRow(s) /\ disk' = disk /\ is_refreshing
        /\ history'.missing = history.missing
    BY <1>1, <1>3, ApplyStep DEF is_refreshing
  <2>2. CASE s \in changed
    <3>1. PICK read \in Rereads(disk[s]) : rows'[s] = Reread(rows[s], disk[s], read)
      BY <1>1, <2>1, <2>2 DEF AppliedRow
    <3>2. disk[s] \in Transcript /\ rows[s] \in Row
      BY <1>1, SessionNumbers
    <3>3. read \in {"gone", "empty"}
      BY <1>1, <3>1, <3>2, RereadRow, RereadFacts, NoneAssumption DEF Fresh
    <3> QED  BY <1>1, <2>1, <3>2, <3>3, RereadFacts DEF Missing, IsMissing
  <2>3. CASE s \notin changed
    <3>1. s \in refresh.removed
      BY <1>1, <2>1, <2>3 DEF AppliedRow
    <3> QED  BY <2>1, <3>1 DEF RemovedWasGone
  <2> QED  BY <2>2, <2>3
<1>4. CASE ~Outside /\ ~Apply
  BY <1>1, <1>4, NextCases, BeginStep, OtherThreadSteps, DiscoverStep, ReadStep
<1> QED  BY <1>2, <1>3, <1>4

(* Where every directory can be listed, a row leaves the list only when    *)
(* its session was gone, or held no conversation, since the refresh began: *)
(* no failed discovery, failed read or stopped thread drops one            *)
(* (SessionChanges.removed).                                               *)
THEOREM OnlyGoneRowsLeaveHolds ==
  ASSUME "directory" \notin Faults
  PROVE  Spec => OnlyGoneRowsLeave
<1>1. Init => RemovedWasGone
  BY DEF Init, Idle, RemovedWasGone, is_refreshing
<1>2. SafeInv /\ RemovedWasGone /\ [Next]_vars => RemovedWasGone'
  BY RemovedStep
<1> QED  BY <1>1, <1>2, SpecIsSafe, LeaveStep, PTL DEF Spec, OnlyGoneRowsLeave

-----------------------------------------------------------------------------
(* A quiet refresh *)

(* A row shows what its transcript holds (IsUpToDate).                     *)
Shows(row, t) ==
  /\ IsMissing(t) => row = None
  /\ ~IsMissing(t) /\ t.kind = "listed" =>
       row = [stamp |-> t.text, text |-> t.text, whole |-> TRUE]
  /\ ~IsMissing(t) /\ t.kind = "outside" /\ row # None => row.text = t.text

(* The row a session is to get, once the refresh has dealt with it.        *)
Settled(s) ==
  /\ IsMissing(disk[s]) =>
       /\ refresh.updated[s] = None
       /\ refresh.rows[s] # None => s \in refresh.removed
  /\ ~IsMissing(disk[s]) =>
       Shows(IF refresh.updated[s] # None THEN refresh.updated[s]
             ELSE refresh.rows[s], disk[s])

Waits(s) == AgentOf[s] \in refresh.left \/ s \in refresh.unread

QuietSession(s) ==
  /\ s \in refresh.removed => IsMissing(disk[s])
  /\ Waits(s) => refresh.updated[s] = None
  /\ s \in refresh.unread => /\ AgentOf[s] \notin refresh.left
                             /\ refresh.found[s] = disk[s].text /\ disk[s].there
  /\ ~Waits(s) => Settled(s)
  /\ s \in changed /\ rows[s] = None => IsMissing(disk[s])

QuietInv ==
  history.quiet =>
    /\ ~is_refreshing => \A s \in Sessions : Shows(rows[s], disk[s])
    /\ is_refreshing =>
         /\ refresh.failed = {}
         /\ refresh.pc = "discover" => refresh.unread = {}
         /\ refresh.pc = "done" => refresh.left = {} /\ refresh.unread = {}
         /\ \A s \in Sessions : QuietSession(s)

LEMMA FreshShows ==
  ASSUME NEW t \in Transcript, NEW row, Fresh(row, t), row.whole
  PROVE  Shows(row, t)
BY BoundAssumption, NoneAssumption DEF Fresh, Shows, Row, Transcript, IsMissing

(* A session that a refresh skips as unchanged needs no reading.           *)
LEMMA KnownIsSettled ==
  ASSUME TypeOK, NEW s \in Sessions, SessionHonest(s), disk[s].there,
         IsKnown(s, disk[s].text)
  PROVE  /\ IsMissing(disk[s]) => refresh.rows[s] = None
         /\ ~IsMissing(disk[s]) => Shows(refresh.rows[s], disk[s])
<1>1. /\ disk[s] \in Transcript /\ disk[s].text \in Nat
      /\ refresh.rows[s] \in Row \cup {None}
      /\ refresh.known.unlisted[s] \in Nat \cup {None}
      /\ refresh.known.unreadable[s] \in Nat \cup {None}
  BY SessionNumbers
<1>2. refresh.rows[s] # None =>
        /\ refresh.rows[s] \in Row
        /\ refresh.rows[s].stamp \in Nat /\ refresh.rows[s].text \in Nat
        /\ refresh.rows[s].stamp <= refresh.rows[s].text
        /\ refresh.rows[s].text <= disk[s].text
        /\ refresh.rows[s].text = disk[s].text => disk[s].kind \in {"listed", "outside"}
  BY <1>1, RowNumbers DEF SessionHonest, Honest
<1>3. CASE /\ refresh.rows[s] # None /\ refresh.rows[s].stamp = disk[s].text
           /\ refresh.rows[s].whole
  <2>1. refresh.rows[s].text = disk[s].text
    BY <1>1, <1>2, <1>3
  <2>2. Fresh(refresh.rows[s], disk[s])
    BY <1>2, <1>3, <2>1 DEF Fresh
  <2> QED  BY <1>1, <1>2, <1>3, <2>1, <2>2, FreshShows DEF IsMissing
<1>4. CASE refresh.known.unlisted[s] # None /\ refresh.known.unlisted[s] = disk[s].text
  <2>1. disk[s].kind \in {"outside", "empty"}
    BY <1>4 DEF SessionHonest, HonestStamps
  <2>2. refresh.rows[s] # None => refresh.rows[s].text = disk[s].text
    BY <1>1, <1>2, <1>4 DEF SessionHonest, NotLater
  <2> QED  BY <1>2, <2>1, <2>2 DEF Shows, IsMissing
<1>5. CASE refresh.known.unreadable[s] # None
           /\ refresh.known.unreadable[s] = disk[s].text
  <2>1. disk[s].kind = "bad"
    BY <1>5 DEF SessionHonest, HonestStamps
  <2> QED  BY <2>1 DEF Shows, IsMissing
<1> QED  BY <1>3, <1>4, <1>5 DEF IsKnown, IsUnchanged

LEMMA OutsideQuiet ==
  ASSUME SafeInv, QuietInv, Outside
  PROVE  QuietInv'
<1> SUFFICES ASSUME history'.quiet PROVE QuietInv'
  BY DEF QuietInv
<1>1. TypeOK /\ TypeOK' /\ OutsideStep /\ LeavingStep /\ QuietStep
  BY OutsideEffects DEF SafeInv
<1>2. history.quiet /\ disk' = disk /\ refresh' = refresh
      /\ is_refreshing' = is_refreshing
  BY <1>1 DEF QuietStep, OutsideStep, is_refreshing
<1>3. ASSUME NEW s \in Sessions, ~is_refreshing
      PROVE  Shows(rows'[s], disk[s])
  <2>1. disk[s] \in Transcript /\ Shows(rows[s], disk[s])
    BY <1>1, <1>2, <1>3, SessionNumbers DEF QuietInv
  <2>2. CASE rows'[s] = rows[s]
    BY <2>1, <2>2
  <2>3. CASE rows'[s] # rows[s] /\ rows'[s] = None
    BY <1>1, <1>2, <2>3 DEF LeavingStep, Shows
  <2>4. CASE rows'[s] # rows[s] /\ rows'[s] # None
    BY <1>1, <1>2, <2>1, <2>4, FreshShows DEF OutsideStep, QuietStep
  <2> QED  BY <2>2, <2>3, <2>4
<1>4. ASSUME NEW s \in Sessions, is_refreshing
      PROVE  QuietSession(s)'
  <2>1. QuietSession(s)
    BY <1>2, <1>4 DEF QuietInv
  <2>2. s \in changed' /\ rows'[s] = None => IsMissing(disk[s])
    BY <1>1, <1>2, <2>1 DEF QuietSession, QuietStep, LeavingStep
  <2> QED  BY <1>2, <2>1, <2>2 DEF QuietSession, Waits, Settled
<1> QED  BY <1>2, <1>3, <1>4 DEF QuietInv

LEMMA BeginQuiet ==
  ASSUME SafeInv, Begin
  PROVE  QuietInv'
<1>1. /\ refresh'.pc = "discover" /\ refresh'.left = Agents /\ refresh'.failed = {}
      /\ refresh'.unread = {} /\ refresh'.removed = {} /\ changed' = {}
      /\ \A s \in Sessions : refresh'.updated[s] = None
  BY BeginStep DEF SafeInv
<1>2. \A s \in Sessions : AgentOf[s] \in refresh'.left
  BY <1>1, AgentAssumption
<1> QED  BY <1>1, <1>2 DEF QuietInv, QuietSession, Waits, is_refreshing

LEMMA DiscoverQuiet ==
  ASSUME SafeInv, QuietInv, NEW a \in Agents, Discover(a)
  PROVE  QuietInv'
<1> SUFFICES ASSUME history'.quiet PROVE QuietInv'
  BY DEF QuietInv
<1>1. TypeOK
  BY DEF SafeInv
<1>2. PICK seen \in SUBSET {s \in Sessions : AgentOf[s] = a /\ disk[s].there} :
        /\ disk' = disk /\ rows' = rows /\ changed' = changed
        /\ refresh.pc = "discover" /\ a \in refresh.left
        /\ refresh'.pc = "read" /\ refresh'.left = refresh.left \ {a}
        /\ refresh'.rows = refresh.rows
        /\ refresh'.failed = refresh.failed /\ refresh'.updated = refresh.updated
        /\ \A s \in Sessions :
             /\ refresh'.found[s] = IF s \in seen THEN disk[s].text ELSE None
             /\ s \in refresh'.unread <=> s \in seen /\ ~IsKnown(s, disk[s].text)
             /\ s \in refresh'.removed <=>
                  \/ s \in refresh.removed
                  \/ AgentOf[s] = a /\ s \notin seen /\ refresh.rows[s] # None
        /\ history.quiet
        /\ seen = {s \in Sessions : AgentOf[s] = a /\ disk[s].there}
  BY <1>1, DiscoverStep
<1>3. is_refreshing /\ is_refreshing' /\ refresh.unread = {} /\ refresh.failed = {}
  BY <1>2 DEF QuietInv, is_refreshing
<1>4. ASSUME NEW s \in Sessions
      PROVE  QuietSession(s)'
  <2>1. QuietSession(s) /\ SessionHonest(s)
    BY <1>2, <1>3 DEF QuietInv, SafeInv, SessionSafe
  <2>2. AgentOf[s] # a => (Waits(s)' <=> Waits(s)) /\ s \notin refresh'.unread
    BY <1>2, <1>3 DEF Waits
  <2>3. CASE AgentOf[s] # a
    BY <1>2, <2>1, <2>2, <2>3 DEF QuietSession, Settled
  <2>4. CASE AgentOf[s] = a
    <3>1. refresh.updated[s] = None
      BY <1>2, <2>1, <2>4 DEF QuietSession, Waits
    <3>2. s \in refresh'.removed => IsMissing(disk[s])
      BY <1>2, <2>1, <2>4 DEF QuietSession, IsMissing
    <3>3. ASSUME ~Waits(s)'
          PROVE  Settled(s)'
      <4>1. s \notin refresh'.unread
        BY <3>3 DEF Waits
      <4>2. CASE ~disk[s].there
        BY <1>2, <2>4, <3>1, <4>2 DEF Settled, IsMissing
      <4>3. CASE disk[s].there
        <5>1. IsKnown(s, disk[s].text)
          BY <1>2, <2>4, <4>1, <4>3
        <5>2. /\ IsMissing(disk[s]) => refresh.rows[s] = None
              /\ ~IsMissing(disk[s]) => Shows(refresh.rows[s], disk[s])
          BY <1>1, <2>1, <4>3, <5>1, KnownIsSettled
        <5> QED  BY <1>2, <3>1, <5>2 DEF Settled
      <4> QED  BY <4>2, <4>3
    <3> QED  BY <1>2, <2>1, <2>4, <3>1, <3>2, <3>3 DEF QuietSession
  <2> QED  BY <2>3, <2>4
<1> QED  BY <1>2, <1>3, <1>4 DEF QuietInv

LEMMA ReadQuiet ==
  ASSUME SafeInv, QuietInv, NEW s \in Sessions, Read(s)
  PROVE  QuietInv'
<1> SUFFICES ASSUME history'.quiet PROVE QuietInv'
  BY DEF QuietInv
<1>1. TypeOK /\ UnreadWereFound
  BY DEF SafeInv
<1>2. /\ disk' = disk /\ rows' = rows /\ changed' = changed
      /\ refresh.pc = "read" /\ s \in refresh.unread
  BY <1>1, ReadStep
<1>3. PICK read \in Reads(disk[s]) :
        /\ refresh' = Absorb(s, read)
        /\ history'.quiet = (history.quiet /\ read \notin {"transient", "partial"})
  BY <1>1, ReadStep
<1>4. history.quiet /\ read \notin {"transient", "partial"}
  BY <1>3
<1>5. /\ refresh'.pc = refresh.pc /\ refresh'.left = refresh.left
      /\ refresh'.rows = refresh.rows
      /\ refresh'.failed = refresh.failed /\ refresh'.found = refresh.found
      /\ refresh'.unread = refresh.unread \ {s}
      /\ \A q \in Sessions \ {s} : refresh'.updated[q] = refresh.updated[q]
      /\ refresh'.updated[s] =
           IF IsRow(read) /\ Joins(s) THEN RowOf(refresh.found[s], disk[s], read)
           ELSE refresh.updated[s]
      /\ refresh'.removed =
           IF read = "empty" /\ refresh.rows[s] # None
           THEN refresh.removed \cup {s} ELSE refresh.removed
  BY <1>1, <1>2, <1>3, AbsorbFacts
<1>6. is_refreshing /\ is_refreshing'
  BY <1>2, <1>5 DEF is_refreshing
<1>7. ASSUME NEW q \in Sessions
      PROVE  QuietSession(q)'
  <2>1. QuietSession(q)
    BY <1>4, <1>6 DEF QuietInv
  <2>2. CASE q # s
    BY <1>2, <1>5, <2>1, <2>2 DEF QuietSession, Settled, Waits
  <2>3. CASE q = s
    <3>1. /\ refresh.updated[s] = None /\ refresh.found[s] = disk[s].text
          /\ disk[s].there /\ AgentOf[s] \notin refresh.left
          /\ disk[s] \in Transcript /\ disk[s].text \in Text
      BY <1>1, <1>2, <2>1, <2>3, SessionNumbers DEF QuietSession, Waits, Transcript
    <3>2. /\ IsRow(read) => disk[s].kind \in {"listed", "outside"} /\ read = "listed"
          /\ read = "empty" => disk[s].kind = "empty"
          /\ read = "permanent" => disk[s].kind = "bad"
          /\ IsRow(read) \/ read \in {"empty", "permanent"}
      BY <1>4, <3>1, ReadFacts DEF IsRow
    <3>3. Settled(s)'
      <4>1. CASE IsRow(read)
        <5>1. /\ RowOf(refresh.found[s], disk[s], read) \in Row
              /\ Fresh(RowOf(refresh.found[s], disk[s], read), disk[s])
              /\ RowOf(refresh.found[s], disk[s], read).whole
          BY <3>1, <3>2, <4>1, RowOfFacts, ZenonT(60) DEF Fresh
        <5>2. Shows(RowOf(refresh.found[s], disk[s], read), disk[s])
          BY <3>1, <5>1, FreshShows
        <5>3. ~IsMissing(disk[s])
          BY <3>1, <3>2, <4>1 DEF IsMissing
        <5>4. CASE Joins(s)
          BY <1>2, <1>5, <4>1, <5>1, <5>2, <5>3, <5>4, RowNumbers DEF Settled
        <5>5. CASE ~Joins(s)
          <6>1. refresh.rows[s] = None /\ disk[s].kind = "outside"
            BY <3>2, <4>1, <5>5 DEF Joins
          <6>2. Shows(refresh.rows[s], disk[s])
            BY <5>3, <6>1 DEF Shows
          <6> QED  BY <1>2, <1>5, <3>1, <5>3, <5>5, <6>2 DEF Settled
        <5> QED  BY <5>4, <5>5
      <4>2. CASE read = "empty"
        BY <1>2, <1>5, <3>1, <3>2, <4>2 DEF Settled, IsMissing, IsRow
      <4>3. CASE read = "permanent"
        BY <1>2, <1>5, <3>1, <3>2, <4>3 DEF Settled, IsMissing, IsRow, Shows
      <4> QED  BY <3>2, <4>1, <4>2, <4>3
    <3>4. ~Waits(s)' /\ s \notin refresh'.unread
      BY <1>5, <3>1 DEF Waits
    <3>5. s \in refresh'.removed => IsMissing(disk[s])
      BY <1>5, <2>1, <2>3, <3>2 DEF QuietSession, IsMissing
    <3> QED  BY <1>2, <2>1, <2>3, <3>3, <3>4, <3>5 DEF QuietSession
  <2> QED  BY <2>2, <2>3
<1> QED  BY <1>2, <1>4, <1>5, <1>6, <1>7 DEF QuietInv

LEMMA OtherThreadQuiet ==
  ASSUME SafeInv, QuietInv, NextAgent \/ Stop \/ \E a \in Agents : FailDiscovery(a)
  PROVE  QuietInv'
<1> SUFFICES ASSUME history'.quiet PROVE QuietInv'
  BY DEF QuietInv
<1>1. TypeOK
  BY DEF SafeInv
<1>2. /\ UNCHANGED <<disk, rows, changed>>
      /\ refresh.pc \in {"discover", "read"} /\ refresh'.pc # "idle"
      /\ refresh'.rows = refresh.rows
      /\ refresh'.found = refresh.found /\ refresh'.unread = refresh.unread
      /\ refresh'.updated = refresh.updated /\ refresh'.removed = refresh.removed
      /\ history.quiet
      /\ refresh'.left = refresh.left /\ refresh'.failed = refresh.failed
      /\ \/ refresh.pc = "read" /\ refresh.unread = {}
         \/ refresh.pc = "discover" /\ refresh.left = {}
      /\ refresh'.pc = IF refresh.left = {} THEN "done" ELSE "discover"
  BY <1>1, OtherThreadSteps
<1>3. is_refreshing /\ is_refreshing' /\ refresh'.unread = {}
  BY <1>2 DEF is_refreshing, QuietInv
<1>4. \A s \in Sessions : QuietSession(s)'
  BY <1>2, <1>3 DEF QuietInv, QuietSession, Settled, Waits
<1> QED  BY <1>2, <1>3, <1>4 DEF QuietInv

LEMMA ApplyQuiet ==
  ASSUME SafeInv, QuietInv, Apply
  PROVE  QuietInv'
<1> SUFFICES ASSUME history'.quiet PROVE QuietInv'
  BY DEF QuietInv
<1>1. TypeOK
  BY DEF SafeInv
<1>2. /\ disk' = disk /\ refresh.pc = "done" /\ refresh' = Idle /\ history.quiet
      /\ \/ refresh.failed = Agents
         \/ \A s \in Sessions : AppliedRow(s)
  BY <1>1, ApplyStep
<1>3. is_refreshing /\ ~is_refreshing'
  BY <1>2, IdleFields DEF is_refreshing
<1>4. /\ refresh.failed # Agents /\ refresh.left = {} /\ refresh.unread = {}
  BY <1>2, <1>3, AgentAssumption DEF QuietInv
<1>5. ASSUME NEW s \in Sessions
      PROVE  Shows(rows'[s], disk[s])
  <2>1. AppliedRow(s) /\ QuietSession(s) /\ KnownIsShown(s)
    BY <1>2, <1>3, <1>4 DEF QuietInv, SafeInv, SessionSafe
  <2>2. /\ disk[s] \in Transcript /\ rows[s] \in Row \cup {None} /\ Settled(s)
    BY <1>1, <1>4, <2>1, SessionNumbers DEF QuietSession, Waits
  <2>3. CASE s \in changed /\ rows[s] = None
    BY <2>1, <2>3 DEF AppliedRow, QuietSession, Shows
  <2>4. CASE s \in changed /\ rows[s] # None
    <3>1. PICK read \in Rereads(disk[s]) :
            /\ rows'[s] = Reread(rows[s], disk[s], read)
            /\ read \notin {"transient", "partial"}
      BY <2>1, <2>4 DEF AppliedRow
    <3>2. CASE IsRow(read)
      <4>1. read = "listed" /\ disk[s].text \in Text
        BY <2>2, <3>1, <3>2 DEF IsRow, Transcript
      <4>2. Reread(rows[s], disk[s], read).whole
        BY <2>2, <3>2, <4>1, RowOfFacts DEF Reread
      <4> QED  BY <2>2, <3>1, <3>2, <4>2, RereadRow, FreshShows
    <3>3. CASE read \in {"gone", "empty"}
      BY <2>2, <3>1, <3>3, RereadRow, RereadFacts DEF Shows, IsMissing
    <3>4. CASE read = "permanent"
      BY <2>2, <3>4, RereadFacts DEF Shows, IsMissing
    <3> QED  BY <2>2, <3>1, <3>2, <3>3, <3>4, RereadFacts
  <2>5. CASE s \notin changed
    <3>1. rows[s] = refresh.rows[s]
      BY <1>3, <2>1, <2>5 DEF KnownIsShown
    <3>2. CASE IsMissing(disk[s])
      BY <2>1, <2>2, <2>5, <3>1, <3>2 DEF AppliedRow, Settled, Shows
    <3>3. CASE ~IsMissing(disk[s])
      <4>1. rows'[s] = IF refresh.updated[s] # None THEN refresh.updated[s]
                       ELSE refresh.rows[s]
        BY <2>1, <2>5, <3>1, <3>3 DEF AppliedRow, QuietSession
      <4> QED  BY <2>2, <3>3, <4>1 DEF Settled
    <3> QED  BY <3>2, <3>3
  <2> QED  BY <2>3, <2>4, <2>5
<1> QED  BY <1>2, <1>3, <1>5 DEF QuietInv

LEMMA QuietInvStep == SafeInv /\ QuietInv /\ [Next]_vars => QuietInv'
<1>1. ASSUME UNCHANGED vars, QuietInv PROVE QuietInv'
  BY <1>1 DEF vars, QuietInv, QuietSession, Settled, Waits, is_refreshing
<1> QED
  BY <1>1, NextCases, OutsideQuiet, BeginQuiet, DiscoverQuiet, ReadQuiet,
     OtherThreadQuiet, ApplyQuiet

(* A refresh during which nothing changes and nothing fails leaves the     *)
(* list as the transcripts are, however many refreshes, edits and failures *)
(* went before it: no session recorded as unlisted, unreadable or read     *)
(* hides a later change (KnownSessions::is_unchanged, add_skipped_sessions *)
(* and apply_session_changes).                                             *)
THEOREM QuietRefreshIsCompleteHolds == Spec => []QuietRefreshIsComplete
<1>1. ASSUME Init
      PROVE  QuietInv
  <2>1. ~is_refreshing
    BY <1>1 DEF Init, Idle, is_refreshing
  <2>2. ASSUME NEW s \in Sessions
        PROVE  Shows(rows[s], disk[s])
    <3>1. /\ disk[s].text = 1 /\ disk[s].there \in BOOLEAN
          /\ rows[s] = IF disk[s].there /\ disk[s].kind = "listed"
                       THEN [stamp |-> 1, text |-> 1, whole |-> TRUE] ELSE None
      BY <1>1 DEF Init
    <3> QED  BY <3>1 DEF Shows, IsMissing
  <2> QED  BY <2>1, <2>2 DEF QuietInv
<1>2. SafeInv /\ QuietInv => QuietRefreshIsComplete
  BY DEF QuietInv, QuietRefreshIsComplete, IsUpToDate, Shows
<1> QED  BY <1>1, <1>2, SpecIsSafe, QuietInvStep, PTL DEF Spec
=============================================================================
