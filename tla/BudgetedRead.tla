---------------------------- MODULE BudgetedRead ----------------------------
(***************************************************************************)
(* `agent read` under a budget of characters (agent/protocol.rs,           *)
(* format_read_with_warnings), and an agent that reads a session with it:  *)
(* it runs the `read` and `continue read` records of each answer, and      *)
(* raises the budget when an answer is refused or shows it nothing new.    *)
(***************************************************************************)
EXTENDS ReadLayout

CONSTANTS
  Transcripts,   \* what the sessions of a run hold: functions from
                 \* conversations to sequences of messages
  FirstReads,    \* the commands an agent starts with
  Budgets,       \* the budgets it starts with
  WarningSizes,  \* the characters of the warning records of its answers
  BudgetStep, MaxBudget   \* bound: how far the agent raises the budget

(* The messages of a session are numbered from 1, and so are its sub-agents *)
(* and the lines of a message.                                             *)
Number == Nat \ {0}

Requests(conversations) ==
  [conversation : conversations, range : {<<>>} \cup (Number \X Number),
   subagent : Nat]

(* --lines is of one message.                                             *)
Commands(conversations) ==
  {command \in
     [requests : Seq(Requests(conversations)), flags : SUBSET Flags,
      lines : {<<>>} \cup (Number \X Nat), tail : Nat,
      focus : {<<>>} \cup (conversations \X Nat \X Nat)] :
     command.lines # <<>> => reads_one_message(command.requests)}

(* A read is of at most one of its end and a focus (ReadPriority).         *)
OneEnd(command) ==
  command.tail \in Nat /\ (command.tail > 0 => command.focus = <<>>)

ASSUME ReadsAssumption ==
  /\ \A holds \in Transcripts :
       /\ \A conversation \in DOMAIN holds : holds[conversation] \in Seq(Messages)
       /\ FirstReads \subseteq Commands(DOMAIN holds)
  /\ \A command \in FirstReads : OneEnd(command)

ASSUME BudgetsAssumption ==
  /\ Budgets \subseteq Nat /\ WarningSizes \subseteq Nat
  /\ BudgetStep \in Nat /\ MaxBudget \in Nat

VARIABLES
  transcript,   \* what the sessions hold
  warning,      \* the characters of the warning records
  budget,       \* --budget
  todo,         \* the commands the agent has yet to run
  read,         \* the command it runs
  step,         \* where format_read_with_warnings is
  entries,      \* the entries of the command
  selected,     \* those the budget keeps
  truncated,    \* those whose bodies it may shorten
  kept,         \* what each selected entry keeps of its body
  tail,         \* the entries a tail read has yet to consider, and the
                \* requests it has stopped
  seen,         \* the lines the agent has seen, and the messages it was told
                \* are hidden
  asked         \* the entries of its first command

vars == <<transcript, warning, budget, todo, read, step, entries, selected,
          truncated, kept, tail, seen, asked>>

(***************************************************************************)
(* A command: its requests, flags, and at most one of --lines, --tail and  *)
(* --focus.                                                                *)
(***************************************************************************)
Command(requests, flags, lines, count, focus) ==
  [requests |-> requests, flags |-> flags, lines |-> lines, tail |-> count,
   focus |-> focus]

NoRead == Command(<<>>, {}, <<>>, 0, <<>>)
NoTail == [left |-> {}, stopped |-> {}]

Ordinals(command, request) ==
  LET messages == transcript[request.conversation]
      ordinals == requested_messages(request, messages)
  IN  IF command.tail = 0 THEN ordinals
      ELSE tail_messages(ordinals, command.tail, messages,
                         options(request, command.flags, messages))

EntriesOf(command) ==
  LET Of(number) ==
        LET request == command.requests[number]
            messages == transcript[request.conversation]
        IN  read_entries([conversation |-> request.conversation, number |-> number,
                          commands |-> command_lines(command.requests)],
                         Ordinals(command, request), messages,
                         options(request, command.flags, messages))
      all == FlattenSeq([number \in DOMAIN command.requests |-> Of(number)])
  IN  IF command.lines = <<>> THEN all
      ELSE [i \in DOMAIN all |->
              IF all[i].is_hidden THEN all[i]
              ELSE apply_read_slice(all[i], command.lines)]

IsOutOfRange(command) ==
  \/ \E number \in DOMAIN command.requests :
       OutOfRange(command.requests[number],
                  transcript[command.requests[number].conversation])
  \/ /\ command.lines # <<>>
     /\ \E entry \in Range(EntriesOf([command EXCEPT !.lines = <<>>])) :
          ~entry.is_hidden /\ command.lines[2] > Len(entry.content)

budget_beside_warnings == Monus(budget, warning)

(* The entries holding a message inside the focus.                         *)
focused_indices(command, all) ==
  {i \in DOMAIN all :
     /\ command.focus # <<>>
     /\ all[i].conversation = command.focus[1]
     /\ command.focus[2] <= all[i].last /\ all[i].first <= command.focus[3]}

(***************************************************************************)
(* The estimate that the selection goes by.                                *)
(***************************************************************************)
Estimate(all, chosen, shortened) ==
  rendered_chars(all, chosen, AtFloors(all, chosen, shortened), shortened # {})

Fits(all, chosen, shortened) ==
  Estimate(all, chosen, shortened) <= budget_beside_warnings

(* The order in which a tail read considers entries: each request's last,  *)
(* from the last request to the first, then each second-last, and so on.   *)
Rank(all, i) ==
  <<Cardinality({j \in DOMAIN all : j > i /\ all[j].request = all[i].request}),
    -all[i].request>>

KeptBefore(all, i, j) ==
  LET a == Rank(all, i)
      b == Rank(all, j)
  IN  a[1] < b[1] \/ (a[1] = b[1] /\ a[2] < b[2])

(* The last, or first, of some entries in that order.                      *)
KeptLast(all, some) ==
  {i \in some : \A j \in some \ {i} : KeptBefore(all, j, i)}
KeptFirst(all, some) ==
  {i \in some : \A j \in some \ {i} : KeptBefore(all, i, j)}

(***************************************************************************)
(* The steps of a read.                                                    *)
(***************************************************************************)
Begin ==
  /\ step = "idle"
  /\ \E command \in todo :
       /\ read' = command
       /\ IF IsOutOfRange(command)
          THEN step' = "out_of_range"
                 /\ UNCHANGED <<entries, selected, truncated, tail>>
          ELSE LET all == EntriesOf(command)
                   focus == focused_indices(command, all)
                   first == IF focus = {} /\ all # <<>> THEN {1} ELSE focus
               IN  /\ entries' = all
                   /\ \/ /\ Fits(all, DOMAIN all, {})
                         /\ selected' = DOMAIN all /\ truncated' = {}
                         /\ step' = "fit" /\ tail' = NoTail
                      \/ /\ ~Fits(all, DOMAIN all, {}) /\ command.tail > 0
                         /\ selected' = {} /\ truncated' = {}
                         /\ step' = "tail"
                         /\ tail' = [left |-> DOMAIN all, stopped |-> {}]
                      \/ /\ ~Fits(all, DOMAIN all, {}) /\ command.tail = 0
                         /\ selected' = first
                         /\ truncated' =
                              IF command.focus = <<>> /\ ~Fits(all, first, {})
                              THEN {i \in first : can_truncate(all[i])} ELSE {}
                         /\ step' = "grow" /\ tail' = NoTail
       /\ asked' = IF asked = <<>> /\ step' # "out_of_range"
                   THEN entries' ELSE asked
  /\ UNCHANGED <<transcript, warning, budget, todo, kept, seen>>

(* For a mutant: a neighbour that does not fit stays among the shortened.  *)
try_add_forgetting(selection, candidate) ==
  LET grown == [selection EXCEPT !.selected = @ \cup {candidate}]
  IN  IF candidate \notin DOMAIN entries THEN selection
      ELSE IF Fits(entries, grown.selected, grown.truncated) THEN grown
      ELSE [selection EXCEPT !.truncated = @ \cup {candidate}]

(* A neighbour that is added whole when it fits, or shortened to its floor *)
(* when that fits and nothing is in focus.                                 *)
try_add(selection, candidate) ==
  LET grown == [selection EXCEPT !.selected = @ \cup {candidate}]
      shortened == [grown EXCEPT !.truncated = @ \cup {candidate}]
  IN  IF candidate \notin DOMAIN entries THEN selection
      ELSE IF Fits(entries, grown.selected, grown.truncated) THEN grown
      ELSE IF /\ read.focus = <<>> /\ can_truncate(entries[candidate])
              /\ Fits(entries, shortened.selected, shortened.truncated)
           THEN shortened
      ELSE selection

Grow ==
  /\ step = "grow"
  /\ LET before == [selected |-> selected, truncated |-> truncated]
         head == IF selected = {} THEN before
                 ELSE try_add(before, Min(selected) - 1)
         grown == IF selected = {} THEN head
                  ELSE try_add(head, Max(head.selected) + 1)
     IN  /\ selected' = grown.selected /\ truncated' = grown.truncated
         /\ step' = IF grown = before THEN "fit" ELSE "grow"
  /\ UNCHANGED <<transcript, warning, budget, todo, read, entries, kept, tail,
                 seen, asked>>

(* For a mutant: a request goes on past an entry that does not fit.        *)
NeverStopped(request) == FALSE

IsStopped(request) == request \in tail.stopped

(* A tail read considers the next entry: it keeps it whole, or shortened   *)
(* to its floor, or stops its request.  The first stays at any length.     *)
KeepTail ==
  /\ step = "tail"
  /\ \E entry \in KeptFirst(entries, tail.left) :
       LET request == entries[entry].request
           more == selected \cup {entry}
           shortened == IF can_truncate(entries[entry])
                        THEN truncated \cup {entry} ELSE truncated
           Keep(bodies) ==
             /\ selected' = more /\ truncated' = bodies
             /\ tail' = [tail EXCEPT !.left = @ \ {entry}]
       IN  \/ /\ IsStopped(request)
              /\ tail' = [tail EXCEPT !.left = @ \ {entry}]
              /\ UNCHANGED <<selected, truncated>>
           \/ /\ ~IsStopped(request)
              /\ Fits(entries, more, truncated)
              /\ Keep(truncated)
           \/ /\ ~IsStopped(request)
              /\ ~Fits(entries, more, truncated)
              /\ selected = {} \/ Fits(entries, more, shortened)
              /\ Keep(shortened)
           \/ /\ ~IsStopped(request)
              /\ selected # {} /\ ~Fits(entries, more, truncated)
              /\ ~Fits(entries, more, shortened)
              /\ tail' = [left |-> tail.left \ {entry},
                          stopped |-> tail.stopped \cup {request}]
              /\ UNCHANGED <<selected, truncated>>
  /\ UNCHANGED <<transcript, warning, budget, todo, read, step, entries, kept,
                 seen, asked>>

EndTail ==
  /\ step = "tail" /\ tail.left = {}
  /\ step' = "fit"
  /\ UNCHANGED <<transcript, warning, budget, todo, read, entries, selected,
                 truncated, kept, tail, seen, asked>>

(* The bodies fitted, and the characters of what is then printed.          *)
FittedBodies(chosen, shortened) ==
  fit_bodies(entries, chosen, shortened, budget_beside_warnings)

OutputChars(chosen, bodies) ==
  rendered_chars(entries, chosen, bodies, \E i \in chosen : bodies[i] # Whole)

IsOverBudget(chosen, bodies) ==
  OutputChars(chosen, bodies) > budget_beside_warnings

Fit ==
  /\ step = "fit"
  /\ LET bodies == FittedBodies(selected, truncated)
         protected == focused_indices(read, entries)
         left == IF protected = {} THEN selected ELSE selected \cap protected
     IN  IF ~IsOverBudget(selected, bodies)
         THEN /\ kept' = bodies /\ step' = "answer"
              /\ UNCHANGED <<selected, truncated>>
         ELSE /\ selected' = left /\ truncated' = left
              /\ kept' = FittedBodies(left, left)
              /\ step' = "omit"
  /\ UNCHANGED <<transcript, warning, budget, todo, read, entries, tail, seen,
                 asked>>

(* The next entry to omit: the last to be kept, or the last unprotected.   *)
next_to_omit ==
  LET unprotected == selected \ focused_indices(read, entries)
  IN  IF read.tail > 0 THEN KeptLast(entries, selected)
      ELSE {i \in unprotected : \A j \in unprotected : j <= i}

OmitNext ==
  /\ step = "omit"
  /\ IF ~IsOverBudget(selected, kept)
     THEN step' = "answer" /\ UNCHANGED <<selected, truncated, kept>>
     ELSE IF next_to_omit = {}
     THEN step' = "refused" /\ UNCHANGED <<selected, truncated, kept>>
     ELSE LET left == selected \ next_to_omit
          IN  /\ selected' = left /\ truncated' = left
              /\ kept' = FittedBodies(left, left)
              /\ UNCHANGED step
  /\ UNCHANGED <<transcript, warning, budget, todo, read, entries, tail, seen,
                 asked>>

(***************************************************************************)
(* The agent.                                                              *)
(***************************************************************************)
Lines(entry, count) ==
  {<<entry.conversation, entry.first, entry.content[line]>> :
     line \in 1..count}

HiddenLine == <<0, 0>>   \* in place of the lines of a hidden message

Hidden(entry) ==
  {<<entry.conversation, ordinal, HiddenLine>> : ordinal \in entry.first..entry.last}

ShownBy(i) ==
  IF entries[i].is_hidden THEN Hidden(entries[i])
  ELSE Lines(entries[i], LinesShown(entries[i], kept[i]))

Answered == UNION {ShownBy(i) : i \in selected}

(* The commands that the records of an answer name.                        *)
RangeCommand(record) ==
  Command([number \in DOMAIN record.runs |->
             [conversation |-> record.conversation, range |-> record.runs[number],
              subagent |-> Session]],
          record.flags, <<>>, 0, <<>>)

LinesCommand(i) ==
  Command(<<[conversation |-> entries[i].conversation,
             range |-> <<entries[i].first, entries[i].first>>,
             subagent |-> Session]>>,
          entries[i].flags, reread_lines(entries[i], kept[i]), 0, <<>>)

Continuations ==
  {RangeCommand(record) : record \in continuation_records(entries, selected)}
    \cup {LinesCommand(i) : i \in {j \in selected : kept[j] # Whole}}

Recipes ==
  {RangeCommand(record) :
     record \in recipes_showing_hidden_messages(entries, selected)}

Idle ==
  /\ step' = "idle" /\ read' = NoRead /\ entries' = <<>> /\ selected' = {}
  /\ truncated' = {} /\ kept' = <<>> /\ tail' = NoTail

RaiseBudget ==
  budget < MaxBudget /\ budget' = Min({budget + BudgetStep, MaxBudget})

(* The agent takes an answer: it goes on with the records the answer ends  *)
(* with when it has seen something new, and asks again with more budget    *)
(* otherwise.                                                              *)
ShowsNothingNew == Answered \subseteq seen /\ Continuations # {}

Follow ==
  /\ step = "answer"
  /\ IF ShowsNothingNew
     THEN RaiseBudget /\ UNCHANGED <<todo, seen>>
     ELSE /\ seen' = seen \cup Answered
          /\ todo' = (todo \ {read}) \cup Continuations \cup Recipes
          /\ UNCHANGED budget
  /\ Idle
  /\ UNCHANGED <<transcript, warning, asked>>

(* An answer cut short is budget-too-small: the agent raises the budget.   *)
Refused ==
  /\ step = "refused"
  /\ RaiseBudget /\ Idle
  /\ UNCHANGED <<transcript, warning, todo, seen, asked>>

Init ==
  /\ transcript \in Transcripts
  /\ warning \in WarningSizes
  /\ budget \in Budgets
  /\ \E command \in FirstReads : todo = {command}
  /\ read = NoRead /\ step = "idle" /\ entries = <<>> /\ selected = {}
  /\ truncated = {} /\ kept = <<>> /\ tail = NoTail
  /\ seen = {} /\ asked = <<>>

(* The agent has nothing left to run, or no larger budget to run it with.  *)
Finished ==
  \/ step = "idle" /\ todo = {}
  \/ step = "out_of_range"
  \/ step = "refused" /\ budget = MaxBudget
  \/ step = "answer" /\ ShowsNothingNew /\ budget = MaxBudget

Stop == Finished /\ UNCHANGED vars

Next ==
  \/ Begin \/ Grow \/ KeepTail \/ EndTail \/ Fit \/ OmitNext
  \/ Follow \/ Refused \/ Stop

Spec == Init /\ [][Next]_vars

(* A command runs to its end, and the agent goes on until it is finished:  *)
(* WF_vars(Next), with the states that enable no other step written out.   *)
FairSpec == Spec /\ ([]<>Finished \/ []<><<TRUE>>_vars)

(***************************************************************************)
(* Properties.                                                             *)
(***************************************************************************)
EntriesAreASequence == entries \in Seq({entries[i] : i \in DOMAIN entries})

(* Every variable has the values its field, or the agent's, can have: the  *)
(* entries are a sequence, the budget keeps some of them, and shortens     *)
(* some of those.                                                          *)
TypeOK ==
  /\ warning \in Nat /\ budget \in Nat
  /\ step \in {"idle", "grow", "tail", "fit", "omit", "answer", "refused",
               "out_of_range"}
  /\ step = "idle" \/ read \in todo
  /\ OneEnd(read)
  /\ EntriesAreASequence
  /\ \A i \in DOMAIN entries :
       /\ entries[i].request \in DOMAIN read.requests
       /\ entries[i].first \in Nat /\ entries[i].last \in Nat
  /\ selected \subseteq DOMAIN entries /\ truncated \subseteq selected
  /\ kept = <<>> \/ kept \in [selected -> Nat \cup {Whole}]
  /\ tail.left \subseteq DOMAIN entries
  /\ tail.stopped \subseteq {entries[i].request : i \in DOMAIN entries}

(* Header `chars=` values are hard limits: an answer and the warning       *)
(* records printed after it hold no more characters than --budget.         *)
KeepsToItsBudget ==
  step = "answer" => OutputChars(selected, kept) + warning <= budget

FloorsFitNow == FloorsFit(entries, selected, truncated, budget_beside_warnings)

(* Where the floors of all the bodies that may be shortened fit, the       *)
(* bodies fitted do: nothing more is omitted.                              *)
FitsAtItsFloors ==
  step = "fit" /\ FloorsFitNow =>
    ~IsOverBudget(selected, FittedBodies(selected, truncated))

(* Each message's share of the room beyond the floors.                     *)
EvenShare ==
  ExtraRoom(entries, selected, truncated, budget_beside_warnings)
    \div Cardinality(Truncatable(entries, selected, truncated))

(* An entry that keeps some of its body has a share of room: it keeps its  *)
(* floor, and neither it whole nor one more character of it fits in what   *)
(* the floor takes and the share.                                          *)
HasShare(entry, share, keeps) ==
  LET room == EntryChars(entry, FloorOf(entry)) + share
  IN  /\ keeps >= Floor
      /\ EntryChars(entry, Whole) > room
      /\ keeps + 1 < TextChars(entry) => EntryChars(entry, keeps + 1) > room

(* The rest of the budget is shared among the messages: where the floors   *)
(* fit, each body shortened keeps its floor and an even share of the room  *)
(* beyond, at the least, whatever the sizes of the messages before it; and *)
(* a message shorter than its share shows whole.                           *)
SharesTheRoom ==
  step = "answer" /\ FloorsFitNow =>
    \A i \in selected : kept[i] # Whole => HasShare(entries[i], EvenShare, kept[i])

(* A read keeps to its budget and uses it: it shares the room, and omits   *)
(* nothing that its floors leave room for.                                 *)
UsesItsBudget == KeepsToItsBudget /\ FitsAtItsFloors /\ SharesTheRoom

(* The messages a record names, with the flags to read them.               *)
Names(record, conversation, ordinal, flags) ==
  /\ record.conversation = conversation /\ flags \subseteq record.flags
  /\ \E run \in ToSet(record.runs) : ordinal \in run[1]..run[2]

(* An answer drops nothing silently: each message of an entry it leaves    *)
(* out is named by a `continue read` record with the flags that show it,   *)
(* and the record after a shortened body names all the lines not shown.    *)
NothingDropped ==
  step = "answer" =>
    /\ \A i \in Omitted(entries, selected) :
         \A ordinal \in entries[i].first..entries[i].last :
           \E record \in continuation_records(entries, selected) :
             Names(record, entries[i].conversation, ordinal, entries[i].flags)
    /\ \A i \in selected : kept[i] # Whole =>
         LET lines == reread_lines(entries[i], kept[i])
             all == requested_messages(LinesCommand(i).requests[1],
                      transcript[entries[i].conversation])
             whole == Content(Blocks(transcript[entries[i].conversation][Min(all)],
                        entries[i].flags, command_lines(LinesCommand(i).requests)))
         IN  ToSet(entries[i].content) \subseteq
               {line[3] : line \in ShownBy(i)}
                 \cup {whole[line] : line \in lines[1]..lines[2]}

(* An answer keeps the end it was asked for: the start of a plain read,    *)
(* the last entries of each request of a tail read, and all of a focus.    *)
KeepsItsEnd ==
  step = "answer" =>
    LET focus == focused_indices(read, entries)
    IN  CASE read.tail > 0 ->
               \A i \in selected, j \in DOMAIN entries :
                 i < j /\ entries[i].request = entries[j].request
                   => j \in selected
          [] read.tail = 0 /\ focus = {} ->
               \A i \in selected : 1..i \subseteq selected
          [] OTHER -> focus \subseteq selected

IsShownOf(entry) ==
  IF entry.is_hidden
  THEN \A ordinal \in entry.first..entry.last :
         \/ <<entry.conversation, ordinal, HiddenLine>> \in seen
         \/ \A line \in ToSet(Content(Blocks(transcript[entry.conversation][ordinal],
                                            entry.flags, "FirstLine"))) :
              <<entry.conversation, ordinal, line>> \in seen
  ELSE Lines(entry, Len(entry.content)) \subseteq seen

(* An agent that runs the records of each answer, with more budget when an *)
(* answer is refused or shows it nothing new, comes to an end, and has     *)
(* then seen every line of what it asked for.  Only its first command can  *)
(* be out of range: no record names messages or lines that are not there.  *)
ReadToTheEnd ==
  <>[](\/ step = "out_of_range" /\ asked = <<>>
       \/ /\ step = "idle" /\ todo = {}
          /\ \A i \in DOMAIN asked : IsShownOf(asked[i]))
=============================================================================
