----------------------------- MODULE ReadLayout -----------------------------
(***************************************************************************)
(* What `agent read` prints of a transcript (agent/protocol.rs): the       *)
(* entries a command asks for, the characters of any choice of them, the   *)
(* bodies a budget shortens, and the records that name what is left out.   *)
(*                                                                         *)
(* A message is its owner (the session or a sub-agent), the sub-agents it  *)
(* is read with, whether it is inside the time window, its parts with      *)
(* text, in the order they print, and the characters of its own records:   *)
(* those it prints under, and those that follow a shortened body.  A part  *)
(* is a kind and a number of lines; a call, of fewer lines in a read of    *)
(* several messages.  Other records of a kind have one length, and every   *)
(* line of content, with its line break, has another.  How a message's     *)
(* records vary with what is kept of its body, the `day` records, and what *)
(* `same=` saves are left out, and so are reads of one call and of the     *)
(* lines that match a query.                                               *)
(***************************************************************************)
EXTENDS Integers, SequencesExt

CONSTANTS
  Size,   \* the characters of each kind of record, and of a line
  Floor   \* TRUNCATION_FLOOR_CHARS

ASSUME LayoutAssumption ==
  /\ Size \in [{"header", "atom", "range", "conversation", "legend", "hidden",
                "line", "number", "recipe", "ref"} -> Nat]
  /\ Size["header"] > 0 /\ Size["line"] > 0 /\ Floor \in Nat

Session == 0   \* the owner of the session's own messages

(* The parts of a message beside its text are shown by a flag of their own *)
(* (ContentVisibility), and so is what a sub-agent says.                   *)
Kinds == {"text", "tools", "tool_results", "thinking"}
Flags == {"tools", "tool_results", "thinking", "subagents"}

(* The lines of a part, and of a call whose command shows its first alone. *)
Parts ==
  {part \in [kind : Kinds, lines : Nat, short : Nat] : part.short <= part.lines}

Messages ==
  [owner : Nat, parts : Seq(Parts), in_window : BOOLEAN,
   read_with : SUBSET Nat, record : Nat, omitted : Nat]

(***************************************************************************)
(* The entries of a read.                                                  *)
(***************************************************************************)
VisibleParts(message, flags) ==
  {part \in DOMAIN message.parts :
     /\ message.owner = Session \/ "subagents" \in flags
     /\ message.parts[part].kind \in flags \cup {"text"}}

(* What a message shows of each part: its lines under some command_lines,  *)
(* and those a read of the message alone shows.                            *)
Blocks(message, flags, commands) ==
  [part \in DOMAIN message.parts |->
     LET it == message.parts[part]
         is_call == it.kind = "tools"
         whole == IF part \in VisibleParts(message, flags) THEN it.lines ELSE 0
         short == IF part \in VisibleParts(message, flags) THEN it.short ELSE 0
     IN  [is_call |-> is_call, whole |-> whole,
          lines |-> IF is_call /\ commands = "FirstLine" THEN short ELSE whole]]

(* The lines of some blocks, each by its block and its place there.        *)
Content(blocks) ==
  FlattenSeq([part \in DOMAIN blocks |->
                [line \in 1..blocks[part].lines |-> <<part, line>>]])

(* For a mutant: the flags that show its parts are left out.               *)
flags_of_owner(message) ==
  IF message.owner = Session THEN {} ELSE {"subagents"}

flags_showing(message) ==
  LET kinds == {message.parts[part].kind : part \in DOMAIN message.parts}
  IN  (IF message.owner = Session THEN {} ELSE {"subagents"})
        \cup (IF "text" \in kinds THEN {} ELSE kinds)

(* A request is a conversation, and a range of its messages, a sub-agent,  *)
(* or neither.                                                             *)
IsSingle(request) ==
  request.range # <<>> /\ request.range[1] = request.range[2]

reads_one_message(requests) == Len(requests) = 1 /\ IsSingle(requests[1])

command_lines(requests) ==
  IF reads_one_message(requests) THEN "All" ELSE "FirstLine"

OutOfRange(request, messages) ==
  request.range # <<>> /\ request.range[2] > Len(messages)

options(request, flags, messages) ==
  IF \/ request.subagent # Session
     \/ IsSingle(request) /\ messages[request.range[1]].owner # Session
  THEN flags \cup {"subagents"} ELSE flags

requested_messages(request, messages) ==
  {ordinal \in DOMAIN messages :
    IF request.subagent # Session
    THEN request.subagent \in messages[ordinal].read_with
    ELSE request.range = <<>>
           \/ ordinal \in request.range[1]..request.range[2]}

IsShown(message, flags) ==
  message.in_window /\ VisibleParts(message, flags) # {}

(* Those from the count-th last that is shown.                            *)
tail_messages(ordinals, count, messages, flags) ==
  LET shown == {ordinal \in ordinals : IsShown(messages[ordinal], flags)}
  IN  {ordinal \in ordinals :
         Cardinality({later \in shown : later > ordinal}) < count}

(* A set in the order that some pairs give it, which is total on it.       *)
Sorted(set, order) ==
  [place \in 1..Cardinality(set) |->
     CHOOSE x \in set :
       Cardinality({y \in set : <<y, x>> \in order}) = place - 1]

Ascending(numbers) ==
  Sorted(numbers, {pair \in numbers \X numbers : pair[1] < pair[2]})

NoRun == [hides |-> FALSE]

(* The entries after a run of hidden messages has ended.                   *)
hidden_run_entry(made) ==
  [entries |-> IF made.run.hides THEN Append(made.entries, made.run)
               ELSE made.entries,
   run |-> NoRun]

Entry(request, ordinal, message, flags, is_hidden) ==
  [conversation |-> request.conversation, request |-> request.number,
   first |-> ordinal, last |-> ordinal, is_hidden |-> is_hidden,
   hides |-> VisibleParts(message, flags) # DOMAIN message.parts,
   owner |-> message.owner,
   flags |-> IF is_hidden THEN flags \cup flags_showing(message) ELSE flags,
   blocks |-> IF is_hidden THEN <<>> ELSE Blocks(message, flags, request.commands),
   content |-> IF is_hidden THEN <<>>
               ELSE Content(Blocks(message, flags, request.commands)),
   numbering |-> IF request.commands = "All" THEN "Own" ELSE "CommandsShortened",
   from_line |-> 1, record |-> message.record, omitted |-> message.omitted]

continues_with(run, ordinal, message) ==
  run # NoRun /\ run.last + 1 = ordinal /\ run.owner = message.owner

push(run, next) ==
  [run EXCEPT !.last = next.last, !.flags = @ \cup next.flags,
              !.hides = @ \/ next.hides]

AddMessage(request, messages, flags, made, ordinal) ==
  LET message == messages[ordinal]
      hidden == Entry(request, ordinal, message, flags, TRUE)
  IN  IF ~message.in_window THEN hidden_run_entry(made)
      ELSE IF IsShown(message, flags)
      THEN [hidden_run_entry(made) EXCEPT !.entries =
              Append(@, Entry(request, ordinal, message, flags, FALSE))]
      ELSE IF continues_with(made.run, ordinal, message)
      THEN [made EXCEPT !.run = push(@, hidden)]
      ELSE [hidden_run_entry(made) EXCEPT !.run = hidden]

read_entries(request, ordinals, messages, flags) ==
  LET Add(made, ordinal) == AddMessage(request, messages, flags, made, ordinal)
  IN  hidden_run_entry(FoldLeft(Add, [entries |-> <<>>, run |-> NoRun],
                                Ascending(ordinals))).entries

(* An entry printing lines first to last of its content, numbered.         *)
apply_read_slice(entry, lines) ==
  [entry EXCEPT !.content = SubSeq(@, lines[1], lines[2]),
                !.numbering = "Part", !.from_line = lines[1]]

(***************************************************************************)
(* The characters of an entry, its body whole or shortened.                *)
(***************************************************************************)
Whole == -1     \* a body printed whole
Emptied == -2   \* a body measured without any of it

LineChars(entry) ==
  Size["line"] + IF entry.numbering = "Part" THEN Size["number"] ELSE 0

TextChars(entry) ==
  IF entry.content = <<>> THEN 0 ELSE Len(entry.content) * LineChars(entry) - 1

EntryChars(entry, kept) ==
  CASE entry.is_hidden -> Size["hidden"]
    [] ~entry.is_hidden /\ kept = Whole -> entry.record + TextChars(entry)
    [] ~entry.is_hidden /\ kept = Emptied -> entry.record
    [] OTHER -> entry.record + kept + entry.omitted

(* Whether keeping a body's floor alone makes an entry shorter.            *)
can_truncate(entry) ==
  /\ ~entry.is_hidden /\ TextChars(entry) > Floor
  /\ EntryChars(entry, Floor) < EntryChars(entry, Whole)

FloorOf(entry) == IF can_truncate(entry) THEN Floor ELSE Whole

truncated_to_fit(entry, room) ==
  IF TextChars(entry) = 0 \/ EntryChars(entry, Whole) <= room THEN Whole
  ELSE Max({0} \cup {kept \in 0..TextChars(entry) - 1 :
                       EntryChars(entry, kept) <= room})

(* The lines of its content that an entry shows whole.                     *)
LinesShown(entry, kept) ==
  IF kept = Whole THEN Len(entry.content) ELSE (kept + 1) \div LineChars(entry)

(* For a mutant: a call shortened in the content has the lines it shows.   *)
reread_lines_as_own(entry, kept) ==
  <<entry.from_line + LinesShown(entry, kept),
    entry.from_line + Len(entry.content) - 1>>

(* Past a block: the line of the content after it, that of --lines, and    *)
(* the first line to reread when the block holds the first not shown.      *)
PassBlock(walk, block, shown) ==
  [line |-> walk.line + block.lines,
   next_line |-> walk.next_line
                   + (IF block.is_call THEN block.whole ELSE block.lines),
   first |->
     IF walk.first # 0 \/ shown \notin walk.line..walk.line + block.lines - 1
     THEN walk.first
     ELSE walk.next_line + (IF block.is_call THEN 0 ELSE shown - walk.line)]

AtFirstLine == [line |-> 0, next_line |-> 1, first |-> 0]

Walk(blocks, shown) ==
  LET Pass(walk, block) == PassBlock(walk, block, shown)
  IN  FoldLeft(Pass, AtFirstLine, blocks)

(* The lines that the record after a shortened body names, numbered as     *)
(* --lines does: a call whose command is shortened is reread whole.        *)
reread_lines(entry, kept) ==
  LET shown == LinesShown(entry, kept)
      walk == Walk(entry.blocks, shown)
      last == walk.next_line - 1
  IN  IF entry.numbering = "CommandsShortened"
      THEN <<IF walk.first = 0 THEN last ELSE walk.first, last>>
      ELSE <<entry.from_line + shown, entry.from_line + Len(entry.content) - 1>>

(***************************************************************************)
(* The records around the entries, and the characters of a whole output.   *)
(***************************************************************************)
Omitted(entries, selected) == DOMAIN entries \ selected

(* The first and last of each run of consecutive entries left out.         *)
OmittedRuns(entries, selected) ==
  LET omitted == Omitted(entries, selected)
  IN  {run \in omitted \X omitted :
         /\ run[1]..run[2] \subseteq omitted /\ run[1] <= run[2]
         /\ run[1] - 1 \notin omitted /\ run[2] + 1 \notin omitted}

(* The ranges of messages that omit= names: a run of entries that starts   *)
(* and ends in one conversation is one range there.                        *)
RangesOf(entries, run) ==
  LET first == entries[run[1]]
      last == entries[run[2]]
  IN  IF first.conversation = last.conversation
      THEN <<<<first.conversation, first.first, last.last>>>>
      ELSE [k \in 1..run[2] - run[1] + 1 |->
              LET entry == entries[run[1] + k - 1]
              IN  <<entry.conversation, entry.first, entry.last>>]

omitted_message_ranges(entries, selected) ==
  UNION {ToSet(RangesOf(entries, run)) : run \in OmittedRuns(entries, selected)}

OmittedRangeCount(entries, selected) ==
  SumFunction([run \in OmittedRuns(entries, selected) |->
                 Len(RangesOf(entries, run))])

cut_marker(entries, selected) ==
  IF selected = DOMAIN entries THEN {}
  ELSE IF selected = {} THEN {"tail"}
  ELSE LET first == Min(selected)
           last == Max(selected)
       IN  {mark \in {"head", "focus", "tail"} :
              CASE mark = "head" -> first > 1
                [] mark = "tail" -> last < Len(entries)
                [] mark = "focus" ->
                     \/ first..last # selected
                     \/ first > 1 /\ last < Len(entries)}

(* The runs of messages with those of an entry.                            *)
PushSpan(entries, runs, i) ==
  IF runs # <<>> /\ Last(runs)[2] + 1 = entries[i].first
  THEN ReplaceAt(runs, Len(runs), <<Last(runs)[1], entries[i].last>>)
  ELSE Append(runs, <<entries[i].first, entries[i].last>>)

(* Spans, a set of entries, as runs of consecutive messages, in order.     *)
MessageRuns(entries, spans) ==
  LET Push(runs, i) == PushSpan(entries, runs, i)
  IN  FoldLeft(Push, <<>>, Ascending(spans))

(* A `read` or `continue read` record naming spans of one conversation.    *)
ReadRecord(entries, spans) ==
  [conversation |-> entries[Min(spans)].conversation,
   runs |-> MessageRuns(entries, spans),
   flags |-> UNION {entries[i].flags : i \in spans}]

(* The entries left out of each conversation, and the records naming them. *)
OmittedSpans(entries, selected) ==
  {{i \in Omitted(entries, selected) :
      entries[i].conversation = entries[j].conversation} :
     j \in Omitted(entries, selected)}

continuation_records(entries, selected) ==
  {ReadRecord(entries, spans) : spans \in OmittedSpans(entries, selected)}

(* The entries printed one after another under one conversation record.    *)
ConversationRuns(entries, selected) ==
  {{i \in selected : \A k \in selected : k \in Min({i, j})..Max({i, j}) =>
      entries[k].conversation = entries[j].conversation} : j \in selected}

HiddenRuns(entries, selected) ==
  {run \in ConversationRuns(entries, selected) :
     \A i \in run : entries[i].is_hidden}

(* The `read` record of each such run whose messages are all hidden.       *)
recipes_showing_hidden_messages(entries, selected) ==
  {ReadRecord(entries, run) : run \in HiddenRuns(entries, selected)}

RecordsChars(entries, spans_of_records) ==
  SumFunction([spans \in spans_of_records |->
                 Size["recipe"] + Size["ref"] * Len(MessageRuns(entries, spans))])

(* The legends of a run: one for each sub-agent it names.                  *)
Legends(entries, run) == {entries[i].owner : i \in run} \ {Session}

(* The characters of the selected entries, kept[i] of the body of entry i; *)
(* is_body_cut says whether cut= names a shortened body.                   *)
rendered_chars(entries, selected, kept, is_body_cut) ==
  LET runs == ConversationRuns(entries, selected)
      atoms == Cardinality(cut_marker(entries, selected))
                 + (IF is_body_cut THEN 1 ELSE 0)
                 + (IF \E i \in selected : entries[i].hides THEN 1 ELSE 0)
  IN  Size["header"] + Size["atom"] * atoms
        + Size["range"] * OmittedRangeCount(entries, selected)
        + RecordsChars(entries, OmittedSpans(entries, selected))
        + RecordsChars(entries, HiddenRuns(entries, selected))
        + SumFunction([run \in runs |-> Size["conversation"]
            + Size["legend"] * Cardinality(Legends(entries, run))])
        + SumFunction([i \in selected |-> EntryChars(entries[i], kept[i])])

(***************************************************************************)
(* The bodies a budget shortens.                                           *)
(***************************************************************************)
AllWhole(selected) == [i \in selected |-> Whole]

AtFloors(entries, selected, truncatable) ==
  [i \in selected |->
     IF i \in truncatable THEN FloorOf(entries[i]) ELSE Whole]

Truncatable(entries, selected, truncatable) ==
  {i \in selected \cap truncatable : ~entries[i].is_hidden}

FloorsFit(entries, selected, truncatable, budget) ==
  rendered_chars(entries, selected, AtFloors(entries, selected, truncatable),
                 truncatable # {}) <= budget

Monus(a, b) == Max({0, a - b})

(* The room for bodies beyond what is reserved for their floors, or for    *)
(* bodies altogether when the floors do not fit.                           *)
ExtraRoom(entries, selected, truncatable, budget) ==
  LET messages == Truncatable(entries, selected, truncatable)
      emptied == [i \in selected |-> IF i \in messages THEN Emptied ELSE Whole]
  IN  IF FloorsFit(entries, selected, truncatable, budget)
      THEN budget - rendered_chars(entries, selected,
                      AtFloors(entries, selected, truncatable), truncatable # {})
      ELSE Monus(budget, rendered_chars(entries, selected, emptied,
                                        truncatable # {}))
             + SumFunction([i \in messages |-> EntryChars(entries[i], Emptied)])

(* Some entries, the shortest first, each with its body whole.             *)
ShortestFirst(entries, messages) ==
  Sorted(messages, {pair \in messages \X messages :
    LET one == EntryChars(entries[pair[1]], Whole)
        other == EntryChars(entries[pair[2]], Whole)
    IN  one < other \/ (one = other /\ pair[1] < pair[2])})

(* What is reserved for a body before the extra room is shared.            *)
Reserved(entries, selected, truncatable, budget, i) ==
  IF FloorsFit(entries, selected, truncatable, budget)
  THEN EntryChars(entries[i], FloorOf(entries[i])) ELSE 0

(* For a mutant: what is reserved for a body is taken from the room again.  *)
ShareReservingTwice(entries, selected, truncatable, budget, fit, i) ==
  LET reserved == Reserved(entries, selected, truncatable, budget, i)
      fitted == truncated_to_fit(entries[i], reserved + fit.extra \div fit.left)
  IN  [kept |-> [fit.kept EXCEPT ![i] = fitted],
       extra |-> Monus(fit.extra, EntryChars(entries[i], fitted)),
       left |-> fit.left - 1]

(* A body takes its share of the extra room, and leaves what it has no use *)
(* for to those after it.                                                  *)
ShareRoom(entries, selected, truncatable, budget, fit, i) ==
  LET reserved == Reserved(entries, selected, truncatable, budget, i)
      fitted == truncated_to_fit(entries[i], reserved + fit.extra \div fit.left)
  IN  [kept |-> [fit.kept EXCEPT ![i] = fitted],
       extra |-> Monus(fit.extra + reserved, EntryChars(entries[i], fitted)),
       left |-> fit.left - 1]

(* What each selected entry keeps of its body: the extra room is shared    *)
(* from the shortest body up.                                              *)
fit_bodies(entries, selected, truncatable, budget) ==
  LET messages == Truncatable(entries, selected, truncatable)
      Share(fit, i) == ShareRoom(entries, selected, truncatable, budget, fit, i)
  IN  FoldLeft(Share,
        [kept |-> AllWhole(selected),
         extra |-> ExtraRoom(entries, selected, truncatable, budget),
         left |-> Cardinality(messages)],
        ShortestFirst(entries, messages)).kept
=============================================================================
