--------------------------- MODULE MCBudgetedRead ---------------------------
(***************************************************************************)
(* An instance of BudgetedRead for TLC: two sessions with long and short   *)
(* bodies, runs of hidden messages, a sub-agent and a message outside the  *)
(* time window, read from their start, their end, around a focus, and by   *)
(* refs in an order of their own.                                          *)
(***************************************************************************)
EXTENDS BudgetedRead

Part(kind, lines) == [kind |-> kind, lines |-> lines, short |-> lines]

(* A call of some lines, of which the first shows in most reads.           *)
Call(lines) == [kind |-> "tools", lines |-> lines, short |-> 1]

Message(owner, parts) ==
  [owner |-> owner, parts |-> parts, in_window |-> TRUE,
   read_with |-> IF owner = Session THEN {} ELSE {owner},
   record |-> 2, omitted |-> 3]

SessionA == <<
  Message(Session, <<Part("text", 2)>>),
  [Message(Session, <<Part("text", 2), Call(3), Part("tool_results", 2)>>) EXCEPT
     !.read_with = {1}, !.record = 4, !.omitted = 4],
  Message(1, <<Part("text", 1)>>),
  Message(Session, <<Call(2)>>),
  [Message(1, <<Part("text", 3)>>) EXCEPT !.record = 5],
  Message(Session, <<Part("text", 3)>>)>>

SessionB == <<
  Message(Session, <<Part("thinking", 1)>>),
  Message(Session, <<Part("text", 1)>>),
  [Message(Session, <<Part("text", 1)>>) EXCEPT !.in_window = FALSE],
  Message(Session, <<>>),
  Message(Session, <<Part("text", 5)>>)>>

TheTranscripts == {[a |-> SessionA, b |-> SessionB]}

Request(conversation, range, subagent) ==
  [conversation |-> conversation, range |-> range, subagent |-> subagent]

WholeA == Request("a", <<>>, Session)

Calls == {"tools", "tool_results"}

TheRequests == {
  <<WholeA>>,
  <<Request("b", <<>>, Session), Request("a", <<1, 3>>, Session)>>,
  <<Request("a", <<>>, 1)>>,
  <<Request("a", <<3, 5>>, Session), Request("b", <<1, 1>>, Session)>>,
  <<Request("a", <<5, 6>>, Session), Request("a", <<1, 2>>, Session)>>}

(* Reads from the start or the end, reads around a focus, a read of one    *)
(* message by its lines, one of a sub-agent's message, and two that ask    *)
(* for lines and for messages that are not there.                          *)
TheReads ==
  {Command(requests, flags, <<>>, count, <<>>) :
     requests \in TheRequests, flags \in {{}, Calls}, count \in {0, 2, 9}}
  \cup {Command(requests, flags, <<>>, 0, <<"a", 2, 3>>) :
     requests \in TheRequests, flags \in {{}, Calls}}
  \cup {Command(<<Request("a", <<2, 2>>, Session)>>, Calls, lines, 0, <<>>) :
     lines \in {<<2, 4>>, <<3, 7>>, <<3, 8>>}}
  \cup {Command(<<Request("a", <<5, 5>>, Session)>>, {}, <<>>, 0, <<>>),
        Command(<<WholeA, Request("a", <<6, 7>>, Session)>>, {}, <<>>, 0, <<>>)}

(* The smallest refuses every read; the largest shows most reads whole.    *)
TheBudgets == 8..45

TheSizes ==
  [header |-> 4, atom |-> 1, range |-> 1, conversation |-> 2, legend |-> 1,
   hidden |-> 2, line |-> 3, number |-> 1, recipe |-> 2, ref |-> 1]
=============================================================================
