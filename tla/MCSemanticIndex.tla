--------------------------- MODULE MCSemanticIndex ---------------------------
(***************************************************************************)
(* An instance of SemanticIndex for TLC: a corpus whose sessions share a   *)
(* passage, the same sessions in another order, one with a session that    *)
(* has changed and one gone, one that lists a path twice, and one without  *)
(* passages.                                                               *)
(***************************************************************************)
EXTENDS SemanticIndex

Session(path, content) == [path |-> path, content |-> content]

AllCorpora == {
  <<Session("x", <<1, 2>>), Session("y", <<2, 3>>)>>,
  <<Session("y", <<2, 3>>), Session("x", <<1, 2>>)>>,
  <<Session("x", <<1, 4>>)>>,
  <<Session("x", <<2>>), Session("x", <<3>>)>>,
  <<Session("y", <<>>)>>}
=============================================================================
