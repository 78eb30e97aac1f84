---------------------------- MODULE MCRunnerLink ----------------------------
(***************************************************************************)
(* A run whose CLI prints two lines, a malformed line, or a line without a *)
(* newline and something on stderr.                                        *)
(***************************************************************************)
EXTENDS RunnerLink

Out(text, ends) == [on |-> "stdout", text |-> text, ends |-> ends]
MCResults ==
  {<<Out("a", TRUE), Out("b", FALSE)>>, <<Out("bad", TRUE)>>,
   <<Out("b", FALSE), [on |-> "stderr", text |-> "b", ends |-> TRUE]>>}
=============================================================================
