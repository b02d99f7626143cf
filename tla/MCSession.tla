----------------------------- MODULE MCSession -----------------------------
(* Two terminals, so that a session and a command, or two commands, meet   *)
(* over the files; terminals, runs and workflows are interchangeable.      *)
EXTENDS Session, TLC

Interchangeable ==
  Permutations(Terminal) \cup Permutations(Run) \cup Permutations(Workflow)
=============================================================================
