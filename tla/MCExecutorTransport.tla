------------------------ MODULE MCExecutorTransport ------------------------
(* Two packages, one whose adapter has no live command, and the behaviours *)
(* that differ for the transport.                                          *)
EXTENDS ExecutorTransport

Quick == [output |-> 1, obeys |-> TRUE, lingers |-> FALSE, malformed |-> FALSE]

\* Prints more than a pipe holds, and ignores SIGTERM.
Loud == [Quick EXCEPT !.output = 2, !.obeys = FALSE]

AllBehaviours == {Quick, Loud, [Quick EXCEPT !.lingers = TRUE],
                  [Quick EXCEPT !.malformed = TRUE]}
=============================================================================
