---------------------------- MODULE MCAskResume ----------------------------
(* AskResume on a small instance. *)
EXTENDS AskResume

\* Bound: a subagent asks only while the clients are orderly; other clients meet
\* the asks of the main agent.  It holds back no step that is fair.
InBounds == orderly \/ OneAsker

MCSpec == Init /\ [][Next /\ InBounds']_vars /\ Fairness
=============================================================================
