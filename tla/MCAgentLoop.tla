---------------------------- MODULE MCAgentLoop ----------------------------
(***************************************************************************)
(* Instances of AgentLoop for TLC.                                         *)
(***************************************************************************)
EXTENDS AgentLoop

\* The shortest interval with changes pushed, the longest without.
Extremes == {[minutes |-> 1, push |-> TRUE], [minutes |-> 30, push |-> FALSE]}

\* As installed.
Default == {[minutes |-> 15, push |-> FALSE]}

\* A policy that takes every newer agent, and one that pins the first release.
TakeOrPin == [a |-> [mode |-> "install", pin |-> 0], b |-> [mode |-> "install", pin |-> 1]]

\* Agents are left alone.
Off == [d \in Doc |-> [mode |-> "off", pin |-> 0]]

=============================================================================
