--------------------------- MODULE MCDefinitions ---------------------------
(***************************************************************************)
(* Instances of Definitions for TLC.                                       *)
(***************************************************************************)
EXTENDS Definitions, TLC

CONSTANTS m1

\* Everything on the same machine, so its agent is shared.
OneMachine == [n \in Name |-> m1]

\* No request is told from another.
Alike == Permutations(Request)

=============================================================================
