--------------------------- MODULE MCServerRoles ---------------------------
(***************************************************************************)
(* Instances of ServerRoles for TLC.                                       *)
(***************************************************************************)
EXTENDS ServerRoles

CONSTANT m1

\* Every role on the same machine, so its agent is shared.
OneMachine == [r \in Role |-> m1]

=============================================================================
