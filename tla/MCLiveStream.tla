---------------------------- MODULE MCLiveStream ----------------------------
(* An instance of LiveStream for TLC. *)
EXTENDS LiveStream

\* The sidebar and a page beside it, with a table in common.
Watches == [l \in Listener |-> IF l = "sidebar" THEN {"server_role", "node_task"}
                                               ELSE {"node_task", "audit_log"}]

=============================================================================
