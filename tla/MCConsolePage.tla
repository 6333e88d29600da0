--------------------------- MODULE MCConsolePage ---------------------------
(* Instances of ConsolePage for TLC. *)
EXTENDS ConsolePage

AllPages == DOMAIN Page

=============================================================================
