--------------------------- MODULE MCPaperAccount ---------------------------
(* A small instance of the paper account for TLC.                           *)
EXTENDS PaperAccount

CONSTANTS c1, monitor, actions

=============================================================================
