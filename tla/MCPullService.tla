--------------------------- MODULE MCPullService ---------------------------
(* Two pulls in a row, because the second finds what the first left behind.  *)
EXTENDS PullService
=============================================================================
