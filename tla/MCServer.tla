------------------------------ MODULE MCServer ------------------------------
(* A small instance of Server for TLC. *)
EXTENDS Server

CONSTANTS r1, r2

TwoRequests == {r1, r2}
SomeKinds == {"stream", "voice", "agent", "mcp"}
=============================================================================
