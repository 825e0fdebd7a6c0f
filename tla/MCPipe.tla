------------------------------- MODULE MCPipe -------------------------------
(* Pipe with two processes, for TLC.                                       *)
EXTENDS Pipe
=============================================================================
