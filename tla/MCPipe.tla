------------------------------- MODULE MCPipe -------------------------------
(* An instance of Pipe: a writer, a reader, and a process that still has   *)
(* both ends open, as a shell does between pipe and the closes that follow *)
(* the forks.                                                              *)
EXTENDS Pipe, TLC

CONSTANTS writer, reader, both

MCEnds == (writer :> {"w"}) @@ (reader :> {"r"}) @@ (both :> {"r", "w"})
=============================================================================
