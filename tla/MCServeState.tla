---------------------------- MODULE MCServeState ----------------------------
(* A file left by a killed server or none, two serve processes that may    *)
(* both be killed, and one command.                                        *)
EXTENDS ServeState

MCProcs == {"p1", "p2"}
=============================================================================
