--------------------------- MODULE MCMemoryStore ---------------------------
(* TLC instance of the in-memory store: pushes of no value, one and two.   *)
EXTENDS MemoryStore

MCPushes == {<<>>, <<1>>, <<1, 2>>}

=============================================================================
