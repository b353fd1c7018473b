------------------------ MODULE MCPendingSignInStore ------------------------
(* A small instance: states and threads are interchangeable.               *)
EXTENDS PendingSignInStore, TLC

Interchangeable == Permutations(States) \union Permutations(Threads)
=============================================================================
