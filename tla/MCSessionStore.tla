--------------------------- MODULE MCSessionStore ---------------------------
(* A small instance of SessionStore: ids and threads are interchangeable.  *)
EXTENDS SessionStore, TLC

Interchangeable == Permutations(SessionIds) \union Permutations(Threads)
=============================================================================
