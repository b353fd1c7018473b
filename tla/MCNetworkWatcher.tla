-------------------------- MODULE MCNetworkWatcher --------------------------
(* Small instances of NetworkWatcher.  Calls are interchangeable.          *)
EXTENDS NetworkWatcher, TLC

Interchangeable == Permutations(Fetches) \union Permutations(Xhrs)
=============================================================================
