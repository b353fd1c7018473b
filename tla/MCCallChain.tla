----------------------------- MODULE MCCallChain -----------------------------
(* Two users, one of them with a puid, the BFF's app and another one.      *)
EXTENDS CallChain
=============================================================================
