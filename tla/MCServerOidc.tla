---------------------------- MODULE MCServerOidc ----------------------------
(* Small instances of ServerOidc.  Sign-ins, session ids and request slots *)
(* are interchangeable.                                                    *)
EXTENDS ServerOidc, TLC

Interchangeable ==
  Permutations(States) \union Permutations(SessionIds)
    \union Permutations(Requests)
=============================================================================
