---------------------------- MODULE MCSpaSession ----------------------------
(* Small instances of the page.  Users, client ids, sessions and the       *)
(* places of calls are interchangeable.                                    *)
EXTENDS SpaSession, TLC

Interchangeable ==
  Permutations(Users) \union Permutations(Clients) \union Permutations(Ids)
    \union Permutations(Slots)
=============================================================================
