----------------------------- MODULE MCWidgetTab -----------------------------
(* Small instances of the page with its widget tab.  Users, client ids and *)
(* sessions are interchangeable.                                           *)
EXTENDS WidgetTab, TLC

Interchangeable ==
  Permutations(Users) \union Permutations(Clients) \union Permutations(Ids)
=============================================================================
