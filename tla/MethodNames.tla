------------------------------ MODULE MethodNames ------------------------------
(***************************************************************************)
(* What a runtime's registry of methods promises: a set of pairs in which  *)
(* no id and no name is twice. Who adds a pair replaces every pair that    *)
(* has its id or its name, and no other.                                   *)
(***************************************************************************)
CONSTANTS Ids, Names

VARIABLE pairs

Init == pairs = {}

Add(id, name) ==
  pairs' = {p \in pairs : p[1] # id /\ p[2] # name} \cup {<<id, name>>}

Next == \E id \in Ids, name \in Names : Add(id, name)

Spec == Init /\ [][Next]_pairs
================================================================================
