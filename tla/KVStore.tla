------------------------------ MODULE KVStore -------------------------------
(***************************************************************************)
(* nistore/kvstore.h: the single-version store under LockStore, declared   *)
(* as unordered_map<string, list<string>>.  kvstore.cc is not in the       *)
(* repository: get returns the front, put pushes a new front, remove pops  *)
(* it and, as spec.md (4.1) asks of a store's remove, leaves the key       *)
(* absent when its list empties.                                           *)
(***************************************************************************)
EXTENDS Sequences, TLC

CONSTANT NoValue

NotFound == [found |-> FALSE, val |-> NoValue]

get(s, key) ==
  IF key \in DOMAIN s THEN [found |-> TRUE, val |-> Head(s[key])] ELSE NotFound

put(s, key, value) ==
  (key :> (<<value>> \o (IF key \in DOMAIN s THEN s[key] ELSE <<>>))) @@ s

remove(s, key) ==
  IF Len(s[key]) = 1
  THEN [k \in DOMAIN s \ {key} |-> s[k]]
  ELSE [s EXCEPT ![key] = Tail(@)]

=============================================================================
