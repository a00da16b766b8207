----------------------------- MODULE KeyedStore -----------------------------
(***************************************************************************)
(* What a map promises: each key has at most one value, setting a key      *)
(* replaces its value, removing it leaves it without one, and the count is *)
(* the number of keys that have one.                                       *)
(***************************************************************************)
EXTENDS Naturals, FiniteSets

CONSTANTS Strings, Values, NULL

VARIABLES
  store,  (* the value of each key, or NULL                                 *)
  size    (* the count the map reports                                      *)

vars == <<store, size>>

Present(s) == {k \in Strings : s[k] # NULL}

Init == store = [k \in Strings |-> NULL] /\ size = 0

Set(k, v) == store' = [store EXCEPT ![k] = v]

Remove(k) == store' = [store EXCEPT ![k] = NULL]

Clear == store' = [k \in Strings |-> NULL]

Next ==
  /\ \/ \E k \in Strings, v \in Values : Set(k, v)
     \/ \E k \in Strings : Remove(k)
     \/ Clear
  /\ size' = Cardinality(Present(store'))

Spec == Init /\ [][Next]_vars
=============================================================================
