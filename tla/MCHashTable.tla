---------------------------- MODULE MCHashTable ----------------------------
(* Instances of HashTable with colliding hashes.                           *)
EXTENDS HashTable, TLC

CONSTANTS k1, k2, k3, k4, s1, s2, s3, v1, v2

(* Two pointers to one string, so that keys are compared by content.       *)
ThreeStrings == {s1, s2, s3}
ThreeKeys == {k1, k2, k3}
FourKeys == {k1, k2, k3, k4}
StrOfFour == (k1 :> s1) @@ (k2 :> s2) @@ (k3 :> s3) @@ (k4 :> s1)
StrEach == (k1 :> s1) @@ (k2 :> s2) @@ (k3 :> s3)
(* Equal hashes, and hashes equal modulo a table's size.                   *)
SameHash == (s1 :> 1) @@ (s2 :> 1) @@ (s3 :> 4)
Collide == (s1 :> 1) @@ (s2 :> 3) @@ (s3 :> 2)
OneValue == {v1}
TwoValues == {v1, v2}
=============================================================================
