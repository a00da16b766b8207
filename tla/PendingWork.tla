---------------------------- MODULE PendingWork ----------------------------
(***************************************************************************)
(* What a waitgroup promises, whatever it is built from: the count of work *)
(* items announced and not yet reported done, and a finalize that ends the *)
(* group only when nothing is pending.                                     *)
(***************************************************************************)
EXTENDS Naturals

VARIABLES
  pending,  (* work announced by successful adds and not yet done          *)
  exists    (* the group was not finalized                                 *)

vars == <<pending, exists>>

Init == pending = 0 /\ exists = TRUE

Announce == exists /\ pending' \in Nat /\ pending' > pending /\ UNCHANGED exists

Report == exists /\ pending > 0 /\ pending' = pending - 1 /\ UNCHANGED exists

Finish == exists /\ pending = 0 /\ exists' = FALSE /\ UNCHANGED pending

Next == Announce \/ Report \/ Finish

Spec == Init /\ [][Next]_vars
=============================================================================
