--------------------------- MODULE WaitgroupPico ---------------------------
(***************************************************************************)
(* The waitgroup of runtime-sys/pico/waitgroup.c: a semaphore that counts  *)
(* finished work, and two plain ints that no lock protects.  The crew are  *)
(* the two cores and interrupt handlers; an increment of a plain int is a  *)
(* load and a store with other threads in between.                         *)
(***************************************************************************)
EXTENDS Integers, FiniteSets

CONSTANTS
  Owner,       (* the thread that creates and finalizes the group           *)
  Workers,     (* the threads started for the work it announces             *)
  MaxDelta,    (* the largest delta an add passes                           *)
  GroupPermits, (* the bound of the semaphore, 32767                        *)
  Announced,   (* bound: how much work the adds announce in all             *)
  MaxDones,    (* bound: how many times done is called in all               *)
  Disciplined  (* whether done is called once for each announced item       *)

Crew == Workers \cup {Owner}

ASSUME OwnerAssumption == Owner \notin Workers
ASSUME WorkersAssumption == IsFiniteSet(Workers)
ASSUME BoundAssumption == {MaxDelta, GroupPermits, Announced, MaxDones} \subseteq Nat
ASSUME DisciplineAssumption == Disciplined \in BOOLEAN

VARIABLES
  total_added, done_count,  (* the plain ints of waitgroup_data_t           *)
  finished,  (* the permits of its semaphore                                *)
  alive,     (* wg->init: the group was not finalized                       *)
  at,        (* where each thread is                                        *)
  loaded,    (* the value a thread loaded from the int it increments        *)
  taken,     (* i: how many permits finalize has acquired                   *)
  unclaimed, (* announced items nobody was started for yet                  *)
  busy,      (* the workers that hold an item                               *)
  calls      (* the calls of done, for the bound MaxDones                   *)

groupVars == <<total_added, done_count, finished, alive, at, loaded, taken, unclaimed, busy, calls>>

-----------------------------------------------------------------------------
GroupInit ==
  /\ total_added = 0
  /\ done_count = 0
  /\ finished = 0
  /\ alive = TRUE
  /\ at = [t \in Crew |-> "idle"]
  /\ loaded = [t \in Crew |-> 0]
  /\ taken = 0
  /\ unclaimed = 0
  /\ busy = {}
  /\ calls = 0

GoesTo(t, p) == at' = [at EXCEPT ![t] = p]

Start(w) ==
  /\ w \in Workers
  /\ unclaimed > 0
  /\ w \notin busy
  /\ at[w] = "idle"
  /\ unclaimed' = unclaimed - 1
  /\ busy' = busy \cup {w}
  /\ UNCHANGED <<total_added, done_count, finished, alive, at, loaded, taken, calls>>

(* sys_waitgroup_add, by the owner before finalize, which keeps one adder  *)
(* at a time: the code adds to total_added unprotected in any context, and *)
(* two that add at once may lose an addition, as two that do done may.     *)
Add ==
  /\ at[Owner] = "idle"
  /\ alive
  /\ \E d \in 1 .. MaxDelta :
       /\ total_added + d <= Announced
       /\ total_added' = total_added + d
       /\ unclaimed' = unclaimed + d
  /\ UNCHANGED <<done_count, finished, alive, at, loaded, taken, busy, calls>>

-----------------------------------------------------------------------------
(* sys_waitgroup_done.                                                     *)

CallDone(t) ==
  /\ t \in Workers
  /\ at[t] = "idle"
  /\ calls < MaxDones
  /\ alive
  /\ Disciplined => t \in busy
  /\ calls' = calls + 1
  /\ busy' = busy \ {t}
  /\ GoesTo(t, "done")
  /\ UNCHANGED <<total_added, done_count, finished, alive, loaded, taken, unclaimed>>

(* Mutation: done compares with > and so refuses the last item.            *)
DoneCheckOffByOne(t) ==
  /\ at[t] = "done"
  /\ \/ done_count + 1 >= total_added /\ GoesTo(t, "idle") /\ UNCHANGED loaded
     \/ /\ done_count + 1 < total_added
        /\ loaded' = [loaded EXCEPT ![t] = done_count]
        /\ GoesTo(t, "increment")
  /\ UNCHANGED <<total_added, done_count, finished, alive, taken, unclaimed, busy, calls>>

(* It refuses when as many were done as were added; or else it goes on     *)
(* with the done_count it read.                                            *)
DoneCheck(t) ==
  /\ at[t] = "done"
  /\ \/ done_count >= total_added /\ GoesTo(t, "idle") /\ UNCHANGED loaded
     \/ /\ done_count < total_added
        /\ loaded' = [loaded EXCEPT ![t] = done_count]
        /\ GoesTo(t, "increment")
  /\ UNCHANGED <<total_added, done_count, finished, alive, taken, unclaimed, busy, calls>>

DoneStore(t) ==
  /\ at[t] = "increment"
  /\ done_count' = loaded[t] + 1
  /\ loaded' = [loaded EXCEPT ![t] = 0]
  /\ GoesTo(t, "release")
  /\ UNCHANGED <<total_added, finished, alive, taken, unclaimed, busy, calls>>

(* sem_release adds a permit unless the semaphore is at its bound.         *)
DoneRelease(t) ==
  /\ at[t] = "release"
  /\ finished' = IF finished < GroupPermits THEN finished + 1 ELSE finished
  /\ GoesTo(t, "idle")
  /\ UNCHANGED <<total_added, done_count, alive, loaded, taken, unclaimed, busy, calls>>

-----------------------------------------------------------------------------
(* sys_waitgroup_finalize acquires a permit for each item added and then   *)
(* marks the group as uninitialized.                                       *)

CallFinalize ==
  /\ at[Owner] = "idle"
  /\ alive
  /\ GoesTo(Owner, "finalize")
  /\ UNCHANGED <<total_added, done_count, finished, alive, loaded, taken, unclaimed, busy, calls>>

Acquire ==
  /\ at[Owner] = "finalize"
  /\ taken < total_added
  /\ finished > 0
  /\ finished' = finished - 1
  /\ taken' = taken + 1
  /\ UNCHANGED <<total_added, done_count, alive, at, loaded, unclaimed, busy, calls>>

(* Mutation: finalize takes the work nobody has done yet from done_count.  *)
FinishByCount ==
  /\ at[Owner] = "finalize"
  /\ done_count >= total_added
  /\ alive' = FALSE
  /\ GoesTo(Owner, "idle")
  /\ UNCHANGED <<total_added, done_count, finished, loaded, taken, unclaimed, busy, calls>>

Finish ==
  /\ at[Owner] = "finalize"
  /\ taken >= total_added
  /\ alive' = FALSE
  /\ GoesTo(Owner, "idle")
  /\ UNCHANGED <<total_added, done_count, finished, loaded, taken, unclaimed, busy, calls>>

-----------------------------------------------------------------------------
DoneGoesOn(t) == DoneCheck(t) \/ DoneStore(t) \/ DoneRelease(t)

GroupStep ==
  \/ \E t \in Crew : Start(t) \/ CallDone(t) \/ DoneGoesOn(t)
  \/ Add \/ CallFinalize \/ Acquire \/ Finish

-----------------------------------------------------------------------------
(* Properties.                                                             *)

GroupTypeOK ==
  /\ total_added \in 0 .. Announced
  /\ done_count \in 0 .. total_added
  /\ finished \in 0 .. GroupPermits
  /\ alive \in BOOLEAN
  /\ at \in [Crew -> {"idle", "done", "increment", "release", "finalize"}]
  /\ loaded \in [Crew -> 0 .. Announced]
  /\ taken \in 0 .. total_added
  /\ unclaimed \in 0 .. Announced
  /\ busy \subseteq Workers
  /\ calls \in 0 .. MaxDones

InDone == {t \in Crew : at[t] \in {"done", "increment", "release"}}

Outstanding == unclaimed + Cardinality(busy) + Cardinality(InDone)

(* Although done_count may lose increments, the permits never do: what was  *)
(* added is what is outstanding plus what was released, so finalize waits  *)
(* for exactly the work that is left.                                      *)
PermitsCount == total_added = Outstanding + finished + taken

(* Under the discipline nobody is left in the group when finalize returns. *)
NothingLeftBehind == ~alive => Outstanding = 0

(* Finalize returns once the announced work is done.                       *)
FinalizeReturns == at[Owner] = "finalize" ~> ~alive

(* The waitgroup implements the abstract count of pending work, the same   *)
(* that the POSIX one implements.                                          *)
Promise == INSTANCE PendingWork WITH
  pending <- total_added - finished - taken, exists <- alive

CountsPending == Promise!Spec

=============================================================================
