----------------------------- MODULE PicoProofs -----------------------------
(***************************************************************************)
(* TLAPS proofs about the primitives of the Pico: the waitgroup made of a  *)
(* semaphore and two ints that no lock protects, and the event queue over  *)
(* the semaphore condition, for any threads, handlers and capacities.      *)
(***************************************************************************)
EXTENDS Pico, FiniteSetTheorems, TLAPS

-----------------------------------------------------------------------------
(* The waitgroup: its inductive invariant.                                 *)

(* A use with one done for each announced item, of no more work than the   *)
(* semaphore has permits for.                                              *)
Orderly == Disciplined /\ Announced <= GroupPermits

GroupPositions ==
  /\ at \in [Crew -> {"idle", "done", "increment", "release", "finalize"}]
  /\ loaded \in [Crew -> Nat]
  /\ at[Owner] \in {"idle", "finalize"}
  /\ \A w \in Workers : at[w] # "finalize"
  /\ busy \subseteq Workers /\ calls \in 0 .. MaxDones
  /\ alive \in BOOLEAN /\ (at[Owner] = "finalize" => alive)

GroupNumbers ==
  /\ total_added \in Nat /\ total_added <= Announced
  /\ done_count \in Nat /\ finished \in Nat /\ taken \in Nat /\ unclaimed \in Nat

(* The dones that have stored: done_count and the values loaded from it    *)
(* may lag behind them, never lead.                                        *)
Releasing == {t \in Crew : at[t] = "release"}
Stored == Cardinality(Releasing) + finished + taken

Lagging ==
  /\ done_count <= Stored
  /\ \A t \in Crew : loaded[t] <= Stored

GroupInv == GroupPositions /\ GroupNumbers /\ Lagging /\ PermitsCount /\ NothingLeftBehind

-----------------------------------------------------------------------------
(* The constants of the group as the proofs use them.                      *)
LEMMA GroupConstants ==
  /\ IsFiniteSet(Crew) /\ Owner \in Crew /\ Owner \notin Workers
  /\ Announced \in Nat /\ GroupPermits \in Nat /\ MaxDelta \in Nat /\ MaxDones \in Nat
<1>1. IsFiniteSet(Workers \cup {Owner})
  BY WorkersAssumption, FS_AddElement
<1>. QED BY <1>1, OwnerAssumption, BoundAssumption DEF Crew

(* The sets of threads are finite, and those that stored are in a done.    *)
LEMMA GroupCounts ==
  ASSUME GroupPositions
  PROVE  /\ IsFiniteSet(InDone) /\ IsFiniteSet(Releasing) /\ IsFiniteSet(busy)
         /\ Cardinality(InDone) \in Nat /\ Cardinality(Releasing) \in Nat
         /\ Cardinality(busy) \in Nat
         /\ Cardinality(Releasing) <= Cardinality(InDone)
         /\ \A t \in InDone \ Releasing : Cardinality(Releasing) < Cardinality(InDone)
<1>1. InDone \subseteq Crew /\ Releasing \subseteq InDone /\ busy \subseteq Workers
  BY DEF InDone, Releasing, GroupPositions
<1>2. IsFiniteSet(InDone) /\ IsFiniteSet(Releasing) /\ IsFiniteSet(busy)
  BY <1>1, GroupConstants, WorkersAssumption, FS_Subset
<1>3. /\ Cardinality(InDone) \in Nat /\ Cardinality(Releasing) \in Nat
      /\ Cardinality(busy) \in Nat
  BY <1>2, FS_CardinalityType
<1>4. Cardinality(Releasing) <= Cardinality(InDone)
  BY <1>1, <1>2, FS_Subset
<1>5. ASSUME NEW t \in InDone \ Releasing
      PROVE  Cardinality(Releasing) < Cardinality(InDone)
  <2>1. Cardinality(Releasing) # Cardinality(InDone)
    BY <1>1, <1>2, <1>5, FS_Subset
  <2>. QED BY <1>3, <1>4, <2>1
<1>. QED BY <1>2, <1>3, <1>4, <1>5

(* What was stored is no more than what was added.                         *)
LEMMA StoredBound ==
  ASSUME GroupInv
  PROVE  /\ Stored \in Nat /\ Stored <= total_added
         /\ \A t \in InDone \ Releasing : Stored < total_added
         /\ finished + Cardinality(InDone) <= total_added
<1>1. total_added = unclaimed + Cardinality(busy) + Cardinality(InDone) + finished + taken
  BY DEF GroupInv, PermitsCount, Outstanding
<1>. QED BY <1>1, GroupCounts DEF GroupInv, GroupNumbers, Stored

(* The group starts in the strengthening.                                  *)
LEMMA GroupInitOK == GroupInit => GroupInv
<1>. SUFFICES ASSUME GroupInit PROVE GroupInv
  OBVIOUS
<1>. USE GroupConstants
<1>1. InDone = {} /\ Releasing = {} /\ busy = {}
  BY DEF GroupInit, InDone, Releasing
<1>2. Cardinality(InDone) = 0 /\ Cardinality(Releasing) = 0 /\ Cardinality(busy) = 0
  BY <1>1, FS_EmptySet
<1>3. GroupPositions
  <2>1. alive \in BOOLEAN /\ alive
    BY Zenon DEF GroupInit
  <2>. QED BY <2>1 DEF GroupInit, GroupPositions, Crew
<1>6. GroupNumbers
  BY DEF GroupInit, GroupNumbers
<1>4. Lagging
  BY <1>2 DEF GroupInit, Lagging, Stored
<1>5. PermitsCount /\ NothingLeftBehind
  BY <1>2 DEF GroupInit, PermitsCount, NothingLeftBehind, Outstanding
<1>. QED BY <1>3, <1>4, <1>5, <1>6 DEF GroupInv

(* A worker that starts keeps it.                                          *)
LEMMA StartKeeps ==
  ASSUME GroupInv, NEW w \in Crew, Start(w)
  PROVE  GroupInv'
<1>1. /\ w \in Workers /\ unclaimed > 0 /\ w \notin busy
      /\ unclaimed' = unclaimed - 1 /\ busy' = busy \cup {w} /\ UNCHANGED <<at, loaded>>
      /\ UNCHANGED <<total_added, done_count, finished, alive, taken, calls>>
  BY DEF Start
<1>2. InDone' = InDone /\ Releasing' = Releasing
  BY <1>1 DEF InDone, Releasing
<1>3. Cardinality(busy') = Cardinality(busy) + 1
  BY <1>1, GroupCounts, FS_AddElement DEF GroupInv
<1>4. GroupPositions'
  BY <1>1 DEF GroupInv, GroupPositions
<1>5. GroupNumbers' /\ Lagging'
  BY <1>1, <1>2 DEF GroupInv, GroupNumbers, Lagging, Stored
<1>6. Outstanding' = Outstanding
  BY <1>1, <1>2, <1>3, GroupCounts DEF GroupInv, GroupNumbers, Outstanding
<1>7. PermitsCount' /\ NothingLeftBehind'
  BY <1>1, <1>6 DEF GroupInv, PermitsCount, NothingLeftBehind
<1>. QED BY <1>4, <1>5, <1>7 DEF GroupInv

(* add keeps it, and grows the total.                                      *)
LEMMA AddKeeps ==
  ASSUME GroupInv, Add
  PROVE  GroupInv' /\ alive /\ total_added' > total_added
<1>1. PICK d \in 1 .. MaxDelta :
        /\ total_added + d <= Announced /\ total_added' = total_added + d
        /\ unclaimed' = unclaimed + d
  BY DEF Add
<1>2. /\ alive /\ UNCHANGED <<at, loaded, done_count, finished, alive, taken, busy, calls>>
  BY DEF Add
<1>3. InDone' = InDone /\ Releasing' = Releasing /\ d \in Nat /\ d > 0
  BY <1>1, <1>2, GroupConstants DEF InDone, Releasing
<1>4. GroupPositions'
  BY <1>2 DEF GroupInv, GroupPositions
<1>5. GroupNumbers' /\ Lagging' /\ total_added' > total_added
  BY <1>1, <1>2, <1>3 DEF GroupInv, GroupNumbers, Lagging, Stored
<1>6. PermitsCount' /\ NothingLeftBehind'
  BY <1>1, <1>2, <1>3, GroupCounts
     DEF GroupInv, GroupNumbers, PermitsCount, NothingLeftBehind, Outstanding
<1>. QED BY <1>2, <1>4, <1>5, <1>6 DEF GroupInv

(* The first step of done, which loads the count, keeps it.                *)
LEMMA CallDoneKeeps ==
  ASSUME GroupInv, Orderly, NEW t \in Crew, CallDone(t)
  PROVE  GroupInv'
<1>1. /\ t \in Workers /\ at[t] = "idle" /\ t \in busy /\ calls < MaxDones /\ alive
      /\ calls' = calls + 1 /\ busy' = busy \ {t} /\ at' = [at EXCEPT ![t] = "done"]
      /\ UNCHANGED <<total_added, done_count, finished, alive, loaded, taken, unclaimed>>
  BY DEF CallDone, GoesTo, Orderly
<1>2. InDone' = InDone \cup {t} /\ t \notin InDone /\ Releasing' = Releasing
  BY <1>1 DEF InDone, Releasing, GroupInv, GroupPositions
<1>3. /\ Cardinality(busy') = Cardinality(busy) - 1
      /\ Cardinality(InDone') = Cardinality(InDone) + 1
  BY <1>1, <1>2, GroupCounts, FS_AddElement, FS_RemoveElement DEF GroupInv
<1>4. GroupPositions'
  BY <1>1, GroupConstants DEF GroupInv, GroupPositions
<1>5. GroupNumbers' /\ Lagging'
  BY <1>1, <1>2 DEF GroupInv, GroupNumbers, Lagging, Stored
<1>6. Outstanding' = Outstanding
  BY <1>1, <1>3, GroupCounts DEF GroupInv, GroupNumbers, Outstanding
<1>7. PermitsCount' /\ NothingLeftBehind'
  BY <1>1, <1>6 DEF GroupInv, PermitsCount, NothingLeftBehind
<1>. QED BY <1>4, <1>5, <1>7 DEF GroupInv

(* The check never refuses: done_count lags behind the dones that stored,  *)
(* and this one has not.                                                   *)
LEMMA DoneCheckKeeps ==
  ASSUME GroupInv, NEW t \in Crew, DoneCheck(t)
  PROVE  GroupInv'
<1>1. at[t] = "done" /\ t \in InDone \ Releasing
  BY DEF DoneCheck, InDone, Releasing
<1>2. done_count < total_added
  BY <1>1, StoredBound DEF GroupInv, Lagging, GroupNumbers
<1>3. /\ loaded' = [loaded EXCEPT ![t] = done_count] /\ at' = [at EXCEPT ![t] = "increment"]
      /\ UNCHANGED <<total_added, done_count, finished, alive, taken, unclaimed, busy, calls>>
  BY <1>2 DEF DoneCheck, GoesTo, GroupInv, GroupNumbers
<1>4. InDone' = InDone /\ Releasing' = Releasing
  BY <1>1, <1>3 DEF InDone, Releasing, GroupInv, GroupPositions
<1>5. t # Owner
  BY <1>1 DEF GroupInv, GroupPositions
<1>6. GroupPositions'
  BY <1>3, <1>5 DEF GroupInv, GroupPositions, GroupNumbers
<1>7. GroupNumbers' /\ Lagging'
  BY <1>3, <1>4 DEF GroupInv, GroupPositions, GroupNumbers, Lagging, Stored
<1>8. PermitsCount' /\ NothingLeftBehind'
  BY <1>3, <1>4 DEF GroupInv, PermitsCount, NothingLeftBehind, Outstanding
<1>. QED BY <1>6, <1>7, <1>8 DEF GroupInv

(* The second step of done, which stores what it loaded, keeps it.         *)
LEMMA DoneStoreKeeps ==
  ASSUME GroupInv, NEW t \in Crew, DoneStore(t)
  PROVE  GroupInv'
<1>1. /\ at[t] = "increment" /\ done_count' = loaded[t] + 1
      /\ loaded' = [loaded EXCEPT ![t] = 0] /\ at' = [at EXCEPT ![t] = "release"]
      /\ UNCHANGED <<total_added, finished, alive, taken, unclaimed, busy, calls>>
  BY DEF DoneStore, GoesTo
<1>2. InDone' = InDone /\ Releasing' = Releasing \cup {t} /\ t \notin Releasing
  BY <1>1 DEF InDone, Releasing, GroupInv, GroupPositions
<1>3. Cardinality(Releasing') = Cardinality(Releasing) + 1
  BY <1>2, GroupCounts, FS_AddElement DEF GroupInv
<1>4. Stored' = Stored + 1 /\ Stored \in Nat
  BY <1>1, <1>3, GroupCounts DEF Stored, GroupInv, GroupNumbers
<1>5. t # Owner
  BY <1>1 DEF GroupInv, GroupPositions
<1>6. GroupPositions' /\ GroupNumbers'
  BY <1>1, <1>5 DEF GroupInv, GroupPositions, GroupNumbers
<1>7. Lagging'
  BY <1>1, <1>4 DEF GroupInv, GroupPositions, Lagging
<1>8. PermitsCount' /\ NothingLeftBehind'
  BY <1>1, <1>2 DEF GroupInv, PermitsCount, NothingLeftBehind, Outstanding
<1>. QED BY <1>6, <1>7, <1>8 DEF GroupInv

(* The semaphore is below its bound, so the permit is not lost.            *)
LEMMA DoneReleaseKeeps ==
  ASSUME GroupInv, Orderly, NEW t \in Crew, DoneRelease(t)
  PROVE  GroupInv' /\ alive /\ alive' /\ finished' = finished + 1
<1>1. /\ at[t] = "release" /\ at' = [at EXCEPT ![t] = "idle"]
      /\ finished' = IF finished < GroupPermits THEN finished + 1 ELSE finished
      /\ UNCHANGED <<total_added, done_count, alive, loaded, taken, unclaimed, busy, calls>>
  BY DEF DoneRelease, GoesTo
<1>2. /\ t \in InDone /\ InDone' = InDone \ {t}
      /\ t \in Releasing /\ Releasing' = Releasing \ {t}
  BY <1>1 DEF InDone, Releasing, GroupInv, GroupPositions
<1>3. /\ Cardinality(InDone') = Cardinality(InDone) - 1
      /\ Cardinality(Releasing') = Cardinality(Releasing) - 1
  BY <1>2, GroupCounts, FS_RemoveElement DEF GroupInv
<1>4. Cardinality(InDone) > 0
  BY <1>2, GroupCounts, FS_EmptySet DEF GroupInv
<1>5. finished' = finished + 1
  BY <1>1, <1>4, StoredBound, GroupCounts, GroupConstants DEF GroupInv, GroupNumbers, Orderly
<1>6. alive
  BY <1>4, GroupCounts DEF GroupInv, GroupNumbers, GroupPositions, NothingLeftBehind, Outstanding
<1>7. t # Owner
  BY <1>1 DEF GroupInv, GroupPositions
<1>8. GroupPositions' /\ GroupNumbers'
  BY <1>1, <1>5, <1>7 DEF GroupInv, GroupPositions, GroupNumbers
<1>9. Lagging'
  BY <1>1, <1>3, <1>5, GroupCounts DEF GroupInv, GroupNumbers, Lagging, Stored
<1>10. PermitsCount' /\ NothingLeftBehind'
  BY <1>1, <1>3, <1>5, <1>6, GroupCounts
     DEF GroupInv, GroupNumbers, PermitsCount, NothingLeftBehind, Outstanding
<1>. QED BY <1>1, <1>5, <1>6, <1>8, <1>9, <1>10 DEF GroupInv

(* Calling finalize keeps it.                                              *)
LEMMA CallFinalizeKeeps ==
  ASSUME GroupInv, CallFinalize
  PROVE  GroupInv'
<1>1. /\ at[Owner] = "idle" /\ alive /\ at' = [at EXCEPT ![Owner] = "finalize"]
      /\ UNCHANGED <<total_added, done_count, finished, alive, loaded, taken, unclaimed, busy, calls>>
  BY DEF CallFinalize, GoesTo
<1>2. InDone' = InDone /\ Releasing' = Releasing
  BY <1>1 DEF InDone, Releasing, GroupInv, GroupPositions
<1>3. GroupPositions'
  BY <1>1, GroupConstants DEF GroupInv, GroupPositions
<1>. QED BY <1>1, <1>2, <1>3
          DEF GroupInv, GroupNumbers, Lagging, Stored, PermitsCount, NothingLeftBehind, Outstanding

(* Each permit finalize acquires keeps it, and moves from one count to the other. *)
LEMMA AcquireKeeps ==
  ASSUME GroupInv, Acquire
  PROVE  GroupInv' /\ finished' + taken' = finished + taken
<1>1. /\ at[Owner] = "finalize" /\ finished > 0
      /\ finished' = finished - 1 /\ taken' = taken + 1
      /\ UNCHANGED <<total_added, done_count, alive, at, loaded, unclaimed, busy, calls>>
  BY DEF Acquire
<1>2. InDone' = InDone /\ Releasing' = Releasing
  BY <1>1 DEF InDone, Releasing
<1>3. GroupPositions' /\ GroupNumbers' /\ finished' + taken' = finished + taken
  BY <1>1 DEF GroupInv, GroupPositions, GroupNumbers
<1>4. Stored' = Stored
  BY <1>1, <1>2, GroupCounts DEF Stored, GroupInv, GroupNumbers
<1>5. Outstanding' = Outstanding
  BY <1>1, <1>2 DEF Outstanding
<1>6. PermitsCount' /\ NothingLeftBehind'
  BY <1>1, <1>5, GroupCounts
     DEF GroupInv, GroupNumbers, PermitsCount, NothingLeftBehind, Outstanding
<1>. QED BY <1>1, <1>3, <1>4, <1>6 DEF GroupInv, Lagging

(* Finalize has acquired a permit for each item: nothing is outstanding.   *)
LEMMA FinishKeeps ==
  ASSUME GroupInv, Finish
  PROVE  GroupInv' /\ alive /\ total_added - finished - taken = 0
<1>1. /\ at[Owner] = "finalize" /\ taken >= total_added /\ alive' = FALSE
      /\ at' = [at EXCEPT ![Owner] = "idle"]
      /\ UNCHANGED <<total_added, done_count, finished, loaded, taken, unclaimed, busy, calls>>
  BY DEF Finish, GoesTo
<1>2. InDone' = InDone /\ Releasing' = Releasing
  BY <1>1 DEF InDone, Releasing, GroupInv, GroupPositions
<1>3. Outstanding = 0 /\ total_added - finished - taken = 0
  BY <1>1, GroupCounts DEF GroupInv, GroupNumbers, PermitsCount, Outstanding
<1>4. GroupPositions' /\ alive
  <2>1. alive' \in BOOLEAN
    BY <1>1, Zenon
  <2>. QED BY <1>1, <2>1, GroupConstants DEF GroupInv, GroupPositions
<1>5. Outstanding' = Outstanding
  BY <1>1, <1>2 DEF Outstanding
<1>. QED BY <1>1, <1>2, <1>3, <1>4, <1>5
          DEF GroupInv, GroupNumbers, Lagging, Stored, PermitsCount, NothingLeftBehind

(* Every step of the group keeps it.                                       *)
LEMMA GroupStepOK ==
  ASSUME GroupInv, Orderly, GroupStep
  PROVE  GroupInv'
<1>1. ASSUME NEW t \in Crew, Start(t) \/ CallDone(t) \/ DoneGoesOn(t)
      PROVE  GroupInv'
  BY <1>1, StartKeeps, CallDoneKeeps, DoneCheckKeeps, DoneStoreKeeps, DoneReleaseKeeps
     DEF DoneGoesOn
<1>2. CASE Add \/ CallFinalize \/ Acquire \/ Finish
  BY <1>2, AddKeeps, CallFinalizeKeeps, AcquireKeeps, FinishKeeps
<1>. QED BY <1>1, <1>2 DEF GroupStep

(* So does every step of the composed module.                              *)
LEMMA GroupKept == GroupInv /\ Orderly /\ [PicoNext]_picoVars => GroupInv'
<1>. SUFFICES ASSUME GroupInv, Orderly, [PicoNext]_picoVars PROVE GroupInv'
  OBVIOUS
<1>1. CASE UNCHANGED groupVars
  BY <1>1 DEF groupVars, GroupInv, GroupPositions, GroupNumbers, Lagging, Stored, Releasing,
              PermitsCount, NothingLeftBehind, Outstanding, InDone
<1>2. CASE OnGroup(GroupStep)
  BY <1>2, GroupStepOK DEF OnGroup
<1>3. UNCHANGED groupVars \/ OnGroup(GroupStep)
  BY DEF PicoNext, picoVars, OnQueue
<1>. QED BY <1>1, <1>2, <1>3

(* The strengthening always holds for an orderly program.                  *)
LEMMA GroupAlways ==
  ASSUME Orderly
  PROVE  PicoSpec => []GroupInv
<1>1. PicoInit => GroupInv
  BY GroupInitOK DEF PicoInit
<1>2. GroupInv /\ [PicoNext]_picoVars => GroupInv'
  BY GroupKept
<1>. QED BY <1>1, <1>2, PTL DEF PicoSpec

(* The waitgroup of the Pico loses no permit although its two ints are     *)
(* unprotected and done_count loses increments, and sys_waitgroup_finalize *)
(* leaves nobody in it: for any workers, deltas and interleavings, when    *)
(* done is called once per item and the semaphore can count the work.      *)
THEOREM GroupCorrect ==
  ASSUME Orderly
  PROVE  PicoSpec => []GroupSound
<1>1. ASSUME GroupInv PROVE GroupSound
  <2>1. /\ Stored <= total_added /\ Stored \in Nat
        /\ finished <= total_added /\ taken <= total_added /\ unclaimed <= total_added
    BY <1>1, StoredBound, GroupCounts
       DEF GroupInv, GroupNumbers, Stored, PermitsCount, Outstanding
  <2>2. done_count <= total_added /\ \A t \in Crew : loaded[t] <= total_added
    BY <1>1, <2>1 DEF GroupInv, GroupPositions, GroupNumbers, Lagging
  <2>3. loaded \in [Crew -> 0 .. Announced]
    BY <1>1, <2>2, GroupConstants DEF GroupInv, GroupPositions, GroupNumbers
  <2>4. GroupTypeOK
    BY <1>1, <2>1, <2>2, <2>3, GroupConstants
       DEF GroupInv, GroupPositions, GroupNumbers, GroupTypeOK, Orderly
  <2>. QED BY <1>1, <2>4 DEF GroupInv, GroupSound
<1>. QED BY <1>1, GroupAlways, PTL

(* Semaphore, ints and finalize implement the count of pending work that   *)
(* the waitgroup of the other systems implements (PendingWork).            *)
THEOREM GroupRefines ==
  ASSUME Orderly
  PROVE  PicoSpec => CountsPending
<1>1. PicoInit => Promise!Init
  BY DEF PicoInit, GroupInit, Promise!Init
<1>2. GroupInv /\ [PicoNext]_picoVars => [Promise!Next]_(Promise!vars)
  <2>. SUFFICES ASSUME GroupInv, [PicoNext]_picoVars
                PROVE  [Promise!Next]_(Promise!vars)
    OBVIOUS
  <2>. DEFINE pending == total_added - finished - taken
  <2>1. pending \in Nat /\ pending = Outstanding /\ Outstanding \in Nat
    BY GroupCounts DEF GroupInv, GroupNumbers, PermitsCount, Outstanding
  <2>2. CASE UNCHANGED <<total_added, finished, taken, alive>>
    BY <2>2 DEF Promise!vars
  <2>3. CASE Add
    <3>1. alive /\ alive' = alive /\ pending' \in Nat /\ pending' > pending
      BY <2>1, <2>3, AddKeeps DEF Add, GroupInv, GroupNumbers
    <3>. QED BY <3>1 DEF Promise!Next, Promise!Announce
  <2>4. ASSUME NEW t \in Crew, DoneRelease(t) PROVE Promise!Report
    <3>1. alive /\ alive' = alive /\ finished' = finished + 1 /\ total_added' = total_added /\ taken' = taken
      BY <2>4, DoneReleaseKeeps DEF DoneRelease
    <3>2. t \in InDone
      BY <2>4 DEF DoneRelease, InDone
    <3>3. Cardinality(InDone) > 0
      BY <3>2, GroupCounts, FS_EmptySet DEF GroupInv
    <3>4. pending > 0 /\ pending' = pending - 1
      BY <2>1, <3>1, <3>3, GroupCounts DEF GroupInv, GroupNumbers, Outstanding
    <3>. QED BY <3>1, <3>4 DEF Promise!Report
  <2>5. CASE Acquire
    <3>1. finished' + taken' = finished + taken /\ total_added' = total_added /\ alive' = alive
      BY <2>5, AcquireKeeps DEF Acquire
    <3>2. pending' = pending
      BY <2>5, <3>1, AcquireKeeps DEF GroupInv, GroupNumbers
    <3>. QED BY <3>1, <3>2 DEF Promise!vars
  <2>6. CASE Finish
    <3>1. alive /\ pending = 0 /\ alive' = FALSE /\ pending' = pending
      BY <2>6, FinishKeeps DEF Finish
    <3>. QED BY <3>1 DEF Promise!Next, Promise!Finish
  <2>7. ASSUME NEW t \in Crew, Start(t) \/ CallDone(t) \/ DoneCheck(t) \/ DoneStore(t)
        PROVE  UNCHANGED <<total_added, finished, taken, alive>>
    BY <2>7 DEF Start, CallDone, DoneCheck, DoneStore
  <2>8. CASE CallFinalize
    BY <2>2, <2>8 DEF CallFinalize
  <2>9. UNCHANGED groupVars \/ GroupStep
    BY DEF PicoNext, picoVars, OnQueue, OnGroup
  <2>. QED BY <2>2, <2>3, <2>4, <2>5, <2>6, <2>7, <2>8, <2>9
           DEF GroupStep, DoneGoesOn, groupVars, Promise!Next
<1>. QED BY <1>1, <1>2, GroupAlways, PTL DEF PicoSpec, CountsPending, Promise!Spec

-----------------------------------------------------------------------------
(* The event queue: its inductive invariant.                               *)

PopPlaces == {"pop", "timedPop", "tryPop", "popWait", "timedWait", "popSignaled", "timedSignaled",
              "timedOut", "popWoken", "timedWoken", "expired"}

(* Who can be where, and that a push has an event to push.                 *)
Roles ==
  \A t \in Threads : /\ pc[t] \in PopPlaces => t \in Consumers
                     /\ pc[t] \in {"push", "tryPush"} => arg[t] \in Events

QueueInv == TypeOK /\ Roles /\ WaitersCount /\ NoLostWakeup

Waits == {"popWait", "timedWait"}
Wakes == {"popSignaled", "timedSignaled", "timedOut"}
Places == Wanting \cup Waits \cup Wakes \cup {"idle"}

(* Every thread is at a place of the queue's code.                         *)
LEMMA PlacesTyped == TypeOK => pc \in [Threads -> Places]
BY DEF TypeOK, Places, Waits, Wakes

(* The sleepers and those who woke and still count are consumers, and the  *)
(* semaphore has a permit for each.                                        *)
LEMMA QueueCounts ==
  ASSUME TypeOK, Roles
  PROVE  /\ IsFiniteSet(Sleepers) /\ IsFiniteSet(Signaled) /\ IsFiniteSet(Sleepers \cup Signaled)
         /\ Cardinality(Sleepers) \in Nat /\ Cardinality(Sleepers \cup Signaled) \in Nat
         /\ Cardinality(Sleepers) <= Cardinality(Sleepers \cup Signaled)
         /\ Cardinality(Sleepers \cup Signaled) <= Cardinality(Consumers)
         /\ Cardinality(Consumers) \in Nat /\ Cardinality(Consumers) <= MaxPermits
         /\ MaxPermits \in Nat
<1>1. Sleepers \cup Signaled \subseteq Consumers
  BY DEF Roles, Sleepers, Signaled, PopPlaces
<1>2. /\ IsFiniteSet(Sleepers \cup Signaled)
      /\ Cardinality(Sleepers \cup Signaled) <= Cardinality(Consumers)
  BY <1>1, ConsumersAssumption, FS_Subset
<1>3. /\ IsFiniteSet(Sleepers) /\ IsFiniteSet(Signaled)
      /\ Cardinality(Sleepers) <= Cardinality(Sleepers \cup Signaled)
  BY <1>2, FS_Subset
<1>. QED BY <1>2, <1>3, ConsumersAssumption, PermitsAssumption, FS_CardinalityType

(* A thread that goes between places where nobody waits changes no count.  *)
LEMMA GotoAwake ==
  ASSUME TypeOK, NEW t \in Threads, pc[t] \notin Waits \cup Wakes,
         NEW p \in Places \ (Waits \cup Wakes), pc' = [pc EXCEPT ![t] = p]
  PROVE  Sleepers' = Sleepers /\ Signaled' = Signaled
BY PlacesTyped DEF Sleepers, Signaled, Waits, Wakes

(* A step that moves no waiter keeps the waiters' count.                   *)
LEMMA SameWaiters ==
  ASSUME QueueInv, Sleepers' = Sleepers, Signaled' = Signaled, waiters' = waiters
  PROVE  WaitersCount'
BY DEF QueueInv, WaitersCount

(* A broadcast leaves a permit for every sleeper.                          *)
LEMMA BroadcastWakes ==
  ASSUME QueueInv, Broadcast
  PROVE  /\ permits' \in 0 .. MaxPermits /\ permits' >= Cardinality(Sleepers)
         /\ waiters' = waiters /\ counter' = counter
<1>1. /\ permits' = IF permits + waiters > MaxPermits THEN MaxPermits ELSE permits + waiters
      /\ waiters' = waiters /\ counter' = counter
  BY DEF Broadcast
<1>2. permits \in 0 .. MaxPermits /\ waiters = Cardinality(Sleepers \cup Signaled)
  BY DEF QueueInv, TypeOK, WaitersCount
<1>. QED BY <1>1, <1>2, QueueCounts DEF QueueInv

(* The queue starts in the strengthening.                                  *)
LEMMA QueueInitOK == Init => QueueInv
<1>. SUFFICES ASSUME Init PROVE QueueInv
  OBVIOUS
<1>1. Sleepers = {} /\ Signaled = {}
  BY DEF Init, Sleepers, Signaled
<1>2. Cardinality(Sleepers) = 0 /\ Cardinality(Sleepers \cup Signaled) = 0
  BY <1>1, FS_EmptySet
<1>3. Cardinality(Consumers) \in Nat /\ MaxPermits \in Nat /\ Capacity \in Nat
  BY ConsumersAssumption, PermitsAssumption, CapacityAssumption, FS_CardinalityType
<1>4. TypeOK
  <2>1. queue \in Seq(Events) /\ Len(queue) = 0
    BY DEF Init
  <2>2. shutdown \in BOOLEAN
    BY Zenon DEF Init
  <2>. QED BY <1>3, <2>1, <2>2 DEF Init, TypeOK
<1>5. Roles
  BY DEF Init, Roles, PopPlaces
<1>6. WaitersCount /\ NoLostWakeup
  BY <1>2 DEF Init, WaitersCount, NoLostWakeup
<1>. QED BY <1>4, <1>5, <1>6 DEF QueueInv

(* A call that returns keeps the invariant if what it did to the ring and  *)
(* to the permits does.                                                    *)
LEMMA ReturnKeeps ==
  ASSUME QueueInv, NEW t \in Threads, pc[t] \in Wanting,
         NEW v \in Events \cup {NULL, "ok", "failed"}, Return(t, v), owner' = NoThread,
         queue' \in Seq(Events), Len(queue') <= Capacity, shutdown' \in BOOLEAN,
         permits' \in 0 .. MaxPermits, waiters' = waiters, counter' = counter,
         queue' # <<>> \/ shutdown' => permits' >= Cardinality(Sleepers)
  PROVE  QueueInv'
<1>1. /\ pc' = [pc EXCEPT ![t] = "idle"] /\ out' = [out EXCEPT ![t] = v]
      /\ arg' = [arg EXCEPT ![t] = NULL]
  BY DEF Return, Goto
<1>2. Sleepers' = Sleepers /\ Signaled' = Signaled
  BY <1>1, GotoAwake DEF QueueInv, Wanting, Waits, Wakes, Places
<1>3. TypeOK'
  BY <1>1 DEF QueueInv, TypeOK
<1>4. Roles'
  BY <1>1 DEF QueueInv, TypeOK, Roles, PopPlaces
<1>5. WaitersCount' /\ NoLostWakeup'
  BY <1>2, SameWaiters DEF NoLostWakeup
<1>. QED BY <1>3, <1>4, <1>5 DEF QueueInv

(* A thread in a section owns the lock, and gives it up.                   *)
LEMMA SectionFacts ==
  ASSUME QueueInv, NEW t \in Threads, NEW c \in Wanting, Section(t, c)
  PROVE  pc[t] = c /\ pc[t] \in Wanting /\ owner = t /\ owner' = NoThread
BY DEF Section

(* The permits suffice as long as the ring and the semaphore stay.         *)
LEMMA StillAwake ==
  ASSUME QueueInv, UNCHANGED permits, queue' # <<>> \/ shutdown' => queue # <<>> \/ shutdown
  PROVE  /\ permits' \in 0 .. MaxPermits
         /\ queue' # <<>> \/ shutdown' => permits' >= Cardinality(Sleepers)
BY DEF QueueInv, TypeOK, NoLostWakeup

(* Making a call keeps it.                                                 *)
LEMMA CallingKeeps ==
  ASSUME QueueInv, NEW t \in Threads, Calling(t)
  PROVE  QueueInv'
<1>1. PICK c \in {"push", "tryPush", "pop", "tryPop", "timedPop", "shutdown"} :
        /\ pc[t] = "idle" /\ pc' = [pc EXCEPT ![t] = c]
        /\ UNCHANGED <<queue, shutdown, owner, permits, waiters, counter, out>>
        /\ c \in {"push", "tryPush"} => \E e \in Events : arg' = [arg EXCEPT ![t] = e]
        /\ c \notin {"push", "tryPush"} => arg' = arg
        /\ c \in {"pop", "tryPop", "timedPop"} => t \in Consumers
  BY DEF Calling, CallPush, CallPop, CallShutdown, Enter, Goto, ring, cond
<1>2. Sleepers' = Sleepers /\ Signaled' = Signaled
  BY <1>1, GotoAwake DEF QueueInv, Wanting, Waits, Wakes, Places
<1>3. arg' \in [Threads -> Events \cup {NULL}]
  BY <1>1 DEF QueueInv, TypeOK
<1>4. TypeOK'
  BY <1>1, <1>3 DEF QueueInv, TypeOK, Wanting
<1>5. Roles'
  BY <1>1 DEF QueueInv, TypeOK, Roles, PopPlaces
<1>6. WaitersCount' /\ NoLostWakeup'
  BY <1>1, <1>2, SameWaiters DEF QueueInv, NoLostWakeup
<1>. QED BY <1>4, <1>5, <1>6 DEF QueueInv

(* Taking the lock keeps it.                                               *)
LEMMA LockKeeps ==
  ASSUME QueueInv, NEW t \in Threads, Lock(t) \/ LockCount(t)
  PROVE  QueueInv'
<1>1. /\ UNCHANGED <<queue, shutdown, permits, waiters, pc, arg, out>>
      /\ owner' \in {owner, t} /\ counter' \in {counter, t}
  BY DEF Lock, LockCount, ring, cond
<1>2. TypeOK' /\ Roles'
  BY <1>1 DEF QueueInv, TypeOK, Roles
<1>. QED BY <1>1, <1>2 DEF QueueInv, WaitersCount, NoLostWakeup, Sleepers, Signaled

(* An event that is appended, in the place of the oldest if need be.       *)
LEMMA Appended ==
  ASSUME TypeOK, NEW e \in Events, NEW q, q = Append(IF Len(queue) = Capacity THEN Tail(queue) ELSE queue, e)
  PROVE  q \in Seq(Events) /\ Len(q) <= Capacity
<1>1. queue \in Seq(Events) /\ Len(queue) \in Nat /\ Len(queue) <= Capacity /\ Capacity \in Nat \ {0}
  BY CapacityAssumption DEF TypeOK
<1>2. CASE Len(queue) = Capacity
  <2>1. queue # <<>>
    BY <1>1, <1>2
  <2>2. Tail(queue) \in Seq(Events) /\ Len(Tail(queue)) = Len(queue) - 1
    BY <1>1, <2>1
  <2>. QED BY <1>1, <1>2, <2>2
<1>3. CASE Len(queue) # Capacity
  BY <1>1, <1>3
<1>. QED BY <1>2, <1>3

(* Both ways to push keep it.                                              *)
LEMMA PushKeeps ==
  ASSUME QueueInv, NEW t \in Threads, Push(t) \/ TryPush(t)
  PROVE  QueueInv'
<1>1. pc[t] \in {"push", "tryPush"} /\ pc[t] \in Wanting /\ owner' = NoThread /\ shutdown' = shutdown
  BY DEF Push, TryPush, Section, Wanting
<1>2. arg[t] \in Events
  BY <1>1 DEF QueueInv, Roles
<1>3. \/ Return(t, "failed") /\ UNCHANGED <<queue, cond>>
      \/ /\ Return(t, "ok") /\ Broadcast
         /\ queue' = Append(IF Len(queue) = Capacity THEN Tail(queue) ELSE queue, arg[t])
  BY <1>1 DEF Push, TryPush, QueueInv, TypeOK
<1>4. CASE Return(t, "failed") /\ UNCHANGED <<queue, cond>>
  BY <1>1, <1>4, StillAwake, ReturnKeeps DEF QueueInv, TypeOK, cond
<1>5. CASE /\ Return(t, "ok") /\ Broadcast
           /\ queue' = Append(IF Len(queue) = Capacity THEN Tail(queue) ELSE queue, arg[t])
  <2>1. queue' \in Seq(Events) /\ Len(queue') <= Capacity
    BY <1>2, <1>5, Appended DEF QueueInv
  <2>2. shutdown' \in BOOLEAN
    BY <1>1 DEF QueueInv, TypeOK
  <2>. QED BY <1>1, <1>5, <2>1, <2>2, BroadcastWakes, ReturnKeeps
<1>. QED BY <1>3, <1>4, <1>5

(* Shutting down, which wakes every waiter, keeps it.                      *)
LEMMA ShutdownKeeps ==
  ASSUME QueueInv, NEW t \in Threads, Shutdown(t)
  PROVE  QueueInv'
<1>1. /\ pc[t] \in Wanting /\ owner' = NoThread /\ Broadcast /\ Return(t, "ok")
      /\ queue' = queue
  BY DEF Shutdown, Section, Wanting
<1>2. shutdown' \in BOOLEAN
  BY Zenon DEF Shutdown
<1>. QED BY <1>1, <1>2, BroadcastWakes, ReturnKeeps DEF QueueInv, TypeOK

(* A pop that takes an event, or returns without one.                      *)
LEMMA TakeKeeps ==
  ASSUME QueueInv, NEW t \in Threads, pc[t] \in Wanting, owner' = NoThread, Take(t) \/ TakeNothing(t)
  PROVE  QueueInv'
<1>1. CASE Take(t)
  <2>1. /\ queue # <<>> /\ queue' = Tail(queue) /\ Return(t, Head(queue))
        /\ UNCHANGED <<shutdown, permits, waiters, counter>>
    BY <1>1 DEF Take, cond
  <2>2. /\ queue \in Seq(Events) /\ Len(queue) \in Nat /\ Len(queue) <= Capacity /\ Capacity \in Nat
        /\ shutdown' \in BOOLEAN
    BY <2>1, CapacityAssumption DEF QueueInv, TypeOK
  <2>3. Head(queue) \in Events /\ queue' \in Seq(Events) /\ Len(queue') <= Capacity
    BY <2>1, <2>2
  <2>. QED BY <2>1, <2>2, <2>3, StillAwake, ReturnKeeps
<1>2. CASE TakeNothing(t)
  BY <1>2, StillAwake, ReturnKeeps DEF TakeNothing, ring, cond, QueueInv, TypeOK
<1>. QED BY <1>1, <1>2

(* A thread goes to sleep only when there is nothing to take.              *)
LEMMA BlockKeeps ==
  ASSUME QueueInv, NEW t \in Threads, NEW p \in Waits, Block(t, p), owner' = NoThread,
         pc[t] \in PopPlaces \cap Wanting
  PROVE  QueueInv'
<1>1. /\ queue = <<>> /\ shutdown = FALSE /\ waiters' = waiters + 1 /\ pc' = [pc EXCEPT ![t] = p]
      /\ UNCHANGED <<queue, shutdown, permits, counter, arg, out>>
  BY DEF Block, Goto, ring, QueueInv, TypeOK
<1>2. t \notin Sleepers \cup Signaled /\ (Sleepers \cup Signaled)' = Sleepers \cup Signaled \cup {t}
  BY <1>1 DEF QueueInv, TypeOK, Sleepers, Signaled, Wanting, Waits
<1>3. Cardinality((Sleepers \cup Signaled)') = Cardinality(Sleepers \cup Signaled) + 1
  BY <1>2, QueueCounts, FS_AddElement DEF QueueInv
<1>4. WaitersCount'
  BY <1>1, <1>3 DEF QueueInv, WaitersCount
<1>5. Roles'
  BY <1>1 DEF QueueInv, TypeOK, Roles, PopPlaces, Waits
<1>6. waiters' \in 0 .. Cardinality(Consumers)
  <2>1. (Sleepers \cup Signaled)' \subseteq Consumers
    BY <1>5 DEF Roles, Sleepers, Signaled, PopPlaces
  <2>2. Cardinality((Sleepers \cup Signaled)') <= Cardinality(Consumers)
    BY <2>1, ConsumersAssumption, FS_Subset
  <2>. QED BY <1>3, <1>4, <2>2, QueueCounts DEF QueueInv, WaitersCount
<1>7. TypeOK'
  BY <1>1, <1>6 DEF QueueInv, TypeOK, Waits
<1>8. NoLostWakeup'
  BY <1>1 DEF NoLostWakeup
<1>. QED BY <1>4, <1>5, <1>7, <1>8 DEF QueueInv

(* The three ways to pop keep it.                                          *)
LEMMA PopKeeps ==
  ASSUME QueueInv, NEW t \in Threads, Pop(t) \/ TryPop(t) \/ TimedPop(t)
  PROVE  QueueInv'
<1>1. pc[t] \in Wanting /\ pc[t] \in PopPlaces /\ owner' = NoThread
  BY DEF Pop, TryPop, TimedPop, Section, Wanting, PopPlaces
<1>2. Take(t) \/ TakeNothing(t) \/ \E p \in Waits : Block(t, p)
  BY DEF Pop, TryPop, TimedPop, Waits
<1>. QED BY <1>1, <1>2, TakeKeeps, BlockKeeps

(* A permit that is acquired is that of a sleeper who wakes.               *)
LEMMA AcquirePermitKeeps ==
  ASSUME QueueInv, NEW t \in Threads, AcquirePermit(t) \/ Expire(t)
  PROVE  QueueInv'
<1>1. PICK p \in Wakes :
        /\ pc[t] \in Waits /\ pc' = [pc EXCEPT ![t] = p]
        /\ permits' \in {permits, permits - 1} /\ permits' >= 0
        /\ UNCHANGED <<queue, shutdown, owner, waiters, counter, arg, out>>
  BY DEF AcquirePermit, Expire, Goto, Waits, Wakes, ring, cond, QueueInv, TypeOK
<1>2. /\ t \in Sleepers /\ Sleepers' = Sleepers \ {t}
      /\ (Sleepers \cup Signaled)' = Sleepers \cup Signaled
  BY <1>1 DEF QueueInv, TypeOK, Sleepers, Signaled, Waits, Wakes
<1>3. Cardinality(Sleepers') = Cardinality(Sleepers) - 1
  BY <1>2, QueueCounts, FS_RemoveElement DEF QueueInv
<1>4. WaitersCount'
  BY <1>1, <1>2 DEF QueueInv, WaitersCount
<1>5. NoLostWakeup'
  BY <1>1, <1>3, QueueCounts DEF QueueInv, TypeOK, NoLostWakeup
<1>6. TypeOK'
  BY <1>1, PermitsAssumption DEF QueueInv, TypeOK, Wakes
<1>7. Roles'
  BY <1>1 DEF QueueInv, TypeOK, Roles, PopPlaces, Waits, Wakes
<1>. QED BY <1>4, <1>5, <1>6, <1>7 DEF QueueInv

(* A waiter that uncounts itself keeps it.                                 *)
LEMMA UncountKeeps ==
  ASSUME QueueInv, NEW t \in Threads, Uncount(t)
  PROVE  QueueInv'
<1>1. PICK p \in {"popWoken", "timedWoken", "expired"} :
        /\ pc[t] \in Wakes /\ pc' = [pc EXCEPT ![t] = p]
        /\ waiters' = waiters - 1 /\ counter' = NoThread
        /\ UNCHANGED <<queue, shutdown, owner, permits, arg, out>>
  BY DEF Uncount, Goto, Wakes, ring
<1>2. /\ t \in Sleepers \cup Signaled /\ Sleepers' = Sleepers
      /\ (Sleepers \cup Signaled)' = (Sleepers \cup Signaled) \ {t}
  BY <1>1 DEF QueueInv, TypeOK, Sleepers, Signaled, Wakes
<1>3. Cardinality((Sleepers \cup Signaled)') = Cardinality(Sleepers \cup Signaled) - 1
  BY <1>2, QueueCounts, FS_RemoveElement DEF QueueInv
<1>4. WaitersCount' /\ NoLostWakeup'
  BY <1>1, <1>2, <1>3 DEF QueueInv, WaitersCount, NoLostWakeup
<1>5. Roles'
  BY <1>1 DEF QueueInv, TypeOK, Roles, PopPlaces, Wakes
<1>6. IsFiniteSet((Sleepers \cup Signaled)')
  BY <1>2, QueueCounts, FS_RemoveElement DEF QueueInv
<1>7. waiters' \in 0 .. Cardinality(Consumers)
  BY <1>1, <1>3, <1>4, <1>6, QueueCounts, FS_CardinalityType DEF QueueInv, WaitersCount
<1>8. TypeOK'
  BY <1>1, <1>7 DEF QueueInv, TypeOK, Wanting
<1>. QED BY <1>4, <1>5, <1>8 DEF QueueInv

(* Every step of the composed module keeps it.                             *)
LEMMA QueueKept == QueueInv /\ [PicoNext]_picoVars => QueueInv'
<1>. SUFFICES ASSUME QueueInv, [PicoNext]_picoVars PROVE QueueInv'
  OBVIOUS
<1>1. CASE UNCHANGED vars
  BY <1>1 DEF vars, QueueInv, TypeOK, Roles, WaitersCount, NoLostWakeup, Sleepers, Signaled
<1>2. CASE Next
  BY <1>2, CallingKeeps, LockKeeps, PushKeeps, ShutdownKeeps, PopKeeps, AcquirePermitKeeps,
     UncountKeeps DEF Next, Advance, Progress
<1>3. UNCHANGED vars \/ Next
  BY DEF PicoNext, picoVars, OnQueue, OnGroup
<1>. QED BY <1>1, <1>2, <1>3

(* The strengthening of the queue always holds.                            *)
LEMMA QueueAlways == PicoSpec => []QueueInv
<1>1. PicoInit => QueueInv
  BY QueueInitOK DEF PicoInit
<1>. QED BY <1>1, QueueKept, PTL DEF PicoSpec

(* The semaphore condition of the Pico counts its waiters right although   *)
(* the count changes under two locks, and loses no wake-up: while there is *)
(* an event or the queue is shut down, every sleeper has a permit, for any *)
(* threads and handlers and any capacity.                                  *)
THEOREM QueueCorrect == PicoSpec => []QueueSound
<1>1. QueueInv => QueueSound
  BY DEF QueueInv, QueueSound
<1>. QED BY <1>1, QueueAlways, PTL

-----------------------------------------------------------------------------
(* The event queue implements BoundedEvents.                               *)

Call == [t \in Threads |-> CallName(pc[t])]

(* The call each place belongs to.                                         *)
LEMMA CallNames ==
  /\ CallName("idle") = "none"
  /\ \A p \in {"popWait", "popSignaled", "popWoken"} : CallName(p) = "pop"
  /\ \A p \in {"timedWait", "timedSignaled", "timedWoken", "timedOut", "expired"} :
       CallName(p) = "timedPop"
  /\ \A p \in {"push", "tryPush", "pop", "tryPop", "timedPop", "shutdown"} : CallName(p) = p
BY DEF CallName

(* A thread that goes to a place of the same call stays in that call.      *)
LEMMA CallGoes ==
  ASSUME TypeOK, NEW t \in Threads, NEW p, pc' = [pc EXCEPT ![t] = p]
  PROVE  Call' = [Call EXCEPT ![t] = CallName(p)]
BY DEF TypeOK, Call

(* A thread that moves inside its call is in the same call for a caller.   *)
LEMMA CallStays ==
  ASSUME TypeOK, NEW t \in Threads, NEW p, pc' = [pc EXCEPT ![t] = p],
         CallName(p) = CallName(pc[t])
  PROVE  Call' = Call
BY CallGoes DEF Call

(* A call that returns does so in the abstract queue.                      *)
LEMMA ReturnReturns ==
  ASSUME QueueInv, NEW t \in Threads, NEW v, Return(t, v)
  PROVE  /\ Call' = [Call EXCEPT ![t] = "none"] /\ Call[t] = CallName(pc[t])
         /\ out' = [out EXCEPT ![t] = v] /\ arg' = [arg EXCEPT ![t] = NULL]
<1>1. /\ pc' = [pc EXCEPT ![t] = "idle"] /\ out' = [out EXCEPT ![t] = v]
      /\ arg' = [arg EXCEPT ![t] = NULL]
  BY DEF Return, Goto
<1>2. Call' = [Call EXCEPT ![t] = CallName("idle")]
  BY <1>1, CallGoes DEF QueueInv
<1>. QED BY <1>1, <1>2, CallNames DEF Call

AbstractStep == [Abstract!Next]_(Abstract!vars)

(* A step a caller cannot see is a stutter of the bounded queue.           *)
LEMMA QueueStutters ==
  ASSUME Call' = Call, UNCHANGED <<queue, shutdown, arg, out>>
  PROVE  AbstractStep
BY DEF AbstractStep, Abstract!vars, Call

(* Making a call is the Begin of the bounded queue.                        *)
LEMMA CallingRefines ==
  ASSUME QueueInv, NEW t \in Threads, Calling(t)
  PROVE  Abstract!Begin(t)
<1>1. PICK c \in {"push", "tryPush", "pop", "tryPop", "timedPop", "shutdown"} :
        /\ pc[t] = "idle" /\ pc' = [pc EXCEPT ![t] = c]
        /\ UNCHANGED <<queue, shutdown, out>>
        /\ arg' = arg \/ \E e \in Events : arg' = [arg EXCEPT ![t] = e]
  BY DEF Calling, CallPush, CallPop, CallShutdown, Enter, Goto, ring
<1>2. Call' = [Call EXCEPT ![t] = c] /\ Call[t] = "none"
  <2>1. Call' = [Call EXCEPT ![t] = CallName(c)]
    BY <1>1, CallGoes DEF QueueInv
  <2>. QED BY <1>1, <2>1, CallNames DEF Call
<1>3. c \in Abstract!Calls
  BY DEF Abstract!Calls, Abstract!PushCalls, Abstract!PopCalls
<1>. QED BY <1>1, <1>2, <1>3 DEF Abstract!Begin, Call

(* A push accepts or refuses its event there.                              *)
LEMMA PushRefines ==
  ASSUME QueueInv, NEW t \in Threads, Push(t) \/ TryPush(t)
  PROVE  Abstract!Accept(t) \/ Abstract!Refuse(t)
<1>1. pc[t] \in {"push", "tryPush"} /\ shutdown' = shutdown
  BY DEF Push, TryPush, Section
<1>2. CallName(pc[t]) = pc[t]
  BY <1>1, CallNames
<1>3. /\ queue \in Seq(Events) /\ Len(queue) \in Nat /\ Len(queue) <= Capacity /\ Capacity \in Nat
      /\ shutdown \in BOOLEAN
  BY CapacityAssumption DEF QueueInv, TypeOK
<1>4. CASE /\ Return(t, "failed") /\ queue' = queue
           /\ shutdown \/ (pc[t] = "tryPush" /\ Len(queue) = Capacity)
  <2>1. /\ Call' = [Call EXCEPT ![t] = "none"] /\ Call[t] = pc[t]
        /\ out' = [out EXCEPT ![t] = "failed"] /\ arg' = [arg EXCEPT ![t] = NULL]
    BY <1>2, <1>4, ReturnReturns
  <2>. QED BY <1>1, <1>4, <2>1 DEF Abstract!Refuse, Abstract!Usable, Abstract!Return,
                                   Abstract!PushCalls, Call
<1>5. CASE /\ Return(t, "ok") /\ ~shutdown
           /\ \/ Len(queue) < Capacity /\ queue' = Append(queue, arg[t])
              \/ pc[t] = "push" /\ Len(queue) = Capacity /\ queue' = Append(Tail(queue), arg[t])
  <2>1. /\ Call' = [Call EXCEPT ![t] = "none"] /\ Call[t] = pc[t]
        /\ out' = [out EXCEPT ![t] = "ok"] /\ arg' = [arg EXCEPT ![t] = NULL]
    BY <1>2, <1>5, ReturnReturns
  <2>. QED BY <1>1, <1>5, <2>1 DEF Abstract!Accept, Abstract!Usable, Abstract!Return,
                                   Abstract!PushCalls, Call
<1>6. CASE Push(t)
  <2>1. pc[t] = "push"
    BY <1>6 DEF Push, Section
  <2>2. CASE Return(t, "failed") /\ queue' = queue /\ shutdown
    BY <1>3, <1>4, <2>2
  <2>3. CASE /\ Return(t, "ok") /\ ~shutdown
             /\ queue' = Append(IF Len(queue) = Capacity THEN Tail(queue) ELSE queue, arg[t])
    BY <1>3, <1>5, <2>1, <2>3
  <2>. QED BY <1>6, <2>2, <2>3 DEF Push
<1>7. CASE TryPush(t)
  <2>1. pc[t] = "tryPush"
    BY <1>7 DEF TryPush, Section
  <2>2. CASE Return(t, "failed") /\ queue' = queue /\ (shutdown \/ Len(queue) = Capacity)
    BY <1>3, <1>4, <2>1, <2>2
  <2>3. CASE /\ Return(t, "ok") /\ ~shutdown /\ Len(queue) < Capacity
             /\ queue' = Append(queue, arg[t])
    BY <1>5, <2>3
  <2>. QED BY <1>7, <2>2, <2>3 DEF TryPush
<1>. QED BY <1>6, <1>7

(* Shutting down closes it there.                                          *)
LEMMA ShutdownRefines ==
  ASSUME QueueInv, NEW t \in Threads, Shutdown(t)
  PROVE  Abstract!Close(t)
<1>1. pc[t] = "shutdown" /\ shutdown' = TRUE /\ queue' = queue /\ Return(t, "ok")
  BY DEF Shutdown, Section
<1>2. /\ Call' = [Call EXCEPT ![t] = "none"] /\ Call[t] = "shutdown"
      /\ out' = [out EXCEPT ![t] = "ok"] /\ arg' = [arg EXCEPT ![t] = NULL]
  BY <1>1, CallNames, ReturnReturns
<1>. QED BY <1>1, <1>2 DEF Abstract!Close, Abstract!Usable, Abstract!Return, Call

(* A pop delivers, delivers nothing, or goes on waiting there.             *)
LEMMA PopRefines ==
  ASSUME QueueInv, NEW t \in Threads, Pop(t) \/ TryPop(t) \/ TimedPop(t)
  PROVE  Abstract!Deliver(t) \/ Abstract!DeliverNothing(t) \/ AbstractStep
<1>1. CallName(pc[t]) \in Abstract!PopCalls
  BY CallNames DEF Pop, TryPop, TimedPop, Section, Abstract!PopCalls
<1>2. CASE Take(t)
  <2>1. /\ queue # <<>> /\ queue' = Tail(queue) /\ Return(t, Head(queue)) /\ shutdown' = shutdown
    BY <1>2 DEF Take
  <2>2. /\ Call' = [Call EXCEPT ![t] = "none"] /\ Call[t] \in Abstract!PopCalls
        /\ out' = [out EXCEPT ![t] = Head(queue)] /\ arg' = [arg EXCEPT ![t] = NULL]
    BY <1>1, <2>1, ReturnReturns
  <2>. QED BY <2>1, <2>2 DEF Abstract!Deliver, Abstract!Usable, Abstract!Return, Call
<1>3. CASE /\ TakeNothing(t)
           /\ \/ CallName(pc[t]) = "pop" /\ queue = <<>> /\ shutdown
              \/ CallName(pc[t]) = "tryPop" /\ queue = <<>>
              \/ CallName(pc[t]) = "timedPop"
  <2>1. Return(t, NULL) /\ UNCHANGED <<queue, shutdown>>
    BY <1>3 DEF TakeNothing, ring
  <2>2. /\ Call' = [Call EXCEPT ![t] = "none"] /\ Call[t] = CallName(pc[t])
        /\ out' = [out EXCEPT ![t] = NULL] /\ arg' = [arg EXCEPT ![t] = NULL]
    BY <2>1, ReturnReturns
  <2>. QED BY <1>3, <2>1, <2>2 DEF Abstract!DeliverNothing, Abstract!Usable, Abstract!Return, Call
<1>4. ASSUME NEW p \in Waits, Block(t, p), CallName(p) = CallName(pc[t])
      PROVE  AbstractStep
  <2>1. pc' = [pc EXCEPT ![t] = p] /\ UNCHANGED <<queue, shutdown, arg, out>>
    BY <1>4 DEF Block, Goto, ring
  <2>. QED BY <1>4, <2>1, CallStays, QueueStutters DEF QueueInv
<1>5. CASE Pop(t)
  <2>1. CallName(pc[t]) = "pop"
    BY <1>5, CallNames DEF Pop, Section
  <2>. QED BY <1>2, <1>3, <1>4, <1>5, <2>1, CallNames DEF Pop, Waits
<1>6. CASE TryPop(t)
  <2>1. CallName(pc[t]) = "tryPop"
    BY <1>6, CallNames DEF TryPop, Section
  <2>. QED BY <1>2, <1>3, <1>6, <2>1 DEF TryPop
<1>7. CASE TimedPop(t)
  <2>1. CallName(pc[t]) = "timedPop"
    BY <1>7, CallNames DEF TimedPop, Section
  <2>. QED BY <1>2, <1>3, <1>4, <1>7, <2>1, CallNames DEF TimedPop, Waits
<1>. QED BY <1>5, <1>6, <1>7

(* Locks, permits and the count of waiters are invisible to the callers.   *)
LEMMA CondRefines ==
  ASSUME QueueInv, NEW t \in Threads,
         Lock(t) \/ LockCount(t) \/ AcquirePermit(t) \/ Expire(t) \/ Uncount(t)
  PROVE  AbstractStep
<1>1. UNCHANGED <<queue, shutdown, arg, out>>
  BY DEF Lock, LockCount, AcquirePermit, Expire, Uncount, ring
<1>2. CASE Lock(t) \/ LockCount(t)
  <2>1. Call' = Call
    BY <1>2 DEF Lock, LockCount, Call
  <2>. QED BY <1>1, <2>1, QueueStutters
<1>3. CASE AcquirePermit(t) \/ Expire(t) \/ Uncount(t)
  <2>1. PICK p : pc' = [pc EXCEPT ![t] = p] /\ CallName(p) = CallName(pc[t])
    BY <1>3, CallNames DEF AcquirePermit, Expire, Uncount, Goto
  <2>2. Call' = Call
    BY <2>1, CallStays DEF QueueInv
  <2>. QED BY <1>1, <2>2, QueueStutters
<1>. QED BY <1>2, <1>3

(* The spinning mutex and the semaphore condition implement the queue that *)
(* every platform promises: a FIFO, closed once, that only a push on a     *)
(* full ring makes lose an event.                                          *)
THEOREM QueueRefines == PicoSpec => Implements
<1>1. PicoInit => Abstract!Init
  BY CallNames DEF PicoInit, Init, Abstract!Init
<1>2. QueueInv /\ [PicoNext]_picoVars => [Abstract!Next]_(Abstract!vars)
  <2>. SUFFICES ASSUME QueueInv, [PicoNext]_picoVars PROVE AbstractStep
    BY DEF AbstractStep
  <2>1. CASE UNCHANGED vars
    BY <2>1, QueueStutters DEF vars, Call
  <2>2. ASSUME NEW t \in Threads, Calling(t) \/ Advance(t)
        PROVE  AbstractStep
    <3>1. CASE Calling(t) \/ Push(t) \/ TryPush(t) \/ Shutdown(t)
      BY <3>1, CallingRefines, PushRefines, ShutdownRefines DEF AbstractStep, Abstract!Next
    <3>2. CASE Pop(t) \/ TryPop(t) \/ TimedPop(t)
      BY <3>2, PopRefines DEF AbstractStep, Abstract!Next
    <3>3. CASE Lock(t) \/ LockCount(t) \/ AcquirePermit(t) \/ Expire(t) \/ Uncount(t)
      BY <3>3, CondRefines
    <3>. QED BY <2>2, <3>1, <3>2, <3>3 DEF Advance, Progress
  <2>3. UNCHANGED vars \/ Next
    BY DEF PicoNext, picoVars, OnQueue, OnGroup
  <2>. QED BY <2>1, <2>2, <2>3 DEF Next
<1>. QED BY <1>1, <1>2, QueueAlways, PTL DEF PicoSpec, Implements, Abstract!Spec
=============================================================================
